SPECIFICATION FairSpec
CONSTANTS
  s1 = s1
  s2 = s2
  mine = mine
  wrong = wrong
  Slots = {s1, s2}
  Keys = {mine, wrong}
  Valid = {mine}
  NoKey = NoKey
  MaxJobs = 1
  MaxPolls = 2
CHECK_DEADLOCK FALSE
INVARIANTS SpinnerIsAWait AnswerIsOfLast 
PROPERTIES FlowEnds
