CONSTANTS
  r1 = r1  r2 = r2  r3 = r3
  j1 = j1  j2 = j2  j3 = j3
  Reqs = {r1, r2, r3}
  Jobs = {j1, j2, j3}
  Users = {ann}
  Keys = {k}
  Kinds = {scrape, crawl}
  NoUser = NoUser
  NoKey = NoKey
  NoJob = NoJob
  NoRow = NoRow
SPECIFICATION Spec
SYMMETRY ReqJobSymmetry
CHECK_DEADLOCK FALSE
INVARIANTS
  
  AnswersAgree
  OneRowPerKey
  AnswerIsOwnJob
  RelookupFinds
PROPERTY
  ImplementsAbstract
