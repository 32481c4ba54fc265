SPECIFICATION Spec
SYMMETRY SlotSymmetry
CONSTANTS
  s1 = s1
  s2 = s2
  Slots = {s1, s2}
  MaxMade = 2
  Byok = TRUE
CHECK_DEADLOCK FALSE
INVARIANTS  HiddenIsGone SpinnerIsAWait SecretStaysToBeRead
