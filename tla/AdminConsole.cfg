SPECIFICATION Spec
CONSTANTS
  r1 = r1
  r2 = r2
  Slots = {r1, r2}
  NoSlot = NoSlot
  Secret = secret
  Others = {wrong}
  NoToken = NoToken
  Tabs = {"overview", "users", "billing"}
  Items = {1, 2}
  Found = {1}
  PageSize = 1
  Hosted = TRUE
CHECK_DEADLOCK FALSE
SYMMETRY SlotSymmetry
INVARIANTS  SpinnerIsAWait RowsNeedSecret
