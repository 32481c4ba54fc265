SPECIFICATION Spec
CONSTANTS
  ann = ann
  bob = bob
  r1 = r1
  r2 = r2
  Accounts = {ann, bob}
  Registered = {ann}
  NoUser = NoUser
  Slots = {r1, r2}
  NoSlot = NoSlot
  Views = {"landing", "login", "overview", "pricing"}
  Hosted = TRUE
  RegistrationOpen = TRUE
  MaxTokens = 2
  MaxHistory = 2
CHECK_DEADLOCK FALSE
SYMMETRY SlotSymmetry
INVARIANTS OneIdentity SignedInHasToken LogoutForgets
PROPERTY HonouredTokenKept
