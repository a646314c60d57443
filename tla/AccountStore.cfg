SPECIFICATION Spec
CONSTANTS
  Accounts = {a1, a2, a3}
  Tokens = {k1}
  Tasks = {x1, x2}
  Crashes = 2
  None = None
  Torn = Torn
SYMMETRY StoreSymmetry
INVARIANTS
  TypeOK
  IndexWellFormed
  RotationFair
PROPERTIES
  OnlyRemovalUnlists
  RestartHonoursBan
CHECK_DEADLOCK FALSE
