SPECIFICATION Spec
CONSTANTS
  Accounts = {a1, a2}
  Tokens = {k1, k2}
  Tasks = {x1, x2}
  Crashes = 0
  None = None
  Torn = Torn
SYMMETRY StoreSymmetry
INVARIANT BanPersisted
CHECK_DEADLOCK FALSE
