\* Three requests, one slot that two identities use, two tokens.
SPECIFICATION Spec
CONSTANTS
  Requests = {r1, r2, r3}
  s1 = s1
  t1 = t1
  t2 = t2
  Calls <- SharedSlotCalls
  Slots = {s1}
  Tokens = {t1, t2}
  None = None
  Caps = {1}
  CapBound = 1
  MaxInFlight = 2
INVARIANTS TypeOK ServedMatchesRequest PoolBounded
SYMMETRY RequestSymmetry
CHECK_DEADLOCK FALSE
