\* Two requests, no symmetry: liveness and the refinement.
SPECIFICATION FairSpec
CONSTANTS
  s1 = s1
  t1 = t1
  t2 = t2
  Requests = {r1, r2}
  Slots = {s1}
  Tokens = {t1, t2}
  Calls <- SharedSlotCalls
  None = None
  Caps = {1}
  CapBound = 1
  MaxInFlight = 2
PROPERTIES AcquireReturns IdleReclaimed RegistryImplemented
CHECK_DEADLOCK FALSE
