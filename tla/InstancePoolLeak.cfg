\* A request starts an instance, a DELETE of its slot follows.
SPECIFICATION Spec
CONSTANTS
  Requests = {r1, r2}
  s1 = s1
  t1 = t1
  t2 = t2
  Calls <- OneIdentityCalls
  Slots = {s1}
  Tokens = {t1, t2}
  None = None
  Caps = {1}
  CapBound = 1
  MaxInFlight = 2
PROPERTY ReclaimedProcessesEnd
CHECK_DEADLOCK FALSE
