SPECIFICATION FairSpec
CONSTANTS
  Callers = {c1, c2}
  Importers = {i1}
  Instances = {n1}
  RefreshTokens = {k1}
  Clients = 2
  Blank = Blank
  None = None
INVARIANTS
  TypeOK
  ResolveExclusive
  RefreshedOnce
PROPERTIES
  CallersReturn
CHECK_DEADLOCK FALSE
