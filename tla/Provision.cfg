SPECIFICATION Spec
CONSTANTS
  p1 = p1
  p2 = p2
  v1 = v1
  v2 = v2
  Paths <- AllPaths
  Whole = {p1}
  Certified = {p1}
  Versions = {v1, v2}
  Installed <- InstalledVersions
  Latest = v2
  Default = v1
  Placed <- SomeFiles
  Offered = {None}
  Initially <- SomeStarts
  Boot = boot
  Syncs = {s1, s2}
  Puts = {u1}
  Capacity = 1
  MaxRuns = 2
  MaxEvents = 2
  Torn = Torn
  None = None
SYMMETRY Symmetry
INVARIANTS TypeOK  EndsAreHeard
CHECK_DEADLOCK FALSE
