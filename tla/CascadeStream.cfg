SPECIFICATION FairSpec
CONSTANTS
  IdleAfter = 2
  MaxPolls = 5
  ErrorsAfter = 2
  Capacity = 2
  MaxSteps = 2
  MaxLen = 3
INVARIANTS
  TypeOK
  InOrder
  TailDelivered
PROPERTIES
  StreamEnds
  PollerStops
CHECK_DEADLOCK FALSE
