SPECIFICATION Spec
CHECK_DEADLOCK FALSE
CONSTANTS
  Instances = {i1, i2}
  NoCount = NoCount
  MaxEvents = 2
  MaxConnects = 1
  MaxFaults = 1
INVARIANTS TypeOK CountsAreRedis OrderPerPublisher SoleNotifierCountSettles
PROPERTIES EventsAreShown
