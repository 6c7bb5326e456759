SPECIFICATION Spec
CONSTANTS
  Calls = 2
  Addrs = {home}
  Home = home
  QueueCap = 1
  MaxBatch = 1
  Cap = 1
  MaxAccepts = 1
  MaxCasts = 1
INVARIANTS TypeOK InOrder
PROPERTIES Released
CHECK_DEADLOCK FALSE
