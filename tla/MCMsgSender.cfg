SPECIFICATION SSpec
CONSTANTS
  Calls = 3
  Addrs = {home, away}
  QueueCap = 1
  MaxBatch = 1
INVARIANT PlainBatchExact
PROPERTIES Dispatched
CHECK_DEADLOCK FALSE
