SPECIFICATION FairSpec
CONSTANTS
  p1 = p1
  p2 = p2
  g1 = g1
  g2 = g2
  Procs = {p1}
  Writers = {g1, g2}
  Owner <- Shared
  MaxLines = 2
  MaxSize = 4
  SizeOf <- Lengths
  MaxNum = 2
  MaxDays = 2
  MaxDay = 3
  MaxMsgs = 2
  MaxFaults = 1
INVARIANTS  Bounded NotLater TriesAgain
PROPERTIES Returns
CHECK_DEADLOCK FALSE
