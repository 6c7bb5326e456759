SPECIFICATION FairSpec
CONSTANTS
  c1 = c1
  c2 = c2
  Conns = {c1, c2}
  MaxFds = 4
  MaxChunks <- MCChunks
INVARIANTS FdsAccounted ReportedFirst EndHeldBack
PROPERTIES IsPipe Arrives Released
CHECK_DEADLOCK FALSE
