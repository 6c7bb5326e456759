SPECIFICATION FairSpec
CONSTANTS
  http = http
  ssh = ssh
  manager = manager
  nobody = nobody
  hand = hand
  clean = clean
  Names <- MCNames
  Threads <- MCThreads
  Agent <- manager
  Nobody <- nobody
  Hand <- hand
  Clean <- clean
  PortOf <- MCSamePort
  MaxPid = 5
  Gaps = {0, 1}
  MaxJobs = 2
  MaxFaults = 1
INVARIANTS ServesItsKey StopKills
PROPERTIES DeafStable Settles
CHECK_DEADLOCK FALSE
