SPECIFICATION FairSpec
CONSTANTS
  proxy = proxy
  bait = bait
  agent = agent
  nobody = nobody
  life = life
  mon = mon
  Names <- MCNames
  Threads <- MCThreads
  Agent <- agent
  Nobody <- nobody
  Life <- life
  Mon <- mon
  Proxy <- proxy
  Bait <- bait
  MaxPid = 11
  Gaps = {0, 1}
  MaxFaults = 2
  Reserve = 8
INVARIANTS TypeOK EntriesNamed SpawnSafe
PROPERTIES WedgeStable Converges
CHECK_DEADLOCK FALSE
