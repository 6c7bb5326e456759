SPECIFICATION Spec
CONSTANTS
  proxy = proxy
  bait = bait
  agent = agent
  nobody = nobody
  life = life
  mon = mon
  Names <- MCNames
  Threads <- MCThreads
  Agent <- agent
  Nobody <- nobody
  Life <- life
  Mon <- mon
  Proxy <- proxy
  Bait <- bait
  MaxPid = 5
  Gaps = {0}
  MaxFaults = 0
  Reserve = 0
INVARIANT NoEscape
CHECK_DEADLOCK FALSE
