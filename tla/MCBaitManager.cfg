SPECIFICATION Spec
CONSTANTS
  ssh = ssh
  ali = ali
  key = key
  ls = ls
  cd = cd
  Baits <- MCBaits
  Parts <- MCParts
  TextOf <- MCTextOf
  Cmds <- MCCmds
  MaxJobs = 3
  MaxFaults = 2
INVARIANTS BaitOnce CommandsKept
CHECK_DEADLOCK FALSE
