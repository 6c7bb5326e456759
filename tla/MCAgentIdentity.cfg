SPECIFICATION FairSpec
CONSTANTS
  MaxIds = 2
  MaxKeys = 4
  MaxCrashes = 2
  MaxFaults = 1
INVARIANTS OneIdentity KeysMatch
PROPERTIES IdentitySticks KeysStick KeyArrives
