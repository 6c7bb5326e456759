SPECIFICATION FairSpec
CONSTANTS
  MaxActive = 3
  MaxMsgs = 4
  MaxDrops = 4
INVARIANTS SlotsAccounted Exhausted InOrder
PROPERTIES Resubscribes Delivered
