SPECIFICATION FairSpec
CONSTANTS
  c1 = c1
  c2 = c2
  None = None
  Client <- MCClient
  Priority <- TwoPriorities
  MaxToken = 3
INVARIANTS TypeOK CountExact PassInv
PROPERTIES OrderKept RefinesContract LivePassRecorded UnregisterCompletes
\* After OnDeviceDestroy nothing is left to do.
CHECK_DEADLOCK FALSE
