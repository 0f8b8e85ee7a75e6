SPECIFICATION HostFairSpec
CONSTANTS
  Bridge = Bridge
  None = None
  Client <- OneClient
  Plugin <- TwoPlugins
  Priority <- OnePriority
  MaxPass = 3
  MaxToken = 5
INVARIANTS HostTypeOK RecordsLivePass QuietReset BindingsExact HostInv
PROPERTIES OperationCompletes
\* After the device and every plugin are gone nothing is left to do.
CHECK_DEADLOCK FALSE
