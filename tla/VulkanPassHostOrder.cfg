SPECIFICATION HostSpec
CONSTANTS
  Bridge = Bridge
  None = None
  Client <- OneClient
  Plugin <- TwoPlugins
  Priority <- OnePriority
  MaxPass = 3
  MaxToken = 6
PROPERTIES HostOrderKept
\* After the device and every plugin are gone nothing is left to do.
CHECK_DEADLOCK FALSE
