CONSTANTS
  None = None
  NICId = {}
  h1 = h1
  w1 = w1
  MaxPorts = 3
  PortId <- MCPortId
  Hosts <- MCHosts
  Hardware <- MCHardware
  Files <- MCFiles
SPECIFICATION Spec
INVARIANT FailsOnlyOnSharedPeer
CHECK_DEADLOCK FALSE
