CONSTANTS
  None = None
  NICId = {}
  h1 = h1
  w1 = w1
  MaxPorts = 3
  PortId <- MCPortId
  Hosts <- MCHosts
  Hardware <- MCHardware
  Files <- MCFiles
  p1 = p1
  p2 = p2
  x1 = x1
  x2 = x2
  b1 = b1
  b2 = b2
  token1 = token1
  token2 = token2
  Starter <- MCStarter
  Releases = 3
  MaxStarts = 3
  Ips <- MCIps
  Worker <- MCWorker
  Tab <- MCTab
  Address <- MCAddress
  Name <- MCName
  Clusters <- MCClusters
  MaxHosts = 3
  MaxEdits = 1
  Unknown <- MCUnknown
  Token <- MCToken
  Width = 4
  Enumerable = 2
  Countable = 4
  Scannable = 3
  Pages <- MCPages
SPECIFICATION ListsSpec
CHECK_DEADLOCK FALSE
INVARIANT NumbersInOrder
