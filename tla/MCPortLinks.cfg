\* Four ports, enough to pull a cable between two pairs, and a NIC that moves
\* between two hosts and a switch that has none.
CONSTANTS
  None = None
  h1 = h1
  h2 = h2
  w1 = w1
  n1 = n1
  PortId = {1, 2, 3, 4}
  NICId <- OneNIC
  Hosts <- TwoHosts
  Hardware <- Switch
  Files <- AllFiles
SPECIFICATION Spec
INVARIANTS TablesConsistent ExportRoundTrips
PROPERTIES NeverRecabled CablingSpec
CHECK_DEADLOCK FALSE
