CONSTANTS
  Service <- OneService
  Target <- TwoTargets
  MaxMonitors = 6
  MaxCommits = 1
  MaxFaults = 2
  MaxByHand = 1
  t1 = t1
  t2 = t2
  None = None
SPECIFICATION FairSpec
CHECK_DEADLOCK FALSE
PROPERTIES
  RequestsAreServed
  RepairedInTheEnd
