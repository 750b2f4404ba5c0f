CONSTANTS
  Service <- TwoServices
  Target <- TwoTargets
  MaxMonitors = 4
  MaxCommits = 1
  MaxFaults = 2
  MaxByHand = 1
  t1 = t1
  t2 = t2
  None = None
SYMMETRY TargetSymmetry
SPECIFICATION Spec
CHECK_DEADLOCK FALSE
INVARIANTS
  MonitorsAccounted
  QuietMeansSynced
PROPERTY HandMadeUntouched
