CONSTANTS
  None = None
  c1 = c1
  t1 = t1
  t2 = t2
  n1 = n1
  n2 = n2
  k1 = k1
  k2 = k2
  Cert <- OneCert
  Target <- TwoTargets
  Channel <- TwoChannels
  Finding <- TwoFindings
  Registrations <- EachAlone
  MaxFaults = 2
  MaxEvents = 1
SPECIFICATION FairSpec
INVARIANTS MarksAgree ProbesAgree NothingIsSkipped
CHECK_DEADLOCK FALSE
PROPERTIES TriggersAreServed ExpiryIsNotified StatusSettles
