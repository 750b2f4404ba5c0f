CONSTANTS
  None = None
  m1 = m1
  m2 = m2
  x = x
  y = y
  z = z
  h1 = h1
  h2 = h2
  n1 = n1
  n2 = n2
  c1 = c1
  c2 = c2
  a1 = a1
  r1 = r1
  r2 = r2
  Machine <- TwoMachines
  AgentId <- Ids
  HostId <- Hosts
  Name <- Names
  Mac <- Cards
  Addr <- Addresses
  Request <- TwoRuns
  Blueprint <- Apart
  Retention = 1
  MaxChanges = 2
  MaxFaults = 1
SPECIFICATION Spec
INVARIANTS VerdictsStand NewestReportIsBound
PROPERTIES ClonesKeepOut KeepsBindings
CHECK_DEADLOCK FALSE
SYMMETRY Symmetry
CONSTRAINT FewAtOnce
