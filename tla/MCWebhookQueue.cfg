CONSTANTS
  e1 = e1
  e2 = e2
  ok = ok
  broken = broken
  w1 = w1
  w2 = w2
  Idle = Idle
  Event <- TwoEvents
  Endpoint <- BothEndpoints
  Healthy <- OnlyHealthy
  Matching <- AllMatchAll
  Worker <- TwoWorkers
  QueueSize = 1
  MaxAttempts = 2
SPECIFICATION FairSpec
INVARIANT DeliveriesInTurn
PROPERTIES WaitIsExact EndedStaysEnded WaitEnds HealthyDelivered
CHECK_DEADLOCK FALSE
