CONSTANTS
  None = None
  Main = Main
  RetryJobs = {r1}
  Sessions = {s1, s2}
  MaxAttempts = 2
  MaxSettlements = 1
  MaxRetrySyncs = 1
  MaxFaults = 2
  MaxBroken = 0
SPECIFICATION Spec
CHECK_DEADLOCK FALSE
INVARIANT PendingIsQueued
