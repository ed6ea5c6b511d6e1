CONSTANTS
  Paid = {p1}
  MaxEvents = 2
  Servers = {s1, s2}
  Nobody = Nobody
  LockTtl = 1
  MaxTries = 2
  Batch = 1
  MaxFaults = 1
SPECIFICATION InboxSpec
CHECK_DEADLOCK FALSE
INVARIANT OneRunPerLock
PROPERTY StoredIsProcessed
PROPERTY ImplementsEventEffects
