CONSTANTS
  e1 = e1
  e2 = e2
  Event = {e1, e2}
  Days = 1
  Poison = {e2}
  MaxAttempts = 2
  MaxEvents = 3
  MaxFaults = 1
  MaxRetries = 1
SPECIFICATION FairSpec
INVARIANTS
  OutboxInv
PROPERTIES
  NoticesArrive
CHECK_DEADLOCK FALSE
