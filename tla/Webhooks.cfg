SPECIFICATION Spec
CONSTANTS
  Subs = {"a", "b"}
  Pumps = {1, 2}
  MaxEvent = 2
  InOrder = TRUE
  MaxSubs = 2
  MaxAttempts = 2
  Batch = 1
  Burst = 1
INVARIANTS DeliveriesAreExact
PROPERTIES AttemptsAreAllowed
CHECK_DEADLOCK FALSE
