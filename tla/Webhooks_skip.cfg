SPECIFICATION Spec
CONSTANTS
  Subs = {"a", "b"}
  Pumps = {1, 2}
  MaxEvent = 2
  InOrder = FALSE
  MaxSubs = 2
  MaxAttempts = 2
  Batch = 1
  Burst = 1
INVARIANTS NothingSkipped
CHECK_DEADLOCK FALSE
