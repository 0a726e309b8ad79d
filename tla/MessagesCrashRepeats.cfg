CONSTANTS
  M = 2
  BatchLimit = 2
  MaxAttempts = 2
  LateComers = {}
  Replies <- ConfirmOnly
  MaxMishaps = 1
SPECIFICATION Spec
INVARIANT
  DoneOnce
CHECK_DEADLOCK FALSE
