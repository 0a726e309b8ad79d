CONSTANTS
  M = 2
  BatchLimit = 2
  MaxAttempts = 3
  LateComers = {1, 2}
  Replies <- ConfirmOnly
  MaxMishaps = 2
SPECIFICATION Spec
PROPERTY
  MessagesSettle
CHECK_DEADLOCK FALSE
