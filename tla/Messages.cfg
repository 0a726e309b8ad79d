CONSTANTS
  M = 3
  BatchLimit = 2
  MaxAttempts = 2
  LateComers = {2}
  Replies <- AllReplies
  MaxMishaps = 1
SPECIFICATION Spec
INVARIANTS
  TypeOK
  EffectsAreAccounted
  ConfirmedIsSettled
  RowsTellTheTruth
PROPERTY
  ImplementsLedger
CHECK_DEADLOCK FALSE
