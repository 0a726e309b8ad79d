SPECIFICATION Spec
CONSTANTS
  N = 3
  MaxMishaps = 1
INVARIANTS TypeOK  StageFits SpokenIsFiled
PROPERTIES HandedOverStaysQuiet RunsEnd
CHECK_DEADLOCK FALSE
