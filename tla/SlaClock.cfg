CONSTANTS
  Sla = 2
  FirstHours = 1
  EscalateHours = 2
  Horizon = 6
SPECIFICATION Spec
INVARIANTS
  TypeOK
  WaitIsMeasured
  NobodyIsPressed
CHECK_DEADLOCK FALSE
