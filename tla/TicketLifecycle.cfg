CONSTANTS
  MaxVersion = 7
  MaxInterruptions = 1
SPECIFICATION Spec
INVARIANTS
  TypeOK
  LedgerAgrees
  WaitIsBacked
  ReviewIsForManager
  OverdueAccountable
PROPERTIES
  WritesMoveVersion
  ImplementsHandshake
