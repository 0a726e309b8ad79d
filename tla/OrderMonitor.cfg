CONSTANTS
  Orders = {"o1", "o2"}
  Known = {"o1"}
  MaxCrashes = 1
  MaxFailures = 1
SPECIFICATION OrdersSpec
INVARIANTS
  OrdersTypeOK
  SyncedMeansWritten
PROPERTY
  EndingsAreTold
