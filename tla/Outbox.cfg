CONSTANTS
  Keys = {"exec", "reply", "agent", "remind"}
  KindOf <- OneOfEach
  Limit = 2
  Allowed <- Once
SPECIFICATION Spec
INVARIANTS
  TypeOK
  NoNeedlessRepeat
  RowsTellDelivery
PROPERTIES
  EverythingSettles
