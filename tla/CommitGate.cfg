CONSTANT
  N = 5
SPECIFICATION Spec
INVARIANTS
  TypeOK
  NoOvertaking
PROPERTIES
  BatchesEnd
  ImplementsOrderedCommit
