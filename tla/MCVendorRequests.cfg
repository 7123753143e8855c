SPECIFICATION Spec
CHECK_DEADLOCK FALSE
CONSTANT
  MaxTransfers = 3
INVARIANTS
  TypeOK
  IsoAgrees
PROPERTIES
  ParametersOwn
  RequestAnswered
