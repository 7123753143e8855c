SPECIFICATION Spec
CONSTANT Match = 3
INVARIANTS
  IsrServes
  OneInterrupt
PROPERTIES
  RequestsEnd
  ButtonsSeen
