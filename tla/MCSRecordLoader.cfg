SPECIFICATION LoaderSpec
CHECK_DEADLOCK FALSE
CONSTANTS
  MaxLines = 3
  SCARTS_CODEMEM_LMA = 64
  CodeSize = 32
  Lines <- MCLines
INVARIANTS
  LoadedRight
PROPERTIES
  LoaderJumps
