SPECIFICATION PortSpec
CONSTANTS
  MaxLevel = 2
  MaxOpen = 4
  FifoWords = 1
  MaxEndpoint = 1
INVARIANTS
  SectionsExclude
  InterruptsComeBack
  SectionsIntact
  RegularRunsAlone
  StraysKnown
  ChipConfigured
