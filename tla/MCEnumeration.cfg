SPECIFICATION EnumFairSpec
CONSTANTS
  DeviceDescrSize = 18
  ConfigDescrSize = 46
  StringDescrSize <- MCStringDescrSize
  Addresses = {1, 127}
  ReadLengths = {8, 9, 18, 64}
  Strings = {0, 3, 5, 6}
  Halted = {1, 2}
INVARIANTS
  EnumeratedAgrees
PROPERTIES
  EnumerationConcludes
