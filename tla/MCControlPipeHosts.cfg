SPECIFICATION HostsSpec
CONSTANTS
  EP0_PACKET_SIZE = 2
  MAX_CONTROLDATA_SIZE = 1
  DeviceDescrSize = 3
  ConfigDescrSize = 4
  StringDescrSize <- MCStringDescrSize
  Requests <- AllRequests
  MaxSetups = 3
  MaxBusResets = 1
  MaxSuspends = 1
INVARIANTS
  AnswersCurrent
  RightLength
  StallsOnlyWhenRefused
  InBounds
PROPERTIES
  RefinesControlService
  TransferConcludes
  Settles
CHECK_DEADLOCK FALSE
