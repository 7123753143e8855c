SPECIFICATION Spec
CONSTANTS
  EP0_PACKET_SIZE = 2
  MAX_CONTROLDATA_SIZE = 1
  DeviceDescrSize = 3
  ConfigDescrSize = 4
  StringDescrSize <- MCStringDescrSize
  Requests <- Configure
  MaxSetups = 2
  MaxBusResets = 0
  MaxSuspends = 0
PROPERTIES
  AbortedRequestNotExecuted
CHECK_DEADLOCK FALSE
