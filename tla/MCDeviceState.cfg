SPECIFICATION Spec
CONSTANTS
  DeviceDescrSize = 18
  ConfigDescrSize = 46
  StringDescrSize <- MCStringDescrSize
  Requests <- MCRequests
  Functions <- MCFunctions
INVARIANTS
  StateBitsAgree
  ReportsAgree
PROPERTIES
  RefusedRequestsHaveNoEffect
  NoSilence
  RefinesUsbDevice
