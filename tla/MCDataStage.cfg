SPECIFICATION FairSpec
CONSTANTS
  EP0_PACKET_SIZE = 3
  MaxLength = 10
INVARIANTS
  NoSpuriousStall
PROPERTIES
  TransferFinishes
  RefinesControlRead
CHECK_DEADLOCK FALSE
