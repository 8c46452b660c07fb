SPECIFICATION FairRxSpec
CONSTANTS
  Capacity = 4
  ReadMax = 2
  MaxPacket = 2
  MaxBytes = 8
  HostFits = TRUE
INVARIANTS
  RxTypeOK
  RxInOrder
  ArmedIsFree
PROPERTIES
  AllRead
  ImplementsChannel
CHECK_DEADLOCK FALSE
