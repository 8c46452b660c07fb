SPECIFICATION TxSpec
CONSTANTS
  Capacity = 4
  MaxWrite = 3
  MaxPacket = 2
  MaxBytes = 7
  SlowBus = FALSE
INVARIANT TxInOrder
