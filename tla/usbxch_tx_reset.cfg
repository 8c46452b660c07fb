SPECIFICATION FairResetSpec
CONSTANTS
  Capacity = 4
  MaxWrite = 3
  MaxPacket = 2
  MaxBytes = 7
  SlowBus = TRUE
PROPERTY IdleBusStarts
