SPECIFICATION Spec
CONSTANTS
  WordMod = 4
  MaxRegisters = 2
  MaxRequests = 3
  Profile <- FourRegisters
  FaultSetups <- AnySetup
  Frames <- AllFrames
CHECK_DEADLOCK FALSE
INVARIANTS
  StuckFreezes
PROPERTIES
  IsRegisterFile
  DropIsForever
