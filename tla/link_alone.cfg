SPECIFICATION FairSpec
CONSTANTS
  WordMod = 4
  MaxRegisters = 1
  Timeout = 2
  MaxSent = 3
  Client = {c1}
  d1 = d1
  Device <- OneDevice
  DeviceOf <- AllClientsOfOne
  Profile <- OneProfile
  Setups <- AnySetup
  Requests <- AnyRequest
INVARIANTS
  TypeOK
  Alignment
  ReplyLag
  AckedWriteApplied
  ReadIsCurrent
  CorruptionCaught
  NothingAfterDrop
PROPERTIES
  EveryCallReturns
  HandlersEnd
