SPECIFICATION Spec
CONSTANTS
  WordMod = 65536
  MaxRegisters = 125
  Profile <- OneProfile
  Setups <- AnySetup
  Requests <- AnyRequest
  MaxSent = 2
INVARIANTS
  TypeOK
  MisreadIsLateEcho
  WholeRepliesKeepStep
PROPERTY CarriesDeviceLink
CHECK_DEADLOCK FALSE
