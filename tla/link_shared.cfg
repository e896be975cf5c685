SPECIFICATION FairSpec
CONSTANTS
  WordMod = 4
  MaxRegisters = 1
  Timeout = 2
  MaxSent = 2
  Client = {c1, c2}
  d1 = d1
  Device <- OneDevice
  DeviceOf <- AllClientsOfOne
  Profile <- OneProfile
  Setups <- SharedSetup
  Requests <- SharedRequests
INVARIANTS
  DependableAnswers
  HandledOnce
PROPERTY Linearizable
