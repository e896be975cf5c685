SPECIFICATION StationSpec
CONSTANTS
  WordMod = 8
  MaxRegisters = 1
  Timeout = 2
  MaxSent = 9
  Device <- TwoDevices
  Client <- TwoDevices
  DeviceOf <- Own
  Profile <- TwoProfiles
  Setups <- SlowSetup
  Requests <- PlanRequests
  Plans <- OnePlan
  Selections <- All
INVARIANT DelayedStepsFail
