SPECIFICATION StationSpec
CONSTANTS
  WordMod = 8
  MaxRegisters = 1
  Timeout = 2
  MaxSent = 9
  Device <- TwoDevices
  Client <- TwoDevices
  DeviceOf <- Own
  Profile <- TwoProfiles
  Setups <- AnySetup
  Requests <- PlanRequests
  Plans <- AllPlans
  Selections <- Selecting
INVARIANTS
  VerdictsAreReference
  ReportAfterTeardown
PROPERTY IsTestRun
