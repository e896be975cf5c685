SPECIFICATION Spec
CONSTANTS
  Plan <- TwoPlans
  StepResult <- Results
  Jobs = 3
  StepsOf <- Editions
  Asked <- AnyJob
  Outcomes <- AnyEnd
  ListLimit = 1
INVARIANT CliTrendsOwnDevice
CHECK_DEADLOCK FALSE
