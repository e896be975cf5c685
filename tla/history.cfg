SPECIFICATION Spec
CONSTANTS
  Plan <- TwoPlans
  StepResult <- Results
  Jobs = 3
  StepsOf <- Editions
  Asked <- AnyJob
  Outcomes <- AnyEnd
  ListLimit = 1
INVARIANTS
  TypeOK
  StoredOnce
  FailuresNotForgotten
  HistoryAgreesWithReports
  PriorIsNewestSeen
  TrendsAreReadings
PROPERTIES
  SeriesGrow
  JobsEnd
CHECK_DEADLOCK FALSE
