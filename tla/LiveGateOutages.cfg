\* As Spending.cfg: a judge that could not be reached.
SPECIFICATION SpendingSpec
CONSTANTS
  Calls = {"explanation", "other"}
  Explanations = {"explanation"}
  Quota = 3
  Permits = 1
  MaxRetries = 2
  MaxBlocks = 2
  MaxRestarts = 1
  CaseCount = 2
  OtherDimensions = 3
  JudgeLimit = 3
  ApplicationLimit = 3
  SuiteLimit = 2
  CostBlocks = FALSE
  ThreadSets <- MCThreadSets
  Telemetries <- MCTelemetries
  FreshTelemetries <- MCFreshTelemetries
\* Calls and gates end.
CHECK_DEADLOCK FALSE
PROPERTY
  JudgeOutagesReplay
