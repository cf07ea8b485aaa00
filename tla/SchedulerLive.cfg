SPECIFICATION FairSpec
CONSTANTS
  Coordinators = {c1, c2}
  Executions = {1, 2}
  Length <- PairLength
  Deps <- PairDeps
  Inputs <- PairDeps
  MaxConcurrency = 1
  Faults = {"job", "commit"}
  MaxSteps = 2
  MaxAttempts = 2
  None = None
PROPERTIES RowsReleased
CHECK_DEADLOCK FALSE
