SPECIFICATION Spec
CONSTANTS
  Coordinators = {c1, c2}
  Executions = {1, 2}
  Length <- PairLength
  Deps <- PairDeps
  Inputs <- PairDeps
  MaxConcurrency = 2
  Faults = {"tx", "crash"}
  MaxSteps = 2
  MaxAttempts = 2
  None = None
PROPERTIES RestartOnlyWhenStale
CHECK_DEADLOCK FALSE
