SPECIFICATION Spec
CONSTANTS
  Coordinators = {c1}
  Executions = {1}
  Length <- RaceLength
  Deps <- FlatDeps
  Inputs <- RaceDeps
  MaxConcurrency = 1
  Faults = {}
  MaxSteps = 4
  MaxAttempts = 1
  None = None
INVARIANTS FullMeansBusy
CHECK_DEADLOCK FALSE
