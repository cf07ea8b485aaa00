SPECIFICATION Spec
CONSTANTS
  Coordinators = {c1}
  Executions = {1, 2}
  Length <- ForkLength
  Deps <- ForkDeps
  Inputs <- ForkInputs
  MaxConcurrency = 2
  Faults = {"tx", "send", "job", "commit", "crash"}
  MaxSteps = 3
  MaxAttempts = 2
  None = None
INVARIANTS TypeOK DependenciesFirst FinishCoversDependencies
  SlotsCountAttempts
PROPERTIES ImplementsDispatch
CHECK_DEADLOCK FALSE
