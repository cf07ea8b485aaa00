SPECIFICATION FairSpec
CONSTANTS
  Coordinators = {c1, c2}
  Executions = {1, 2}
  Length <- SoloLength
  Deps <- SoloDeps
  Inputs <- SoloDeps
  MaxConcurrency = 2
  Faults = {"commit"}
  MaxSteps = 1
  MaxAttempts = 4
  None = None
INVARIANTS AttemptsWithinLimit
PROPERTIES NewAreStarted
CHECK_DEADLOCK FALSE
