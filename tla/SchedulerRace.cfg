SPECIFICATION FairSpec
CONSTANTS
  Coordinators = {c1}
  Executions = {1}
  Length <- RaceLength
  Deps <- RaceDeps
  Inputs <- RaceDeps
  MaxConcurrency = 1
  Faults = {"job"}
  MaxSteps = 4
  MaxAttempts = 1
  None = None
INVARIANTS HandledOnce NothingForgotten StandstillMeansFinished
PROPERTIES AttemptsFinish
CHECK_DEADLOCK FALSE
