SPECIFICATION Spec
CONSTANTS
  run = run
  again = again
  check = check
  inline = inline
  task = task
  artifact = artifact
  tests = tests
  binary = binary
  Calls = {run, again, check}
  Type <- TypeMC
  Sources <- SourcesMC
  Buckets = {inline, task, artifact}
  Files = {tests, binary}
  Stored <- StoredMC
  Workers = {worker}
  Faults <- FaultsMC
INVARIANTS TypeOK CreationsEnd OnlyUnopenedStayLocked
PROPERTIES WrittenStay FailsForAReason MissedForAReason
CHECK_DEADLOCK FALSE
