SPECIFICATION Spec
CONSTANTS
  w1 = w1
  w2 = w2
  code = code
  program = program
  output = output
  output2 = output2
  verdict = verdict
  compile = compile
  runPy = runPy
  runGo = runGo
  run = run
  check = check
  clash = clash
  Endpoint = Endpoint
  Workers = {w1, w2}
  Buckets = {code, program, output, output2, verdict}
  Calls = {compile, clash, run, runPy, runGo, check}
  Type <- TypeMC
  Id <- IdMC
  Worker <- WorkerMC
  Inputs <- InputsMC
  ShowOutput <- ShowOutputMC
  Faults = {"storage", "open"}
INVARIANTS TypeOK InputsStay OnlyReadsLeaveLocks ReservationsEnd
PROPERTIES OkMeansWhole
CHECK_DEADLOCK FALSE
