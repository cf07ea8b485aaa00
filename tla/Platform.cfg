SPECIFICATION FairSpec
CONSTANTS
  s1 = s1
  s2 = s2
  c1 = c1
  c2 = c2
  c3 = c3
  c4 = c4
  h1 = h1
  h2 = h2
  g1 = g1
  g2 = g2
  f1 = f1
  alice = alice
  bob = bob
  carol = carol
  j1 = j1
  j2 = j2
  j3 = j3
  j4 = j4
  Submissions = {s1, s2}
  Requests <- MCRequests
  Kind <- MCKind
  TaskOf <- MCTaskOf
  SolutionId <- MCSolutionId
  Lang <- MCLang
  TaskiFaults = {"task", "exesh", "db", "crash"}
  Verdicts = {"OK", "WA"}
  Handlers = {h1, h2}
  MaxDeliveries = 3
  DuelyFaults = {"duel", "save", "timeout", "crash"}
  Joins = {j1, j2, j3, j4}
  UserOf <- MCUserOf
  Capacity = 3
  Parties <- MCParties
INVARIANTS TypeOK TaskLocksReturned OkMeansRecorded TestsChecked SerialJoinsPairUp AcceptedMeansRecorded
PROPERTIES VerdictAsReported LivesInOrder SendsAnswered WaitersPaired
CHECK_DEADLOCK FALSE
