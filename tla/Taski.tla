--------------------------------- MODULE Taski ---------------------------------
(***************************************************************************)
(* Taski: requests to test a solution (POST /test), to read a task and to  *)
(* read a file of a task.  A test asks Exesh to execute the testing steps  *)
(* and records the solution, both within one database transaction, while   *)
(* the bucket of the task is locked.                                       *)
(***************************************************************************)
EXTENDS TestingSteps, FiniteSets

CONSTANTS
  Requests,         \* requests, each of one
  Kind,             \*   Kind[r]: "test", "get" or "file"
  TaskOf,           \*   TaskOf[r]: the task it names
  Lang,             \* Lang[r]: the language of a solution as Taski decodes it
  SolutionId,       \* SolutionId[r]: its id as Taski decodes it
  TaskiFaults       \* the kinds of failure considered, a subset of TaskiFaultKinds

TaskiFaultKinds == {"task", "exesh", "db", "crash"}

VARIABLES
  at,               \* at[r]: where the handler of request r is
  taskLocks,        \* the requests whose unlock of the task's bucket was not called
  solutions,        \* the rows of table Solutions, [id, execution]
  executions        \* the requests whose steps Exesh has accepted to execute

taskiVars == <<at, taskLocks, solutions, executions>>

TestRequests == {r \in Requests : Kind[r] = "test"}
TaskReaders == Requests \ TestRequests

\* A task lists its tests in order, each with a number as its id.
ASSUME TestsAssumption == \A r \in TestRequests : TaskOf[r].tests \in Seq(Int)

\* "unread" is an error, too: that of a task that could not be read.
Stages == {"none", "begun", "locked", "executed", "inserted", "unlocked",
           "unread", "ok", "error"}
Answered(r) == at[r] \in {"unread", "ok", "error"}

TaskiTypeOK ==
  /\ at \in [Requests -> Stages]
  /\ taskLocks \subseteq Requests
  /\ solutions \subseteq [id : {SolutionId[r] : r \in TestRequests}, execution : TestRequests]
  /\ \A p, q \in solutions : p.id = q.id => p = q
  /\ executions \subseteq TestRequests

TaskiInit ==
  /\ at = [r \in Requests |-> "none"]
  /\ taskLocks = {}
  /\ solutions = {}
  /\ executions = {}

Goes(r, stage) == at' = [at EXCEPT ![r] = stage]

-----------------------------------------------------------------------------
(***************************************************************************)
(* The task storage: the bucket is locked to read task.json or a file.     *)
(***************************************************************************)

\* Variant: no lock is given back.
ReleaseNever(r) == UNCHANGED taskLocks

\* The function unlock is called.
Release(r) == taskLocks' = taskLocks \ {r}

\* Get, GetFile: the bucket is locked by someone else or missing; or it is
\* locked now but its file cannot be read, and then the error is returned
\* together with unlock, which no caller calls.
GetTask(r, from) ==
  /\ at[r] = from
  /\ \/ taskLocks' = taskLocks \cup {r} /\ Goes(r, "locked")
     \/ "task" \in TaskiFaults /\ Goes(r, "error") /\ UNCHANGED taskLocks
     \/ "task" \in TaskiFaults /\ taskLocks' = taskLocks \cup {r} /\ Goes(r, "unread")
  /\ UNCHANGED <<solutions, executions>>

ReadTask(r) == r \in TaskReaders /\ GetTask(r, "none")

\* get.UseCase takes a predict-output task for a fix-code task: the type
\* assertion panics.  Deferred calls run all the same.
AnswersFor(type) == type \in {"write_code", "fix_code", "add_code", "find_test"}

AnswerReader(r) ==
  /\ r \in TaskReaders /\ at[r] = "locked"
  /\ LET answers == Kind[r] = "file" \/ AnswersFor(TaskOf[r].type)
     IN  Goes(r, IF answers THEN "ok" ELSE "error")
  /\ Release(r)
  /\ UNCHANGED <<solutions, executions>>

-----------------------------------------------------------------------------
(***************************************************************************)
(* UseCase.Test within UnitOfWork.Do.                                      *)
(***************************************************************************)

\* The use case returns an error: its deferred unlock runs and the transaction,
\* which has written nothing, is rolled back.
ReturnError(r) == Goes(r, "error") /\ Release(r)

BeginTest(r) ==
  /\ r \in TestRequests /\ at[r] = "none"
  /\ Goes(r, "begun") \/ ("db" \in TaskiFaults /\ Goes(r, "error"))
  /\ UNCHANGED <<taskLocks, solutions, executions>>

GetTestTask(r) == r \in TestRequests /\ GetTask(r, "begun")

\* The tests whose steps Exesh accepts.
Executable ==
  {r \in TestRequests : /\ HasTestingSteps(TaskOf[r])
                        /\ Accepts(CreateTestingSteps(TaskOf[r], Lang[r]))}

\* ExecuteClient.Execute: an error is returned if Exesh refuses the steps or
\* cannot be reached, but also if only its answer is lost.
Execute(r) ==
  /\ r \in TestRequests /\ at[r] = "locked"
  /\ \/ /\ r \in Executable
        /\ executions' = executions \cup {r}
        /\ \/ Goes(r, "executed") /\ UNCHANGED taskLocks
           \/ "exesh" \in TaskiFaults /\ ReturnError(r)
     \/ /\ r \notin Executable \/ "exesh" \in TaskiFaults
        /\ ReturnError(r) /\ UNCHANGED executions
  /\ UNCHANGED solutions

\* The id of a solution is the primary key of the table.
Conflict(r) == \E row \in solutions : row.id = SolutionId[r]

\* Variant: the transaction of a request that failed is left open.
KeyHeldByFailed(r) ==
  \E q \in TestRequests \ {r} :
    SolutionId[q] = SolutionId[r] /\ at[q] \in {"inserted", "unlocked", "error"}

\* Another transaction has inserted the id and is still open: the database lets
\* the insert wait for its end.
KeyHeld(r) ==
  \E q \in TestRequests \ {r} :
    SolutionId[q] = SolutionId[r] /\ at[q] \in {"inserted", "unlocked"}

Insert(r) ==
  /\ at[r] = "executed" /\ ~ KeyHeld(r)
  /\ \/ ~ Conflict(r) /\ Goes(r, "inserted") /\ UNCHANGED taskLocks
     \/ (Conflict(r) \/ "db" \in TaskiFaults) /\ ReturnError(r)
  /\ UNCHANGED <<solutions, executions>>

\* The use case returns nil: the bucket is unlocked before the commit.
ReturnNil(r) ==
  /\ at[r] = "inserted"
  /\ Goes(r, "unlocked") /\ Release(r)
  /\ UNCHANGED <<solutions, executions>>

Row(r) == [id |-> SolutionId[r], execution |-> r]

\* Variant: the error of the commit is not looked at.
CommitUnchecked(r) ==
  /\ at[r] = "unlocked"
  /\ \/ solutions' = solutions \cup {Row(r)}
     \/ "db" \in TaskiFaults /\ UNCHANGED solutions
  /\ Goes(r, "ok")
  /\ UNCHANGED <<taskLocks, executions>>

\* A commit fails also if it took place but the answer of the database is lost.
Commit(r) ==
  /\ at[r] = "unlocked"
  /\ \/ solutions' = solutions \cup {Row(r)} /\ Goes(r, "ok")
     \/ /\ "db" \in TaskiFaults
        /\ solutions' \in {solutions, solutions \cup {Row(r)}} /\ Goes(r, "error")
  /\ UNCHANGED <<taskLocks, executions>>

\* Taski stops: its clients lose their connections, the database rolls back what
\* is open, the locks are gone with the process; what Exesh accepted goes on.
StopTaski ==
  /\ "crash" \in TaskiFaults
  /\ \E r \in Requests : at[r] # "none" /\ ~ Answered(r)
  /\ at' = [r \in Requests |-> IF at[r] = "none" \/ Answered(r) THEN at[r] ELSE "error"]
  /\ taskLocks' = {}
  /\ UNCHANGED <<solutions, executions>>

\* The steps of one request after it has begun.
Serve(r) == GetTestTask(r) \/ Execute(r) \/ Insert(r) \/ ReturnNil(r) \/ Commit(r)
              \/ AnswerReader(r)

-----------------------------------------------------------------------------
\* However a request goes, the bucket of its task is locked while the handler is
\* at work with it and only then, but for a task that could not be read.
TaskLocksReturned ==
  /\ \A r \in Requests : at[r] \in {"locked", "executed", "inserted"} => r \in taskLocks
  /\ \A r \in taskLocks : at[r] \in {"locked", "executed", "inserted", "unread"}

\* An ok says that the solution is recorded with the execution that was started
\* for it, and no solution is recorded with an execution that was not; but an
\* error does not say that there is none.
OkMeansRecorded ==
  /\ \A r \in TestRequests : at[r] = "ok" => Row(r) \in solutions
  /\ \A row \in solutions : row.execution \in executions

\* An execution that Exesh has accepted compares, for every test of a task with
\* a checker in C++, what the solution writes with what the task's own one does.
TestsChecked ==
  \A r \in executions :
    TaskOf[r].checker = "C++" =>
      LET steps == CreateTestingSteps(TaskOf[r], Lang[r])
      IN  \A test \in ToSet(TaskOf[r].tests) : Checks(steps, test)
=============================================================================
