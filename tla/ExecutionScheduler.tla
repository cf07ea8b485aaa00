------------------------- MODULE ExecutionScheduler -------------------------
(***************************************************************************)
(* The Exesh coordinator: the scheduling loop of ExecutionScheduler, the   *)
(* callbacks the job scheduler runs when a job answers, the execution      *)
(* graph they share, and the Executions table the loop reads and updates.  *)
(*                                                                         *)
(* One iteration of the loop that gets as far as sending the "start"       *)
(* message makes an ATTEMPT: one execution.Context with its graph, jobs    *)
(* map and callbacks.  A step is named by its position in the graph's      *)
(* topSortOrder (module ExecutionGraph computes that order).  The threads  *)
(* of an attempt are the loop itself while it runs scheduleGraph (thread   *)
(* Root) and, for each step, the callback of the step's job.               *)
(***************************************************************************)
EXTENDS Integers, FiniteSets

CONSTANTS
  Coordinators,     \* coordinator processes that share the database
  Executions,       \* the executions of the table, numbered by created_at
  Length,           \* Length[e]: number of steps in e's topSortOrder
  Deps,             \* Deps[e][i]: what step i's GetDependencies() returns
  Inputs,           \* Inputs[e][i]: the steps whose output step i reads
  MaxConcurrency,   \* cfg.MaxConcurrency
  Faults,           \* the kinds of failure considered, a subset of FaultKinds
  MaxSteps,         \* bound: the longest execution
  MaxAttempts,      \* bound: attempts in one behaviour
  None              \* no execution, no coordinator

FaultKinds == {"tx", "send", "job", "commit", "crash"}

Attempts == 1..MaxAttempts
Root == 0
StepIndex == 1..MaxSteps
Threads == {Root} \cup StepIndex

ASSUME ExecutionsAssumption ==
  /\ Executions \subseteq Nat
  /\ None \notin Executions \cup Coordinators

ASSUME GraphAssumption ==
  /\ MaxSteps \in Nat
  /\ Length \in [Executions -> 0..MaxSteps]
  /\ Deps \in [Executions -> [StepIndex -> SUBSET Nat]]
  /\ Inputs \in [Executions -> [StepIndex -> SUBSET Nat]]

ASSUME BoundsAssumption ==
  /\ MaxConcurrency \in Nat
  /\ MaxAttempts \in Nat

VARIABLES
  \* the Executions table
  status,           \* status[e]: "absent" until the row is inserted
  stale,            \* the rows with scheduled_at < now - ExecutionRetryAfter
  \* the loop of each coordinator
  loop,             \* loop[c]: where the loop is
  txExec,           \* txExec[c]: the execution its transaction has locked
  txAttempt,        \* txAttempt[c]: the attempt its transaction schedules
  nowExecutions,    \* nowExecutions[c]
  \* the attempts
  built,            \* how many attempts there have been
  alive,            \* the attempts whose coordinator still holds them in memory
  exec,             \* exec[a]: the execution of attempt a
  owner,            \* owner[a]: its coordinator
  picked,           \* picked[a]: graph.lastPickedStep + 1
  done,             \* done[a]: graph.doneSteps
  jobs,             \* jobs[a]: the keys of jobByStepName
  finishes,         \* finishes[a]: "finish" messages sent
  \* the threads of the attempts
  pc,               \* pc[a][t]: what thread t does next
  next,             \* next[a][t]: the step that t's loop over PickSteps() is at
  last              \* last[a][t]: the last step of that PickSteps()

tableVars == <<status, stale>>
loopVars == <<loop, txExec, txAttempt, nowExecutions>>
attemptVars == <<built, alive, exec, owner>>
graphVars == <<picked, done>>
threadVars == <<pc, next, last>>
vars == <<tableVars, loopVars, attemptVars, graphVars, jobs, finishes,
          threadVars>>

LoopPC == {"idle", "begin", "select", "selected", "scheduling"}

\* A step's thread is "none" until its job is handed to the job scheduler,
\* then waits for the "result".  "dropped", "lost" and "end" are terminal: the
\* job could not be created, the callback returned before doneStep, the
\* callback (or scheduleGraph) ran to its end.
ThreadPC == {"none", "result", "done", "isDone", "finish", "pick", "create",
             "record", "dropped", "lost", "end"}

TypeOK ==
  /\ status \in [Executions -> {"absent", "new", "scheduled"}]
  /\ stale \in SUBSET Executions
  /\ loop \in [Coordinators -> LoopPC]
  /\ txExec \in [Coordinators -> Executions \cup {None}]
  /\ txAttempt \in [Coordinators -> 0..MaxAttempts]
  /\ nowExecutions \in [Coordinators -> Int]
  /\ built \in 0..MaxAttempts
  /\ alive \in SUBSET Attempts
  /\ exec \in [Attempts -> Executions \cup {None}]
  /\ owner \in [Attempts -> Coordinators \cup {None}]
  /\ picked \in [Attempts -> 0..MaxSteps]
  /\ done \in [Attempts -> SUBSET StepIndex]
  /\ jobs \in [Attempts -> SUBSET StepIndex]
  /\ finishes \in [Attempts -> Nat]
  /\ pc \in [Attempts -> [Threads -> ThreadPC]]
  /\ next \in [Attempts -> [Threads -> 0..MaxSteps]]
  /\ last \in [Attempts -> [Threads -> 0..MaxSteps]]

Init ==
  /\ status = [e \in Executions |-> "absent"]
  /\ stale = {}
  /\ loop = [c \in Coordinators |-> "idle"]
  /\ txExec = [c \in Coordinators |-> None]
  /\ txAttempt = [c \in Coordinators |-> 0]
  /\ nowExecutions = [c \in Coordinators |-> 0]
  /\ built = 0
  /\ alive = {}
  /\ exec = [a \in Attempts |-> None]
  /\ owner = [a \in Attempts |-> None]
  /\ picked = [a \in Attempts |-> 0]
  /\ done = [a \in Attempts |-> {}]
  /\ jobs = [a \in Attempts |-> {}]
  /\ finishes = [a \in Attempts |-> 0]
  /\ pc = [a \in Attempts |-> [t \in Threads |-> "none"]]
  /\ next = [a \in Attempts |-> [t \in Threads |-> 0]]
  /\ last = [a \in Attempts |-> [t \in Threads |-> 0]]

-----------------------------------------------------------------------------
(***************************************************************************)
(* The environment: clients and time.                                      *)
(***************************************************************************)

\* UseCase.Execute: a validated list of steps is inserted as a "new" row.
Execute(e) ==
  /\ status[e] = "absent"
  /\ status' = [status EXCEPT ![e] = "new"]
  /\ UNCHANGED <<stale, loopVars, attemptVars, graphVars, jobs, finishes,
                 threadVars>>

\* The clock passes scheduled_at + ExecutionRetryAfter of e.
RetryAfterElapses(e) ==
  /\ status[e] = "scheduled" /\ e \notin stale
  /\ stale' = stale \cup {e}
  /\ UNCHANGED <<status, loopVars, attemptVars, graphVars, jobs, finishes,
                 threadVars>>

-----------------------------------------------------------------------------
(***************************************************************************)
(* One iteration of runExecutionScheduler, as coordinator c runs it.       *)
(***************************************************************************)

ForSchedule == {e \in Executions :
                   status[e] = "new" \/ (status[e] = "scheduled" /\ e \in stale)}

Earliest == {e \in ForSchedule : \A f \in ForSchedule : e <= f}

\* Variant: SELECT without FOR UPDATE.
LockedNever(e) == FALSE

\* The row lock that SELECT ... FOR UPDATE takes, until the transaction ends.
Locked(e) == \E c \in Coordinators :
                loop[c] \in {"selected", "scheduling"} /\ txExec[c] = e

\* Variants: the error paths keep the slot; a commit gives it back.
EndTxKeepsSlot(c, delta) ==
  /\ loop' = [loop EXCEPT ![c] = "idle"]
  /\ txExec' = [txExec EXCEPT ![c] = None]
  /\ txAttempt' = [txAttempt EXCEPT ![c] = 0]
  /\ UNCHANGED nowExecutions

EndTxGivesBack(c, delta) ==
  /\ loop' = [loop EXCEPT ![c] = "idle"]
  /\ txExec' = [txExec EXCEPT ![c] = None]
  /\ txAttempt' = [txAttempt EXCEPT ![c] = 0]
  /\ nowExecutions' = [nowExecutions EXCEPT ![c] = @ - 1]

\* The transaction of c is over, with delta added to nowExecutions.
EndTx(c, delta) ==
  /\ loop' = [loop EXCEPT ![c] = "idle"]
  /\ txExec' = [txExec EXCEPT ![c] = None]
  /\ txAttempt' = [txAttempt EXCEPT ![c] = 0]
  /\ nowExecutions' = [nowExecutions EXCEPT ![c] = @ + delta]

HasSlot(c) == nowExecutions[c] # MaxConcurrency

\* The tick finds a free slot.  (A full coordinator waits for the next tick.)
Tick(c) ==
  /\ loop[c] = "idle"
  /\ HasSlot(c)
  /\ loop' = [loop EXCEPT ![c] = "begin"]
  /\ UNCHANGED <<tableVars, txExec, txAttempt, nowExecutions, attemptVars,
                 graphVars, jobs, finishes, threadVars>>

\* The transaction begins, and the first thing done in it is to take the slot.
BeginTx(c) ==
  /\ loop[c] = "begin"
  /\ loop' = [loop EXCEPT ![c] = "select"]
  /\ nowExecutions' = [nowExecutions EXCEPT ![c] = @ + 1]
  /\ UNCHANGED <<tableVars, txExec, txAttempt, attemptVars, graphVars, jobs,
                 finishes, threadVars>>

\* UnitOfWork cannot begin a transaction: no slot was taken.
BeginTxFails(c) ==
  /\ "tx" \in Faults
  /\ loop[c] = "begin"
  /\ EndTx(c, 0)
  /\ UNCHANGED <<tableVars, attemptVars, graphVars, jobs, finishes, threadVars>>

\* GetForSchedule finds no row, or fails: the slot is given back.  The one row
\* it waits for may be due no longer when its lock is released: no row, too.
SelectNone(c) ==
  /\ loop[c] = "select"
  /\ \/ ForSchedule = {}
     \/ \E e \in Earliest : Locked(e)
     \/ "tx" \in Faults
  /\ EndTx(c, -1)
  /\ UNCHANGED <<tableVars, attemptVars, graphVars, jobs, finishes, threadVars>>

\* GetForSchedule locks the oldest row that is due; it waits while another
\* transaction holds that row.
Select(c) ==
  /\ loop[c] = "select"
  /\ built < MaxAttempts
  /\ \E e \in Earliest :
       /\ ~ Locked(e)
       /\ txExec' = [txExec EXCEPT ![c] = e]
  /\ loop' = [loop EXCEPT ![c] = "selected"]
  /\ UNCHANGED <<tableVars, txAttempt, nowExecutions, attemptVars, graphVars,
                 jobs, finishes, threadVars>>

\* Update, BuildContext or the "start" message fails: slot back, rollback.
AbortScheduling(c) ==
  /\ loop[c] = "selected"
  /\ {"tx", "send"} \cap Faults # {}
  /\ EndTx(c, -1)
  /\ UNCHANGED <<tableVars, attemptVars, graphVars, jobs, finishes, threadVars>>

\* The row is updated (in the transaction), a context is built and the "start"
\* message is sent: a new attempt, whose Root thread goes on in scheduleGraph.
StartExecution(c) ==
  /\ loop[c] = "selected"
  /\ built < MaxAttempts
  /\ LET a == built + 1 IN
       /\ built' = a
       /\ alive' = alive \cup {a}
       /\ exec' = [exec EXCEPT ![a] = txExec[c]]
       /\ owner' = [owner EXCEPT ![a] = c]
       /\ pc' = [pc EXCEPT ![a][Root] = "pick"]
       /\ txAttempt' = [txAttempt EXCEPT ![c] = a]
  /\ loop' = [loop EXCEPT ![c] = "scheduling"]
  /\ UNCHANGED <<tableVars, txExec, nowExecutions, graphVars, jobs, finishes,
                 next, last>>

\* scheduleGraph has returned nil and the transaction commits; the slot stays
\* taken.
Commit(c) ==
  /\ loop[c] = "scheduling"
  /\ pc[txAttempt[c]][Root] = "end"
  /\ status' = [status EXCEPT ![txExec[c]] = "scheduled"]
  /\ stale' = stale \ {txExec[c]}
  /\ EndTx(c, 0)
  /\ UNCHANGED <<attemptVars, graphVars, jobs, finishes, threadVars>>

\* Commit returns an error, the row keeping its old value or having the new
\* one.  Nobody gives the slot back and the jobs already run.
CommitFails(c) ==
  /\ "commit" \in Faults
  /\ loop[c] = "scheduling"
  /\ pc[txAttempt[c]][Root] = "end"
  /\ \/ UNCHANGED tableVars
     \/ /\ status' = [status EXCEPT ![txExec[c]] = "scheduled"]
        /\ stale' = stale \ {txExec[c]}
  /\ EndTx(c, 0)
  /\ UNCHANGED <<attemptVars, graphVars, jobs, finishes, threadVars>>

\* The process stops (a signal, or the runtime's fatal error on the unlocked
\* maps of execution.Context) and starts again: contexts, callbacks and the
\* counter are gone, the open transaction is rolled back.
CrashRestart(c) ==
  LET Mine == {a \in alive : owner[a] = c} IN
  /\ "crash" \in Faults
  /\ loop[c] # "idle" \/ Mine # {}
  /\ EndTx(c, - nowExecutions[c])
  /\ alive' = alive \ Mine
  /\ picked' = [a \in Attempts |-> IF a \in Mine THEN 0 ELSE picked[a]]
  /\ done' = [a \in Attempts |-> IF a \in Mine THEN {} ELSE done[a]]
  /\ jobs' = [a \in Attempts |-> IF a \in Mine THEN {} ELSE jobs[a]]
  /\ pc' = [a \in Attempts |-> IF a \in Mine THEN [t \in Threads |-> "none"]
                                             ELSE pc[a]]
  /\ next' = [a \in Attempts |-> IF a \in Mine THEN [t \in Threads |-> 0]
                                               ELSE next[a]]
  /\ last' = [a \in Attempts |-> IF a \in Mine THEN [t \in Threads |-> 0]
                                               ELSE last[a]]
  /\ UNCHANGED <<tableVars, built, exec, owner, finishes>>

-----------------------------------------------------------------------------
(***************************************************************************)
(* The threads of an attempt: scheduleGraph, scheduleStep, the callback    *)
(* and doneStep.  The graph is used under its mutex, one call at a time;   *)
(* the maps of execution.Context are not.                                  *)
(***************************************************************************)

At(a, t, where) == a \in alive /\ pc[a][t] = where

GoTo(a, t, where) == pc' = [pc EXCEPT ![a][t] = where]

\* Variant: no dependency is seen.
CanPickUnseen(a, i) == TRUE

CanPick(a, i) == Deps[exec[a]][i] \subseteq done[a]

\* PickSteps: the longest run of steps after lastPickedStep whose dependencies
\* are all done; thread t then schedules them one by one.
PickSteps(a, t) ==
  /\ At(a, t, "pick")
  /\ \E q \in picked[a] .. Length[exec[a]] :
       /\ \A i \in picked[a]+1 .. q : CanPick(a, i)
       /\ q < Length[exec[a]] => ~ CanPick(a, q+1)
       /\ picked' = [picked EXCEPT ![a] = q]
       /\ IF q = picked[a]
            THEN GoTo(a, t, "end") /\ UNCHANGED <<next, last>>
            ELSE /\ GoTo(a, t, "create")
                 /\ next' = [next EXCEPT ![a][t] = picked[a] + 1]
                 /\ last' = [last EXCEPT ![a][t] = q]
  /\ UNCHANGED <<tableVars, loopVars, attemptVars, done, jobs, finishes>>

\* Variants: the loop over the picked steps ends after the first; it goes round
\* once too often; its index runs past the slice.
AfterStepReturn(a, t) == "end"
AfterStepAgain(a, t) == "create"
FollowingPastEnd(a, t) == next[a][t] + 1

\* The index of thread t after the step it is at: the last one stays.
Following(a, t) == IF next[a][t] = last[a][t] THEN next[a][t] ELSE next[a][t] + 1

\* Where thread t is once it is through with the step it is at.
AfterStep(a, t) == IF next[a][t] = last[a][t] THEN "end" ELSE "create"

\* The job whose output step i reads is in the jobs map, and its artifact is
\* on a worker: the job has answered.
InputReady(a, i) == i \in jobs[a] /\ pc[a][i] \notin {"none", "result", "dropped"}

\* scheduleStep: JobFactory.Create succeeds and the job goes to the job
\* scheduler, which may run its callback from now on.
CreateJob(a, t) ==
  LET s == next[a][t] IN
  /\ At(a, t, "create")
  /\ \A i \in Inputs[exec[a]][s] : i \in StepIndex /\ InputReady(a, i)
  /\ pc' = [pc EXCEPT ![a] = [@ EXCEPT ![s] = "result", ![t] = "record"]]
  /\ UNCHANGED <<tableVars, loopVars, attemptVars, graphVars, jobs, finishes,
                 next, last>>

\* scheduleStep: JobFactory.Create fails; the step is logged and forgotten.
DropStep(a, t) ==
  LET s == next[a][t] IN
  /\ At(a, t, "create")
  /\ \/ "job" \in Faults
     \/ \E i \in Inputs[exec[a]][s] : i \notin StepIndex \/ ~ InputReady(a, i)
  /\ pc' = [pc EXCEPT ![a] = [@ EXCEPT ![s] = "dropped", ![t] = AfterStep(a, t)]]
  /\ next' = [next EXCEPT ![a][t] = Following(a, t)]
  /\ UNCHANGED <<tableVars, loopVars, attemptVars, graphVars, jobs, finishes,
                 last>>

\* ScheduledStep writes the jobs map, after Schedule has returned.  Two threads
\* that write the map at once may lose the entry of one.
RecordJob(a, t) ==
  /\ At(a, t, "record")
  /\ \/ jobs' = [jobs EXCEPT ![a] = @ \cup {next[a][t]}]
     \/ /\ \E u \in Threads \ {t} : pc[a][u] = "record"
        /\ UNCHANGED jobs
  /\ GoTo(a, t, AfterStep(a, t))
  /\ next' = [next EXCEPT ![a][t] = Following(a, t)]
  /\ UNCHANGED <<tableVars, loopVars, attemptVars, graphVars, finishes, last>>

\* The callback of step i: the job has answered and the step's message is sent.
ReportResult(a, i) ==
  /\ At(a, i, "result")
  /\ GoTo(a, i, "done")
  /\ UNCHANGED <<tableVars, loopVars, attemptVars, graphVars, jobs, finishes,
                 next, last>>

\* The job never answers, or its message fails and the callback returns.
LoseResult(a, i) ==
  /\ At(a, i, "result")
  /\ {"send", "job"} \cap Faults # {}
  /\ GoTo(a, i, "lost")
  /\ UNCHANGED <<tableVars, loopVars, attemptVars, graphVars, jobs, finishes,
                 next, last>>

\* doneStep is three critical sections: DoneStep, IsDone, and PickSteps above.
DoneStep(a, i) ==
  /\ At(a, i, "done")
  /\ done' = [done EXCEPT ![a] = @ \cup {i}]
  /\ GoTo(a, i, "isDone")
  /\ UNCHANGED <<tableVars, loopVars, attemptVars, picked, jobs, finishes,
                 next, last>>

\* Variants: done so far; one past the last step.
IsDoneSoFar(a) == done[a] = 1 .. picked[a]
IsDonePastEnd(a) == picked[a] = Length[exec[a]] + 1

\* IsDone compares lastPickedStep with the last index: every step was PICKED.
IsDone(a) == picked[a] = Length[exec[a]]

CheckDone(a, i) ==
  /\ At(a, i, "isDone")
  /\ GoTo(a, i, IF IsDone(a) THEN "finish" ELSE "pick")
  /\ UNCHANGED <<tableVars, loopVars, attemptVars, graphVars, jobs, finishes,
                 next, last>>

\* The "finish" message is sent, or cannot be.
SendFinish(a, i) ==
  /\ At(a, i, "finish")
  /\ finishes' = [finishes EXCEPT ![a] = @ + 1]
  /\ GoTo(a, i, "end")
  /\ UNCHANGED <<tableVars, loopVars, attemptVars, graphVars, jobs, next, last>>

LoseFinish(a, i) ==
  /\ At(a, i, "finish")
  /\ "send" \in Faults
  /\ GoTo(a, i, "end")
  /\ UNCHANGED <<tableVars, loopVars, attemptVars, graphVars, jobs, finishes,
                 next, last>>

-----------------------------------------------------------------------------
Environment == \E e \in Executions : Execute(e) \/ RetryAfterElapses(e)

Loop(c) ==
  \/ Tick(c) \/ BeginTx(c) \/ BeginTxFails(c) \/ SelectNone(c) \/ Select(c)
  \/ AbortScheduling(c) \/ StartExecution(c) \/ Commit(c) \/ CommitFails(c)

Callback(a, i) ==
  \/ ReportResult(a, i) \/ LoseResult(a, i) \/ DoneStep(a, i)
  \/ CheckDone(a, i) \/ SendFinish(a, i) \/ LoseFinish(a, i)

Schedule(a, t) ==
  PickSteps(a, t) \/ CreateJob(a, t) \/ DropStep(a, t) \/ RecordJob(a, t)

Next ==
  \/ Environment
  \/ \E c \in Coordinators : Loop(c) \/ CrashRestart(c)
  \/ \E a \in Attempts : \/ \E t \in Threads : Schedule(a, t)
                         \/ \E i \in StepIndex : Callback(a, i)

Spec == Init /\ [][Next]_vars

\* The loop ticks for ever, the runtime runs every goroutine that can go on,
\* and an accepted job answers in the end.
Fairness ==
  /\ \A c \in Coordinators : WF_vars(Loop(c))
  /\ \A a \in Attempts : \A t \in Threads : WF_vars(Schedule(a, t))
  /\ \A a \in Attempts : \A i \in StepIndex : WF_vars(Callback(a, i))

FairSpec == Spec /\ Fairness

-----------------------------------------------------------------------------
(***************************************************************************)
(* What the coordinator promises.                                          *)
(***************************************************************************)

\* A thread in one of these places belongs to a step whose result was reported
\* and whose DoneStep was called.
AfterDone == {"isDone", "finish", "pick", "create", "record", "end"}

\* The steps thread t of attempt a has picked and not yet handed on.
Todo(a, t) ==
  IF pc[a][t] = "create" THEN next[a][t] .. last[a][t]
  ELSE IF pc[a][t] = "record" THEN next[a][t]+1 .. last[a][t]
  ELSE {}

\* A job exists only for a step all of whose dependencies have answered, had
\* their message sent and been marked done in the same attempt.
DependenciesFirst ==
  \A a \in alive : \A i \in StepIndex : pc[a][i] # "none" =>
     \A d \in Deps[exec[a]][i] : d \in StepIndex /\ pc[a][d] \in AfterDone

\* However the callbacks interleave their PickSteps, no step is in the hands
\* of two threads, and one that still is in a thread's hands has no job yet.
HandledOnce ==
  \A a \in alive : \A t \in Threads :
    /\ \A i \in Todo(a, t) : pc[a][i] = "none"
    /\ \A u \in Threads \ {t} : Todo(a, t) \cap Todo(a, u) = {}

\* Every step that was picked has a job, was dropped with an error, or is in
\* the hands of a thread: none is forgotten between PickSteps and Schedule.
NothingForgotten ==
  \A a \in alive : \A i \in 1 .. picked[a] :
    pc[a][i] # "none" \/ \E t \in Threads : i \in Todo(a, t)

\* A "finish" message is sent only when no further step will be picked and
\* every step some other step waits for is done.  (The steps nobody waits for
\* may still run: see FinishMeansDone.)  Each one is sent for another step that
\* is done, so an execution without steps is never declared finished.
FinishCoversDependencies ==
  \A a \in alive :
    /\ finishes[a] > 0 =>
         /\ picked[a] = Length[exec[a]]
         /\ \A i \in 1 .. picked[a] : Deps[exec[a]][i] \subseteq done[a]
    /\ finishes[a] <= Cardinality(done[a])

InProgress(a) ==
  \E t \in Threads : pc[a][t] \notin {"none", "dropped", "lost", "end"}

Blocked(a) == \E i \in StepIndex : pc[a][i] \in {"dropped", "lost"}

\* Every step stands after those it depends on, as newGraph puts them.
Ordered(e) == \A i \in 1 .. Length[e] : Deps[e][i] \subseteq 1 .. i - 1

\* No callback misses what another one has made ready between its own DoneStep,
\* IsDone and PickSteps: an attempt comes to a standstill only when a step was
\* dropped or lost, or all are done and "finish" was sent (or could not be).
StandstillMeansFinished ==
  \A a \in alive :
    Length[exec[a]] > 0 /\ Ordered(exec[a]) /\ ~ InProgress(a) /\ ~ Blocked(a) =>
      /\ done[a] = 1 .. Length[exec[a]]
      /\ finishes[a] > 0 \/ "send" \in Faults

\* nowExecutions is the number of attempts the process ever started, plus the
\* one its transaction may be about to start: a slot is never given back when
\* an execution ends, nor when the commit fails.
SlotsCountAttempts ==
  \A c \in Coordinators :
    nowExecutions[c] = Cardinality({a \in alive : owner[a] = c})
                         + (IF loop[c] \in {"select", "selected"} THEN 1 ELSE 0)

\* No process ever holds more than MaxConcurrency attempts.  The limit is tested
\* before the transaction and with =, the slot is taken in the transaction and
\* given back by each of the error paths: one give-back too many lets the counter
\* fall behind the attempts, and one take too many makes it pass the test for ever.
AttemptsWithinLimit ==
  \A c \in Coordinators : Cardinality({a \in alive : owner[a] = c}) <= MaxConcurrency

\* An execution is started a second time only when ExecutionRetryAfter has
\* passed since it was scheduled, or when no process works on it: neither two
\* coordinators nor a restart start it twice.  (Unless the commit fails.)
RestartOnlyWhenStale ==
  [][\A a \in Attempts : exec'[a] # exec[a] =>
       exec'[a] \in stale \/ \A b \in alive : exec[b] # exec'[a]]_vars

\* A row lock is always released: scheduleGraph ends.
RowsReleased == \A e \in Executions : Locked(e) ~> ~ Locked(e)

\* Every attempt at an execution with at least one step gets a "finish"
\* message, unless one of its steps was dropped or lost.
AttemptsFinish ==
  \A a \in Attempts :
    (a \in alive /\ Length[exec[a]] > 0)
       ~> (finishes[a] > 0 \/ a \notin alive \/ Blocked(a))

\* A new execution is started, although older rows stay locked while a coordinator
\* schedules their graph and another one waits for them, and although an iteration
\* that finds no row takes a slot for a while; unless every coordinator has started
\* MaxConcurrency attempts already, retries of older executions among them.
NewAreStarted ==
  \A e \in Executions :
    status[e] = "new" ~> \/ \E a \in Attempts : exec[a] = e
                         \/ \A c \in Coordinators :
                              Cardinality({a \in alive : owner[a] = c}) = MaxConcurrency

-----------------------------------------------------------------------------
(***************************************************************************)
(* What the names and log lines say, and the code does not do.             *)
(***************************************************************************)

\* "finish": the execution has finished, all its steps are done.
FinishMeansDone ==
  [][\A a \in Attempts : finishes'[a] > finishes[a] =>
       done[a] = 1 .. Length[exec[a]]]_vars

\* "max concurrency reached": that many executions are in progress.
FullMeansBusy ==
  \A c \in Coordinators : nowExecutions[c] = MaxConcurrency =>
    \/ loop[c] # "idle"
    \/ Cardinality({a \in alive : owner[a] = c /\ InProgress(a)}) = MaxConcurrency
=============================================================================
