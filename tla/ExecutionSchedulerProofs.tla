---------------------- MODULE ExecutionSchedulerProofs ----------------------
(***************************************************************************)
(* Proofs about ExecutionScheduler, for all coordinators, executions,      *)
(* graphs, limits and kinds of failure.                                    *)
(*                                                                         *)
(* Five invariants carry them: TypeInv (where the threads and attempts can *)
(* be), GraphInv (who has which step in hand), FinishInv (what is known    *)
(* when an execution is about to be declared finished), StillInv (who is   *)
(* left to pick and to finish) and CountInv (who has sent a finish);       *)
(* SlotInv stands by itself.                                               *)
(***************************************************************************)
EXTENDS ExecutionScheduler, FiniteSetTheorems, TLAPS

USE DEF tableVars, loopVars, attemptVars, graphVars, threadVars

-----------------------------------------------------------------------------
(***************************************************************************)
(* Types, slices, and what is in memory.                                   *)
(***************************************************************************)

\* Every attempt in memory and every open transaction is about an execution.
Targets ==
  /\ \A a \in alive : exec[a] \in Executions /\ picked[a] <= Length[exec[a]]
  /\ \A c \in Coordinators :
       loop[c] \in {"selected", "scheduling"} => txExec[c] \in Executions

\* A thread that schedules steps is within the slice it picked.
Slices ==
  \A a \in Attempts : \A t \in Threads : pc[a][t] \in {"create", "record"} =>
    /\ next[a][t] \in 1 .. last[a][t]
    /\ last[a][t] <= picked[a]

\* An attempt that is not in memory, not begun or gone, has left nothing there.
Blank ==
  /\ alive \subseteq 1 .. built
  /\ \A a \in Attempts \ alive :
       picked[a] = 0 /\ done[a] = {} /\ \A t \in Threads : pc[a][t] = "none"

TypeInv == TypeOK /\ Targets /\ Blank /\ Slices

\* The steps of the clients, of time and of the loop that leave the attempts alone.
Outside == Environment \/ \E c \in Coordinators :
  \/ Tick(c) \/ BeginTx(c) \/ BeginTxFails(c) \/ SelectNone(c) \/ Select(c)
  \/ AbortScheduling(c) \/ Commit(c) \/ CommitFails(c)

\* Inserting a row, the passing of time and the loop outside scheduleGraph touch
\* no attempt.
LEMMA OutsideFrame ==
  ASSUME Outside
  PROVE  UNCHANGED <<attemptVars, graphVars, jobs, finishes, threadVars>>
BY DEF Outside, Environment, Execute, RetryAfterElapses, Tick, BeginTx, BeginTxFails,
       SelectNone, Select, AbortScheduling, Commit, CommitFails

\* What every kind of step of the coordinator establishes, each step does.
LEMMA StepCases ==
  ASSUME [Next]_vars,
         NEW ACTION P,
         UNCHANGED vars => P,
         Outside => P,
         \A c \in Coordinators : StartExecution(c) => P,
         \A c \in Coordinators : CrashRestart(c) => P,
         \A a \in Attempts, t \in Threads : PickSteps(a, t) => P,
         \A a \in Attempts, t \in Threads : CreateJob(a, t) => P,
         \A a \in Attempts, t \in Threads : DropStep(a, t) => P,
         \A a \in Attempts, t \in Threads : RecordJob(a, t) => P,
         \A a \in Attempts, i \in StepIndex : Callback(a, i) => P
  PROVE P
BY DEF Next, Loop, Schedule, Outside

\* TypeInv is kept by each kind of step, one lemma for each.  First the steps
\* that leave the attempts alone.
LEMMA TypeOutside ==
  ASSUME TypeInv, Outside
  PROVE  TypeInv'
<1>1. UNCHANGED <<attemptVars, graphVars, jobs, finishes, threadVars>>
  BY OutsideFrame
<1>2. status' \in [Executions -> {"absent", "new", "scheduled"}] /\ stale' \in SUBSET Executions
  BY DEF TypeInv, TypeOK, Outside, Environment, Execute, RetryAfterElapses, Tick, BeginTx, BeginTxFails,
       SelectNone, Select, AbortScheduling, Commit, CommitFails
<1> DEFINE LoopOK == /\ loop \in [Coordinators -> LoopPC]
                     /\ txExec \in [Coordinators -> Executions \cup {None}]
                     /\ txAttempt \in [Coordinators -> 0..MaxAttempts]
                     /\ \A c \in Coordinators :
                          loop[c] \in {"selected", "scheduling"} => txExec[c] \in Executions
<1>3. LoopOK'
  <2>1. ASSUME NEW c \in Coordinators, EndTx(c, -1) \/ EndTx(c, 0)
        PROVE  LoopOK'
    <3>1. /\ loop' = [loop EXCEPT ![c] = "idle"]
          /\ txExec' = [txExec EXCEPT ![c] = None]
          /\ txAttempt' = [txAttempt EXCEPT ![c] = 0]
      BY <2>1 DEF EndTx
    <3> QED
      BY <3>1, BoundsAssumption DEF TypeInv, TypeOK, Targets, LoopPC
  <2>2. ASSUME NEW c \in Coordinators, Tick(c) \/ BeginTx(c) PROVE LoopOK'
    BY <2>2 DEF TypeInv, TypeOK, Targets, LoopPC, Tick, BeginTx
  <2>3. ASSUME NEW c \in Coordinators, Select(c) PROVE LoopOK'
    BY <2>3 DEF TypeInv, TypeOK, Targets, LoopPC, Select, Earliest, ForSchedule
  <2>4. CASE Environment
    BY <2>4 DEF Environment, Execute, RetryAfterElapses, TypeInv, TypeOK, Targets
  <2> QED
    BY <2>1, <2>2, <2>3, <2>4 DEF Outside, BeginTxFails, SelectNone, AbortScheduling, Commit, CommitFails
<1>4. nowExecutions' \in [Coordinators -> Int]
  BY DEF TypeInv, TypeOK, Outside, Environment, Execute, RetryAfterElapses, Tick, BeginTx, BeginTxFails,
       SelectNone, Select, AbortScheduling, Commit, CommitFails, EndTx
<1> QED
  BY <1>1, <1>2, <1>3, <1>4 DEF TypeInv, TypeOK, Targets, Blank, Slices

\* The "start" message is sent: a new attempt, at the execution the transaction
\* has locked.
LEMMA TypeStart ==
  ASSUME TypeInv, NEW c \in Coordinators, StartExecution(c)
  PROVE  TypeInv'
<1> USE DEF TypeInv, TypeOK
<1>1. /\ built + 1 \in Attempts /\ built + 1 \in 0..MaxAttempts
      /\ built + 1 \in Attempts \ alive
  BY BoundsAssumption DEF StartExecution, Attempts, Blank
<1>2. TypeOK'
  BY <1>1 DEF StartExecution, LoopPC, ThreadPC, Threads, Root
<1>3. Targets'
  <2>1. txExec[c] \in Executions
    BY DEF Targets, StartExecution
  <2>2. picked[built + 1] = 0
    BY <1>1 DEF Blank
  <2>3. exec' = [exec EXCEPT ![built + 1] = txExec[c]] /\ alive' = alive \cup {built + 1}
        /\ picked' = picked /\ loop' = [loop EXCEPT ![c] = "scheduling"] /\ txExec' = txExec
    BY DEF StartExecution
  <2>4. 0 <= Length[txExec[c]]
    BY <2>1, GraphAssumption
  <2> QED
    BY <1>1, <2>1, <2>2, <2>3, <2>4 DEF Targets
<1>4. Blank'
  BY <1>1 DEF Blank, StartExecution
<1>5. Slices'
  BY <1>1 DEF Slices, StartExecution, Threads, Root
<1> QED
  BY <1>2, <1>3, <1>4, <1>5

\* A restart leaves nothing of the attempts of the process.
LEMMA TypeCrash ==
  ASSUME TypeInv, NEW c \in Coordinators, CrashRestart(c)
  PROVE  TypeInv'
<1> DEFINE Mine == {a \in alive : owner[a] = c}
<1> USE DEF TypeInv
<1>1. TypeOK'
  <2>1. (/\ loop \in [Coordinators -> LoopPC]
         /\ txExec \in [Coordinators -> Executions \cup {None}]
         /\ txAttempt \in [Coordinators -> 0..MaxAttempts])'
    BY BoundsAssumption DEF TypeOK, CrashRestart, EndTx, LoopPC
  <2>2. nowExecutions' \in [Coordinators -> Int]
    BY DEF TypeOK, CrashRestart, EndTx
  <2>3. (/\ picked \in [Attempts -> 0..MaxSteps]
         /\ done \in [Attempts -> SUBSET StepIndex]
         /\ jobs \in [Attempts -> SUBSET StepIndex])'
    BY GraphAssumption DEF TypeOK, CrashRestart
  <2>4. (/\ pc \in [Attempts -> [Threads -> ThreadPC]]
         /\ next \in [Attempts -> [Threads -> 0..MaxSteps]]
         /\ last \in [Attempts -> [Threads -> 0..MaxSteps]])'
    BY GraphAssumption DEF TypeOK, CrashRestart, ThreadPC
  <2> QED
    BY <2>1, <2>2, <2>3, <2>4 DEF TypeOK, CrashRestart
<1>2. Targets'
  <2>1. ASSUME NEW a \in alive' PROVE (exec[a] \in Executions /\ picked[a] <= Length[exec[a]])'
    BY <2>1 DEF CrashRestart, Targets, TypeOK
  <2>2. loop' = [loop EXCEPT ![c] = "idle"] /\ txExec' = [txExec EXCEPT ![c] = None]
    BY DEF CrashRestart, EndTx
  <2> QED
    BY <2>1, <2>2 DEF Targets, TypeOK
<1>3. Blank'
  BY DEF Blank, CrashRestart, TypeOK
<1>4. Slices'
  BY DEF Slices, CrashRestart, TypeOK
<1> QED
  BY <1>1, <1>2, <1>3, <1>4

\* A thread leaves PickSteps with a slice that ends at lastPickedStep.
LEMMA TypePick ==
  ASSUME TypeInv, NEW a \in Attempts, NEW t \in Threads, PickSteps(a, t)
  PROVE  TypeInv'
<1> USE DEF TypeInv
<1>1. a \in alive /\ exec[a] \in Executions /\ Length[exec[a]] \in 0..MaxSteps
  BY GraphAssumption DEF PickSteps, At, Targets
<1>2. PICK q \in picked[a] .. Length[exec[a]] :
         /\ picked' = [picked EXCEPT ![a] = q]
         /\ IF q = picked[a]
              THEN GoTo(a, t, "end") /\ UNCHANGED <<next, last>>
              ELSE /\ GoTo(a, t, "create")
                   /\ next' = [next EXCEPT ![a][t] = picked[a] + 1]
                   /\ last' = [last EXCEPT ![a][t] = q]
  BY DEF PickSteps
<1>3. /\ MaxSteps \in Nat /\ picked[a] \in Nat /\ q \in 0..MaxSteps
      /\ q <= Length[exec[a]] /\ picked[a] <= q
  BY <1>1, <1>2, GraphAssumption DEF TypeOK
<1>4. q # picked[a] => picked[a] + 1 \in 1..q /\ picked[a] + 1 \in 0..MaxSteps
  BY <1>3
<1>5. UNCHANGED <<tableVars, loopVars, attemptVars, done, jobs, finishes>>
  BY DEF PickSteps
<1>6. TypeOK'
  <2>1. picked' \in [Attempts -> 0..MaxSteps]
    BY <1>2, <1>3 DEF TypeOK
  <2>2. pc' = [pc EXCEPT ![a][t] = "end"] \/ pc' = [pc EXCEPT ![a][t] = "create"]
    BY <1>2 DEF GoTo
  <2>3. pc' \in [Attempts -> [Threads -> ThreadPC]]
    <3>1. CASE pc' = [pc EXCEPT ![a][t] = "end"]
      BY <3>1 DEF TypeOK, ThreadPC
    <3>2. CASE pc' = [pc EXCEPT ![a][t] = "create"]
      BY <3>2 DEF TypeOK, ThreadPC
    <3> QED
      BY <2>2, <3>1, <3>2
  <2>4. next' \in [Attempts -> [Threads -> 0..MaxSteps]] /\ last' \in [Attempts -> [Threads -> 0..MaxSteps]]
    <3>1. CASE q = picked[a]
      BY <1>2, <3>1 DEF TypeOK
    <3>2. CASE q # picked[a]
      <4>1. next' = [next EXCEPT ![a][t] = picked[a] + 1] /\ last' = [last EXCEPT ![a][t] = q]
        BY <1>2, <3>2
      <4> QED
        BY <1>3, <1>4, <3>2, <4>1 DEF TypeOK
    <3> QED
      BY <3>1, <3>2
  <2> QED
    BY <1>5, <2>1, <2>3, <2>4 DEF TypeOK
<1>7. Targets'
  BY <1>1, <1>2, <1>3, <1>5 DEF Targets, TypeOK
<1>8. Blank'
  BY <1>1, <1>2, <1>5 DEF Blank, TypeOK, GoTo
<1>9. Slices'
  <2> SUFFICES ASSUME NEW b \in Attempts, NEW u \in Threads, pc'[b][u] \in {"create", "record"}
               PROVE  next'[b][u] \in 1 .. last'[b][u] /\ last'[b][u] <= picked'[b]
    BY DEF Slices
  <2>1. CASE b = a /\ u = t
    BY <1>2, <1>3, <1>4, <2>1 DEF TypeOK, GoTo
  <2>2. CASE ~ (b = a /\ u = t)
    <3>1. pc'[b][u] = pc[b][u] /\ next'[b][u] = next[b][u] /\ last'[b][u] = last[b][u]
      BY <1>2, <2>2 DEF TypeOK, GoTo
    <3>2. picked[b] <= picked'[b] /\ picked[b] \in Nat /\ picked'[b] \in Nat /\ last[b][u] \in Nat
      BY <1>2, <1>3, GraphAssumption DEF TypeOK
    <3> QED
      BY <3>1, <3>2 DEF Slices
  <2> QED
    BY <2>1, <2>2
<1> QED
  BY <1>6, <1>7, <1>8, <1>9

\* CreateJob, DropStep and RecordJob go forward within the slice.
LEMMA TypeCreate ==
  ASSUME TypeInv, NEW a \in Attempts, NEW t \in Threads, CreateJob(a, t)
  PROVE  TypeInv'
<1> USE DEF TypeInv
<1>1. a \in alive /\ pc[a][t] = "create"
  BY DEF CreateJob, At
<1>2. TypeOK'
  BY DEF CreateJob, TypeOK, ThreadPC
<1>3. Targets'
  BY DEF CreateJob, Targets
<1>4. Blank'
  BY <1>1 DEF CreateJob, Blank, TypeOK
<1>5. Slices'
  BY <1>1 DEF CreateJob, Slices, TypeOK
<1> QED
  BY <1>2, <1>3, <1>4, <1>5

\* The loop of scheduleGraph goes on to the next step and never past its slice.
LEMMA NextStepInSlice ==
  ASSUME TypeInv, NEW a \in Attempts, NEW t \in Threads,
         pc[a][t] \in {"create", "record"},
         next' = [next EXCEPT ![a][t] = Following(a, t)],
         UNCHANGED <<last, picked>>
  PROVE  /\ next' \in [Attempts -> [Threads -> 0..MaxSteps]]
         /\ next'[a][t] \in 1 .. last'[a][t] /\ last'[a][t] <= picked'[a]
<1>1. next[a][t] \in 1 .. last[a][t] /\ last[a][t] <= picked[a] /\ last[a][t] \in 0..MaxSteps
  BY DEF TypeInv, Slices, TypeOK
<1>2. next'[a][t] = IF next[a][t] = last[a][t] THEN next[a][t] ELSE next[a][t] + 1
  BY DEF TypeInv, TypeOK, Following
<1>3. next'[a][t] \in 1 .. last[a][t] /\ next'[a][t] \in 0..MaxSteps
  <2>1. next[a][t] \in Int /\ last[a][t] \in Int /\ MaxSteps \in Int
    BY <1>1, GraphAssumption
  <2> QED
    BY <1>1, <1>2, <2>1
<1> QED
  BY <1>1, <1>2, <1>3 DEF TypeInv, TypeOK

\* DropStep goes on within the slice.
LEMMA TypeDrop ==
  ASSUME TypeInv, NEW a \in Attempts, NEW t \in Threads, DropStep(a, t)
  PROVE  TypeInv'
<1> USE DEF TypeInv
<1>1. a \in alive /\ pc[a][t] = "create" /\ AfterStep(a, t) \in ThreadPC
  BY DEF DropStep, At, AfterStep, ThreadPC
<1>2. /\ next' \in [Attempts -> [Threads -> 0..MaxSteps]]
      /\ next'[a][t] \in 1 .. last'[a][t] /\ last'[a][t] <= picked'[a]
  BY <1>1, NextStepInSlice DEF DropStep
<1>3. TypeOK'
  BY <1>1, <1>2 DEF DropStep, TypeOK, ThreadPC
<1>4. Targets'
  BY DEF DropStep, Targets
<1>5. Blank'
  BY <1>1 DEF DropStep, Blank, TypeOK
<1>6. Slices'
  BY <1>1, <1>2 DEF DropStep, Slices, TypeOK
<1> QED
  BY <1>3, <1>4, <1>5, <1>6

\* RecordJob enters a step of the execution in the jobs map and goes on.
LEMMA TypeRecord ==
  ASSUME TypeInv, NEW a \in Attempts, NEW t \in Threads, RecordJob(a, t)
  PROVE  TypeInv'
<1> USE DEF TypeInv
<1>1. a \in alive /\ pc[a][t] = "record" /\ AfterStep(a, t) \in ThreadPC
  BY DEF RecordJob, At, AfterStep, ThreadPC
<1>2. /\ next' \in [Attempts -> [Threads -> 0..MaxSteps]]
      /\ next'[a][t] \in 1 .. last'[a][t] /\ last'[a][t] <= picked'[a]
  BY <1>1, NextStepInSlice DEF RecordJob
<1>3. next[a][t] \in StepIndex
  BY <1>1 DEF Slices, TypeOK, StepIndex
<1>4. TypeOK'
  <2>1. jobs' \in [Attempts -> SUBSET StepIndex]
    <3>1. jobs' = jobs \/ jobs' = [jobs EXCEPT ![a] = @ \cup {next[a][t]}]
      BY DEF RecordJob
    <3>2. CASE jobs' = jobs
      BY <3>2 DEF TypeOK
    <3>3. CASE jobs' = [jobs EXCEPT ![a] = @ \cup {next[a][t]}]
      BY <1>3, <3>3 DEF TypeOK
    <3> QED
      BY <3>1, <3>2, <3>3
  <2>2. pc' \in [Attempts -> [Threads -> ThreadPC]]
    BY <1>1 DEF RecordJob, TypeOK, GoTo
  <2> QED
    BY <1>2, <2>1, <2>2 DEF RecordJob, TypeOK
<1>5. Targets'
  BY DEF RecordJob, Targets
<1>6. Blank'
  BY <1>1 DEF RecordJob, Blank, TypeOK, GoTo
<1>7. Slices'
  BY <1>1, <1>2 DEF RecordJob, Slices, TypeOK, GoTo
<1> QED
  BY <1>4, <1>5, <1>6, <1>7

\* A callback moves its own thread, and at most marks its own step done or sends
\* a "finish" message.
LEMMA CallbackFrame ==
  ASSUME NEW a \in Attempts, NEW i \in StepIndex, Callback(a, i)
  PROVE  /\ a \in alive
         /\ UNCHANGED <<tableVars, loopVars, attemptVars, picked, jobs, next, last>>
         /\ \E w \in {"done", "isDone", "finish", "pick", "end", "lost"} : GoTo(a, i, w)
         /\ done' \in {done, [done EXCEPT ![a] = @ \cup {i}]}
         /\ finishes' \in {finishes, [finishes EXCEPT ![a] = @ + 1]}
BY DEF Callback, ReportResult, LoseResult, DoneStep, CheckDone, SendFinish,
       LoseFinish, At

\* TypeInv is kept by every step of a callback.
LEMMA TypeCallback ==
  ASSUME TypeInv, NEW a \in Attempts, NEW i \in StepIndex, Callback(a, i)
  PROVE  TypeInv'
<1> USE DEF TypeInv
<1>1. a \in alive /\ UNCHANGED <<tableVars, loopVars, attemptVars, picked, jobs, next, last>>
  BY CallbackFrame
<1>2. PICK w \in {"done", "isDone", "finish", "pick", "end", "lost"} : GoTo(a, i, w)
  BY CallbackFrame
<1>3. i \in Threads
  BY DEF Threads
<1>4. done' \in [Attempts -> SUBSET StepIndex] /\ finishes' \in [Attempts -> Nat]
  <2>1. \/ done' = done
        \/ done' = [done EXCEPT ![a] = @ \cup {i}]
    BY CallbackFrame
  <2>2. finishes' = finishes \/ finishes' = [finishes EXCEPT ![a] = @ + 1]
    BY CallbackFrame
  <2>3. done' \in [Attempts -> SUBSET StepIndex]
    <3>1. CASE done' = done
      BY <3>1 DEF TypeOK
    <3>2. CASE done' = [done EXCEPT ![a] = @ \cup {i}]
      BY <3>2 DEF TypeOK
    <3> QED
      BY <2>1, <3>1, <3>2
  <2>4. finishes' \in [Attempts -> Nat]
    <3>1. CASE finishes' = finishes
      BY <3>1 DEF TypeOK
    <3>2. CASE finishes' = [finishes EXCEPT ![a] = @ + 1]
      BY <3>2 DEF TypeOK
    <3> QED
      BY <2>2, <3>1, <3>2
  <2> QED
    BY <2>3, <2>4
<1>5. TypeOK'
  BY <1>1, <1>2, <1>3, <1>4 DEF TypeOK, GoTo, ThreadPC
<1>6. Targets'
  BY <1>1 DEF Targets
<1>7. Blank'
  <2>1. done' = done \/ done' = [done EXCEPT ![a] = @ \cup {i}]
    BY CallbackFrame
  <2>2. \A b \in Attempts \ {a} : done'[b] = done[b] /\ pc'[b] = pc[b]
    <3>1. \A b \in Attempts \ {a} : done'[b] = done[b]
      BY <2>1 DEF TypeOK
    <3>2. \A b \in Attempts \ {a} : pc'[b] = pc[b]
      BY <1>2 DEF TypeOK, GoTo
    <3> QED
      BY <3>1, <3>2
  <2>3. ASSUME NEW b \in Attempts \ alive'
        PROVE  picked'[b] = 0 /\ done'[b] = {} /\ \A t \in Threads : pc'[b][t] = "none"
    <3>1. b \in Attempts \ alive /\ b # a /\ picked' = picked
      BY <1>1
    <3>2. picked[b] = 0 /\ done[b] = {} /\ \A t \in Threads : pc[b][t] = "none"
      BY <3>1 DEF Blank
    <3> QED
      BY <2>2, <3>1, <3>2
  <2>4. alive' \subseteq 1 .. built'
    BY <1>1 DEF Blank
  <2> QED
    BY <2>3, <2>4 DEF Blank
<1>8. Slices'
  BY <1>1, <1>2, <1>3 DEF Slices, TypeOK, GoTo
<1> QED
  BY <1>5, <1>6, <1>7, <1>8

\* The state has its type, a thread stays within the slice of steps it picked,
\* and an attempt that is not in memory has left nothing behind, however loop,
\* callbacks, failures and restarts interleave.
THEOREM TypeInvariant == Spec => []TypeInv
<1>1. Init => TypeInv
  BY GraphAssumption, BoundsAssumption DEF Init, TypeInv, TypeOK, Targets, Blank, Slices, LoopPC, ThreadPC
<1>2. TypeInv /\ [Next]_vars => TypeInv'
  <2> SUFFICES ASSUME TypeInv, [Next]_vars PROVE TypeInv'
    OBVIOUS
  <2>1. UNCHANGED vars => TypeInv'
    BY DEF vars, TypeInv, TypeOK, Targets, Blank, Slices
  <2> QED
    BY <2>1, TypeOutside, TypeStart, TypeCrash, TypePick, TypeCreate, TypeDrop,
       TypeRecord, TypeCallback, StepCases
<1> QED
  BY <1>1, <1>2, PTL DEF Spec

\* TypeOK, part of TypeInv, holds of every behaviour.
THEOREM TypeCorrect == Spec => []TypeOK
<1>1. TypeInv => TypeOK
  BY DEF TypeInv
<1> QED
  BY <1>1, TypeInvariant, PTL

-----------------------------------------------------------------------------
(***************************************************************************)
(* Who has which step in hand.                                             *)
(***************************************************************************)

\* A step that was not picked has no thread, one that is done has reported, and
\* what was picked had its dependencies done.
Fresh == \A a \in Attempts : \A i \in StepIndex : i > picked[a] => pc[a][i] = "none"

DoneReported == \A a \in Attempts : \A i \in done[a] : pc[a][i] \in AfterDone

PickedReady ==
  \A a \in alive : \A i \in 1 .. picked[a] : Deps[exec[a]][i] \subseteq done[a]

GraphInv == Fresh /\ DoneReported /\ PickedReady /\ HandledOnce /\ NothingForgotten

\* GraphInv is about the graph, the threads and what they are attempts at.
LEMMA SameThreads ==
  ASSUME GraphInv, UNCHANGED <<alive, exec, picked, done, pc, next, last>>
  PROVE  GraphInv'
BY DEF GraphInv, Fresh, DoneReported, PickedReady, HandledOnce, NothingForgotten, Todo

\* A new attempt begins with no step picked.
LEMMA GraphStart ==
  ASSUME TypeInv, GraphInv, NEW c \in Coordinators, StartExecution(c)
  PROVE  GraphInv'
<1>0. PICK n \in Attempts : n = built + 1
  BY BoundsAssumption DEF StartExecution, Attempts, TypeInv, TypeOK
<1>1. n \in Attempts /\ n \notin alive /\ Root \notin StepIndex /\ Root \in Threads
  BY <1>0, BoundsAssumption DEF Attempts, TypeInv, TypeOK, Blank, Root, StepIndex, Threads
<1>2. /\ alive' = alive \cup {n} /\ pc' = [pc EXCEPT ![n][Root] = "pick"]
      /\ exec' = [exec EXCEPT ![n] = txExec[c]] /\ UNCHANGED <<picked, done, next, last>>
  BY <1>0 DEF StartExecution
<1>3. picked[n] = 0 /\ done[n] = {} /\ \A t \in Threads : pc[n][t] = "none"
  BY <1>1 DEF TypeInv, Blank
<1>4. /\ \A a \in Attempts : \A i \in StepIndex : pc'[a][i] = pc[a][i]
      /\ \A t \in Threads : pc'[n][t] \in {"none", "pick"}
      /\ \A a \in Attempts \ {n} : pc'[a] = pc[a] /\ exec'[a] = exec[a]
  BY <1>1, <1>2, <1>3 DEF TypeInv, TypeOK, Threads
<1>5. /\ \A t \in Threads : Todo(n, t)' = {}
      /\ \A a \in Attempts \ {n} : \A t \in Threads : Todo(a, t)' = Todo(a, t)
  <2>1. ASSUME NEW t \in Threads PROVE Todo(n, t)' = {}
    BY <1>4 DEF Todo
  <2>2. ASSUME NEW a \in Attempts \ {n}, NEW t \in Threads PROVE Todo(a, t)' = Todo(a, t)
    BY <1>2, <1>4 DEF Todo
  <2> QED
    BY <2>1, <2>2
<1>6. alive \subseteq Attempts /\ \A a \in Attempts : \A t \in Threads : Todo(a, t) \subseteq StepIndex
  BY GraphAssumption, SMTT(30) DEF TypeInv, TypeOK, Slices, Todo, StepIndex
<1>7. Fresh'
  BY <1>2, <1>4 DEF GraphInv, Fresh
<1>8. DoneReported'
  BY <1>2, <1>4 DEF GraphInv, DoneReported, TypeInv, TypeOK
<1>9. PickedReady'
  BY <1>1, <1>2, <1>3, <1>4, <1>6 DEF GraphInv, PickedReady
<1>10. HandledOnce'
  <2> SUFFICES ASSUME NEW a \in alive', NEW t \in Threads
               PROVE  /\ \A i \in Todo(a, t)' : pc'[a][i] = "none"
                      /\ \A u \in Threads \ {t} : Todo(a, t)' \cap Todo(a, u)' = {}
    BY DEF HandledOnce
  <2>1. CASE a = n
    BY <1>5, <2>1
  <2>2. CASE a # n
    <3>1. a \in alive /\ a \in Attempts \ {n}
      BY <1>2, <1>6, <2>2
    <3> QED
      BY <1>4, <1>5, <3>1 DEF GraphInv, HandledOnce
  <2> QED
    BY <2>1, <2>2
<1>11. NothingForgotten'
  <2>1. 1 .. picked'[n] = {}
    BY <1>2, <1>3
  <2>2. ASSUME NEW a \in alive PROVE 1 .. picked[a] \subseteq StepIndex
    BY <1>6, GraphAssumption DEF TypeInv, TypeOK, StepIndex
  <2> QED
    BY <1>1, <1>2, <1>4, <1>5, <1>6, <2>1, <2>2 DEF GraphInv, NothingForgotten
<1> QED
  BY <1>7, <1>8, <1>9, <1>10, <1>11 DEF GraphInv

\* What a restart leaves in memory is not touched by it.
LEMMA GraphCrash ==
  ASSUME TypeInv, GraphInv, NEW c \in Coordinators, CrashRestart(c)
  PROVE  GraphInv'
<1>1. /\ alive' \subseteq alive /\ alive \subseteq Attempts
      /\ UNCHANGED exec
      /\ \A a \in alive' : /\ picked'[a] = picked[a] /\ done'[a] = done[a]
                           /\ pc'[a] = pc[a] /\ next'[a] = next[a] /\ last'[a] = last[a]
  BY DEF CrashRestart, TypeInv, TypeOK
<1>2. \A a \in Attempts : \/ /\ picked'[a] = picked[a] /\ done'[a] = done[a] /\ pc'[a] = pc[a]
                          \/ /\ done'[a] = {} /\ \A t \in Threads : pc'[a][t] = "none"
  BY DEF CrashRestart, TypeInv, TypeOK
<1>3. \A a \in alive' : \A t \in Threads : Todo(a, t)' = Todo(a, t)
  BY <1>1 DEF Todo
<1>4. Fresh' /\ DoneReported'
  BY <1>2 DEF GraphInv, Fresh, DoneReported, Threads
<1>5. PickedReady'
  BY <1>1 DEF GraphInv, PickedReady
<1>6. HandledOnce' /\ NothingForgotten'
  <2>1. HandledOnce'
    <3> SUFFICES ASSUME NEW a \in alive', NEW t \in Threads
                 PROVE  /\ \A i \in Todo(a, t)' : pc'[a][i] = "none"
                        /\ \A u \in Threads \ {t} : Todo(a, t)' \cap Todo(a, u)' = {}
      BY DEF HandledOnce
    <3> QED
      BY <1>1, <1>3 DEF GraphInv, HandledOnce
  <2>2. NothingForgotten'
    <3> SUFFICES ASSUME NEW a \in alive', NEW i \in 1 .. picked'[a]
                 PROVE  pc'[a][i] # "none" \/ \E t \in Threads : i \in Todo(a, t)'
      BY DEF NothingForgotten
    <3> QED
      BY <1>1, <1>3 DEF GraphInv, NothingForgotten
  <2> QED
    BY <2>1, <2>2
<1> QED
  BY <1>4, <1>5, <1>6 DEF GraphInv

\* What a thread has in hand are steps of the execution.
LEMMA TodoInStepIndex ==
  ASSUME TypeInv, NEW a \in Attempts, NEW t \in Threads
  PROVE  /\ Todo(a, t) \subseteq StepIndex
         /\ Todo(a, t) \subseteq 1 .. picked[a]
BY GraphAssumption DEF TypeInv, TypeOK, Slices, Todo, StepIndex

\* PickSteps, under the graph's mutex, gives a thread steps that no other thread
\* ever had, and whose dependencies are done.
LEMMA GraphPick ==
  ASSUME TypeInv, GraphInv, NEW a \in Attempts, NEW t \in Threads, PickSteps(a, t)
  PROVE  GraphInv'
<1>1. a \in alive /\ alive \subseteq Attempts /\ pc[a][t] = "pick"
      /\ UNCHANGED <<alive, exec, done>>
  BY DEF PickSteps, At, TypeInv, TypeOK
<1>2. PICK q \in picked[a] .. Length[exec[a]] :
         /\ \A i \in picked[a]+1 .. q : CanPick(a, i)
         /\ picked' = [picked EXCEPT ![a] = q]
         /\ IF q = picked[a]
              THEN GoTo(a, t, "end") /\ UNCHANGED <<next, last>>
              ELSE /\ GoTo(a, t, "create")
                   /\ next' = [next EXCEPT ![a][t] = picked[a] + 1]
                   /\ last' = [last EXCEPT ![a][t] = q]
  BY DEF PickSteps
<1>3. /\ picked[a] \in Nat /\ q \in Nat /\ picked[a] <= q
      /\ q <= MaxSteps /\ MaxSteps \in Nat
  BY <1>1, <1>2, GraphAssumption DEF TypeInv, TypeOK, Targets
<1>4. /\ picked'[a] = q
      /\ \A b \in Attempts \ {a} : picked'[b] = picked[b]
      /\ pc'[a][t] \in {"end", "create"}
      /\ \A u \in Threads \ {t} : pc'[a][u] = pc[a][u]
      /\ \A b \in Attempts \ {a} : pc'[b] = pc[b] /\ next'[b] = next[b] /\ last'[b] = last[b]
  BY <1>2 DEF GoTo, TypeInv, TypeOK
<1>5. Todo(a, t)' = picked[a]+1 .. q
  <2>1. CASE q = picked[a]
    BY <1>2, <1>3, <2>1 DEF GoTo, Todo, TypeInv, TypeOK
  <2>2. CASE q # picked[a]
    BY <1>2, <1>3, <2>2 DEF GoTo, Todo, TypeInv, TypeOK
  <2> QED
    BY <2>1, <2>2
<1>6. ASSUME NEW u \in Threads \ {t} PROVE Todo(a, u)' = Todo(a, u)
  <2>1. next'[a][u] = next[a][u] /\ last'[a][u] = last[a][u]
    BY <1>2 DEF TypeInv, TypeOK
  <2> QED
    BY <1>4, <2>1 DEF Todo
<1>7. ASSUME NEW b \in Attempts \ {a}, NEW u \in Threads PROVE Todo(b, u)' = Todo(b, u)
  BY <1>4 DEF Todo
<1>8. \A u \in Threads : Todo(a, u) \subseteq 1 .. picked[a]
  BY TodoInStepIndex
<1>9. ASSUME NEW i \in StepIndex, i > picked[a] PROVE i # t /\ pc[a][i] = "none" /\ pc'[a][i] = "none"
  <2>1. pc[a][i] = "none"
    BY <1>9 DEF GraphInv, Fresh
  <2>2. i \in Threads
    BY DEF Threads
  <2> QED
    BY <1>1, <1>4, <2>1, <2>2
<1>10. Fresh'
  <2> SUFFICES ASSUME NEW b \in Attempts, NEW i \in StepIndex, i > picked'[b]
               PROVE  pc'[b][i] = "none"
    BY DEF Fresh
  <2>1. CASE b = a
    <3>1. i \in Int /\ i > picked[a]
      BY <1>3, <1>4, <2>1 DEF StepIndex
    <3> QED
      BY <1>9, <2>1, <3>1
  <2>2. CASE b # a
    BY <1>4, <2>2 DEF GraphInv, Fresh
  <2> QED
    BY <2>1, <2>2
<1>11. DoneReported'
  <2> SUFFICES ASSUME NEW b \in Attempts, NEW i \in done[b]
               PROVE  pc'[b][i] \in AfterDone
    BY <1>1 DEF DoneReported
  <2>1. pc[b][i] \in AfterDone /\ i \in Threads
    BY DEF GraphInv, DoneReported, TypeInv, TypeOK, Threads
  <2> QED
    BY <1>4, <2>1 DEF AfterDone
<1>12. PickedReady'
  <2> SUFFICES ASSUME NEW b \in alive, NEW i \in 1 .. picked'[b]
               PROVE  Deps[exec[b]][i] \subseteq done[b]
    BY <1>1 DEF PickedReady
  <2>1. CASE b = a /\ i > picked[a]
    BY <1>2, <1>3, <1>4, <2>1 DEF CanPick
  <2>2. CASE b = a /\ ~ (i > picked[a])
    BY <1>1, <1>3, <2>2 DEF GraphInv, PickedReady
  <2>3. CASE b # a
    BY <1>1, <1>4, <2>3 DEF GraphInv, PickedReady
  <2> QED
    BY <2>1, <2>2, <2>3
<1>13. HandledOnce'
  <2> SUFFICES ASSUME NEW b \in alive, NEW u \in Threads
               PROVE  /\ \A i \in Todo(b, u)' : pc'[b][i] = "none"
                      /\ \A v \in Threads \ {u} : Todo(b, u)' \cap Todo(b, v)' = {}
    BY <1>1 DEF HandledOnce
  <2>1. CASE b # a
    BY <1>1, <1>4, <1>7, <2>1 DEF GraphInv, HandledOnce
  <2>2. CASE b = a
    <3>1. ASSUME NEW i \in Todo(a, u)' PROVE pc'[a][i] = "none"
      <4>1. CASE u = t
        BY <1>3, <1>5, <1>9, <3>1, <4>1 DEF StepIndex
      <4>2. CASE u # t
        <5>1. i \in Todo(a, u) /\ i \in Threads
          BY <1>6, <3>1, <4>2, TodoInStepIndex DEF Threads
        <5>2. pc[a][i] = "none"
          BY <1>1, <5>1 DEF GraphInv, HandledOnce
        <5> QED
          BY <1>1, <1>4, <5>1, <5>2
      <4> QED
        BY <4>1, <4>2
    <3>2. ASSUME NEW v \in Threads \ {t} PROVE Todo(a, t)' \cap Todo(a, v)' = {}
      BY <1>3, <1>5, <1>6, <1>8
    <3>3. ASSUME NEW v \in Threads \ {u} PROVE Todo(a, u)' \cap Todo(a, v)' = {}
      <4>1. CASE u = t \/ v = t
        BY <3>2, <4>1
      <4>2. CASE u # t /\ v # t
        BY <1>1, <1>6, <4>2 DEF GraphInv, HandledOnce
      <4> QED
        BY <4>1, <4>2
    <3> QED
      BY <2>2, <3>1, <3>3
  <2> QED
    BY <2>1, <2>2
<1>14. NothingForgotten'
  <2> SUFFICES ASSUME NEW b \in alive, NEW i \in 1 .. picked'[b]
               PROVE  pc'[b][i] # "none" \/ \E u \in Threads : i \in Todo(b, u)'
    BY <1>1 DEF NothingForgotten
  <2>1. CASE b # a
    BY <1>1, <1>4, <1>7, <2>1 DEF GraphInv, NothingForgotten
  <2>2. CASE b = a /\ i > picked[a]
    BY <1>3, <1>4, <1>5, <2>2
  <2>3. CASE b = a /\ ~ (i > picked[a])
    <3>1. i \in 1 .. picked[a] /\ i \in Threads
      BY <1>3, <1>4, <2>3 DEF Threads, StepIndex
    <3>2. CASE pc[a][i] # "none"
      BY <1>1, <1>4, <2>3, <3>1, <3>2
    <3>3. CASE pc[a][i] = "none"
      <4>1. PICK u \in Threads : i \in Todo(a, u)
        BY <1>1, <3>1, <3>3 DEF GraphInv, NothingForgotten
      <4>2. u # t
        BY <1>1, <4>1 DEF Todo
      <4> QED
        BY <1>6, <2>3, <4>1, <4>2
    <3> QED
      BY <3>2, <3>3
  <2> QED
    BY <2>1, <2>2, <2>3
<1> QED
  BY <1>10, <1>11, <1>12, <1>13, <1>14 DEF GraphInv

\* Thread t hands step s on, which leaves its slice: s gets a thread that waits
\* for a result, or is dropped.
LEMMA HandOn ==
  ASSUME TypeInv, GraphInv, NEW a \in alive, NEW t \in Threads, NEW s \in StepIndex,
         pc[a][t] = "create", s = next[a][t],
         \E w \in {"result", "dropped"} : \E v \in {"record", "create", "end"} :
            pc' = [pc EXCEPT ![a] = [@ EXCEPT ![s] = w, ![t] = v]],
         \E k \in 0..MaxSteps : next' = [next EXCEPT ![a][t] = k],
         UNCHANGED <<alive, exec, picked, done, last>>,
         Todo(a, t)' = Todo(a, t) \ {s}
  PROVE  GraphInv'
<1>0. PICK w \in {"result", "dropped"}, v \in {"record", "create", "end"} :
        pc' = [pc EXCEPT ![a] = [@ EXCEPT ![s] = w, ![t] = v]]
  OBVIOUS
<1>1. /\ a \in Attempts /\ alive \subseteq Attempts
      /\ \A b \in Attempts : \A u \in Threads :
            b # a \/ u # t => next'[b][u] = next[b][u]
  BY DEF TypeInv, TypeOK
<1>2. s \in Todo(a, t) /\ pc[a][s] = "none" /\ s # t /\ s \in Threads /\ s <= picked[a]
  <2>1. s \in Todo(a, t) /\ s \in Threads
    BY <1>1 DEF TypeInv, Slices, Todo, Threads, StepIndex
  <2>2. pc[a][s] = "none" /\ s \in 1 .. picked[a]
    BY <1>1, <2>1, TodoInStepIndex DEF GraphInv, HandledOnce
  <2> QED
    BY <2>1, <2>2
<1>3. /\ pc'[a][s] = w /\ pc'[a][t] = v
      /\ \A u \in Threads \ {s, t} : pc'[a][u] = pc[a][u]
      /\ \A b \in Attempts \ {a} : pc'[b] = pc[b]
  BY <1>0, <1>1, <1>2 DEF TypeInv, TypeOK
<1>4. ASSUME NEW u \in Threads \ {t} PROVE Todo(a, u)' = Todo(a, u)
  <2>1. CASE u = s
    BY <1>1, <1>2, <1>3, <2>1 DEF Todo
  <2>2. CASE u # s
    <3>1. pc'[a][u] = pc[a][u] /\ next'[a][u] = next[a][u] /\ last'[a][u] = last[a][u]
      BY <1>1, <1>3, <1>4, <2>2
    <3> QED
      BY <3>1 DEF Todo
  <2> QED
    BY <2>1, <2>2
<1>5. ASSUME NEW b \in Attempts \ {a}, NEW u \in Threads PROVE Todo(b, u)' = Todo(b, u)
  BY <1>1, <1>3 DEF Todo
<1>6. ASSUME NEW i \in StepIndex, pc[a][i] = "none", i # s PROVE pc'[a][i] = "none"
  BY <1>0, <1>3, <1>6 DEF Threads
<1>7. Fresh'
  <2> SUFFICES ASSUME NEW b \in Attempts, NEW i \in StepIndex, i > picked[b]
               PROVE  pc'[b][i] = "none"
    BY DEF Fresh
  <2>1. pc[b][i] = "none"
    BY DEF GraphInv, Fresh
  <2>2. CASE b = a
    <3>1. i \in Int /\ s \in Int /\ picked[a] \in Int
      BY <1>1, GraphAssumption DEF StepIndex, TypeInv, TypeOK
    <3>2. i # s
      BY <1>2, <2>2, <3>1
    <3> QED
      BY <1>6, <2>1, <2>2, <3>2
  <2>3. CASE b # a
    BY <1>3, <2>1, <2>3
  <2> QED
    BY <2>2, <2>3
<1>8. DoneReported'
  <2> SUFFICES ASSUME NEW b \in Attempts, NEW i \in done[b]
               PROVE  pc'[b][i] \in AfterDone
    BY DEF DoneReported
  <2>1. pc[b][i] \in AfterDone /\ i \in Threads
    BY DEF GraphInv, DoneReported, TypeInv, TypeOK, Threads
  <2> QED
    BY <1>0, <1>2, <1>3, <2>1 DEF AfterDone
<1>9. PickedReady'
  BY DEF GraphInv, PickedReady
<1>10. HandledOnce'
  <2> SUFFICES ASSUME NEW b \in alive, NEW u \in Threads
               PROVE  /\ \A i \in Todo(b, u)' : pc'[b][i] = "none"
                      /\ \A x \in Threads \ {u} : Todo(b, u)' \cap Todo(b, x)' = {}
    BY DEF HandledOnce
  <2>1. CASE b # a
    BY <1>1, <1>3, <1>5, <2>1 DEF GraphInv, HandledOnce
  <2>2. CASE b = a
    <3>1. ASSUME NEW x \in Threads PROVE Todo(a, x)' \subseteq Todo(a, x) \ {s}
      BY <1>2, <1>4 DEF GraphInv, HandledOnce
    <3>2. ASSUME NEW i \in Todo(a, u)' PROVE pc'[a][i] = "none"
      <4>1. i \in Todo(a, u) /\ i # s /\ i \in StepIndex
        BY <1>1, <3>1, <3>2, TodoInStepIndex
      <4> QED
        BY <1>6, <4>1 DEF GraphInv, HandledOnce
    <3> QED
      BY <2>2, <3>1, <3>2 DEF GraphInv, HandledOnce
  <2> QED
    BY <2>1, <2>2
<1>11. NothingForgotten'
  <2> SUFFICES ASSUME NEW b \in alive, NEW i \in 1 .. picked[b]
               PROVE  pc'[b][i] # "none" \/ \E u \in Threads : i \in Todo(b, u)'
    BY DEF NothingForgotten
  <2>1. CASE b # a
    BY <1>1, <1>3, <1>5, <2>1 DEF GraphInv, NothingForgotten
  <2>2. CASE b = a /\ i = s
    BY <1>0, <1>3, <2>2
  <2>3. CASE b = a /\ i # s
    <3>1. i \in Threads
      BY <1>1, GraphAssumption DEF Threads, StepIndex, TypeInv, TypeOK
    <3>2. CASE pc[a][i] # "none"
      BY <1>3, <2>3, <3>1, <3>2
    <3>3. CASE pc[a][i] = "none"
      <4>1. PICK u \in Threads : i \in Todo(a, u)
        BY <2>3, <3>3 DEF GraphInv, NothingForgotten
      <4> QED
        BY <1>4, <2>3, <4>1
    <3> QED
      BY <3>2, <3>3
  <2> QED
    BY <2>1, <2>2, <2>3
<1> QED
  BY <1>7, <1>8, <1>9, <1>10, <1>11 DEF GraphInv

\* A step whose job is created leaves the hands of its thread.
LEMMA GraphCreate ==
  ASSUME TypeInv, GraphInv, NEW a \in Attempts, NEW t \in Threads, CreateJob(a, t)
  PROVE  GraphInv'
<1>1. a \in alive /\ pc[a][t] = "create"
  BY DEF CreateJob, At
<1>2. PICK s \in StepIndex : s = next[a][t]
  BY <1>1 DEF TypeInv, Slices, TypeOK, StepIndex
<1>3. /\ pc' = [pc EXCEPT ![a] = [@ EXCEPT ![s] = "result", ![t] = "record"]]
      /\ UNCHANGED <<alive, exec, picked, done, next, last>>
  BY <1>2 DEF CreateJob
<1>4. pc'[a][t] = "record"
  BY <1>3 DEF TypeInv, TypeOK
<1>5. Todo(a, t)' = Todo(a, t) \ {s}
  <2>1. s \in Int /\ last[a][t] \in Int
    BY GraphAssumption DEF StepIndex, TypeInv, TypeOK
  <2>2. Todo(a, t) = s .. last[a][t] /\ Todo(a, t)' = s+1 .. last[a][t]
    BY <1>1, <1>2, <1>3, <1>4 DEF Todo
  <2> QED
    BY <2>1, <2>2
<1>6. next' = [next EXCEPT ![a][t] = next[a][t]] /\ next[a][t] \in 0..MaxSteps
  BY <1>3 DEF TypeInv, TypeOK
<1> QED
  BY <1>1, <1>2, <1>3, <1>5, <1>6, HandOn

\* So does a step whose job cannot be created.
LEMMA GraphDrop ==
  ASSUME TypeInv, GraphInv, NEW a \in Attempts, NEW t \in Threads, DropStep(a, t)
  PROVE  GraphInv'
<1>1. a \in alive /\ pc[a][t] = "create"
  BY DEF DropStep, At
<1>2. PICK s \in StepIndex : s = next[a][t]
  BY <1>1 DEF TypeInv, Slices, TypeOK, StepIndex
<1>3. PICK v \in {"create", "end"} : v = AfterStep(a, t)
  BY DEF AfterStep
<1>4. /\ pc' = [pc EXCEPT ![a] = [@ EXCEPT ![s] = "dropped", ![t] = v]]
      /\ next' = [next EXCEPT ![a][t] = Following(a, t)]
      /\ UNCHANGED <<alive, exec, picked, done, last>>
  BY <1>2, <1>3 DEF DropStep
<1>5. pc'[a][t] = v /\ next'[a][t] = IF s = last[a][t] THEN s ELSE s + 1
  BY <1>2, <1>4 DEF TypeInv, TypeOK, Following
<1>6. Todo(a, t)' = Todo(a, t) \ {s}
  <2>1. s \in Int /\ last[a][t] \in Int
    BY DEF StepIndex, TypeInv, TypeOK
  <2>2. CASE s = last[a][t]
    BY <1>1, <1>2, <1>3, <1>4, <1>5, <2>1, <2>2 DEF Todo, AfterStep
  <2>3. CASE s # last[a][t]
    BY <1>1, <1>2, <1>3, <1>4, <1>5, <2>1, <2>3 DEF Todo, AfterStep
  <2> QED
    BY <2>2, <2>3
<1>7. \E k \in 0..MaxSteps : next' = [next EXCEPT ![a][t] = k]
  <2>1. next' \in [Attempts -> [Threads -> 0..MaxSteps]]
    BY <1>1, <1>4, NextStepInSlice
  <2>2. next' = [next EXCEPT ![a][t] = next'[a][t]]
    BY <1>4 DEF TypeInv, TypeOK
  <2>3. next'[a][t] \in 0..MaxSteps
    BY <2>1 DEF TypeInv, TypeOK
  <2> QED
    BY <2>2, <2>3
<1> QED
  BY <1>1, <1>2, <1>3, <1>4, <1>6, <1>7, HandOn

\* No step changes hands: each thread keeps its slice, no thread begins.
LEMMA SameHands ==
  ASSUME TypeInv, GraphInv, UNCHANGED <<alive, exec, picked>>,
         \A b \in Attempts : \A u \in Threads : Todo(b, u)' = Todo(b, u),
         \A b \in Attempts : \A u \in Threads : pc'[b][u] = "none" <=> pc[b][u] = "none",
         \A b \in Attempts : done[b] \subseteq done'[b],
         DoneReported'
  PROVE  GraphInv'
<1>1. alive \subseteq Attempts
  BY DEF TypeInv, TypeOK
<1>2. Fresh'
  BY DEF GraphInv, Fresh, Threads
<1>3. PickedReady'
  BY <1>1 DEF GraphInv, PickedReady
<1>4. HandledOnce'
  <2> SUFFICES ASSUME NEW b \in alive, NEW u \in Threads
               PROVE  /\ \A i \in Todo(b, u)' : pc'[b][i] = "none"
                      /\ \A x \in Threads \ {u} : Todo(b, u)' \cap Todo(b, x)' = {}
    BY DEF HandledOnce
  <2>1. Todo(b, u) \subseteq Threads
    BY <1>1, TodoInStepIndex DEF Threads
  <2> QED
    BY <1>1, <2>1 DEF GraphInv, HandledOnce
<1>5. NothingForgotten'
  <2> SUFFICES ASSUME NEW b \in alive, NEW i \in 1 .. picked[b]
               PROVE  pc'[b][i] # "none" \/ \E u \in Threads : i \in Todo(b, u)'
    BY DEF NothingForgotten
  <2>1. i \in Threads
    BY <1>1, GraphAssumption DEF TypeInv, TypeOK, Threads, StepIndex
  <2> QED
    BY <1>1, <2>1 DEF GraphInv, NothingForgotten
<1> QED
  BY <1>2, <1>3, <1>4, <1>5 DEF GraphInv

\* Once a job is recorded, the rest of the slice is still in the thread's hands.
LEMMA GraphRecord ==
  ASSUME TypeInv, GraphInv, NEW a \in Attempts, NEW t \in Threads, RecordJob(a, t)
  PROVE  GraphInv'
<1>1. a \in alive /\ pc[a][t] = "record" /\ UNCHANGED <<alive, exec, picked, done, last>>
  BY DEF RecordJob, At
<1>2. /\ pc' = [pc EXCEPT ![a][t] = AfterStep(a, t)]
      /\ next' = [next EXCEPT ![a][t] = Following(a, t)]
  BY DEF RecordJob, GoTo
<1>3. AfterStep(a, t) \in {"create", "end"}
  BY DEF AfterStep
<1>4. next[a][t] \in Int /\ last[a][t] \in Int /\ next[a][t] <= last[a][t]
  BY <1>1 DEF TypeInv, TypeOK, Slices
<1>5. pc'[a][t] = AfterStep(a, t) /\ next'[a][t] = IF next[a][t] = last[a][t] THEN next[a][t] ELSE next[a][t] + 1
  BY <1>2 DEF TypeInv, TypeOK, Following
<1>6. Todo(a, t)' = Todo(a, t)
  <2>1. CASE next[a][t] = last[a][t]
    BY <1>1, <1>4, <1>5, <2>1 DEF Todo, AfterStep
  <2>2. CASE next[a][t] # last[a][t]
    BY <1>1, <1>4, <1>5, <2>2 DEF Todo, AfterStep
  <2> QED
    BY <2>1, <2>2
<1>7. ASSUME NEW b \in Attempts, NEW u \in Threads PROVE Todo(b, u)' = Todo(b, u)
  <2>1. CASE b = a /\ u = t
    BY <1>6, <2>1
  <2>2. CASE ~ (b = a /\ u = t)
    <3>1. pc'[b][u] = pc[b][u] /\ next'[b][u] = next[b][u]
      BY <1>2, <2>2 DEF TypeInv, TypeOK
    <3> QED
      BY <1>1, <3>1 DEF Todo
  <2> QED
    BY <2>1, <2>2
<1>8. ASSUME NEW b \in Attempts, NEW u \in Threads
      PROVE  /\ pc'[b][u] = "none" <=> pc[b][u] = "none"
             /\ pc[b][u] \in AfterDone => pc'[b][u] \in AfterDone
  BY <1>1, <1>2, <1>3, <1>5 DEF TypeInv, TypeOK, AfterDone
<1>9. DoneReported'
  BY <1>1, <1>8 DEF GraphInv, DoneReported, TypeInv, TypeOK, Threads
<1> QED
  BY <1>1, <1>7, <1>8, <1>9, SameHands

\* A callback takes no step in hand before its PickSteps, and marks its step
\* done when its result was reported.
LEMMA GraphCallback ==
  ASSUME TypeInv, GraphInv, NEW a \in Attempts, NEW i \in StepIndex, Callback(a, i)
  PROVE  GraphInv'
<1>1. a \in alive /\ i \in Threads /\ UNCHANGED <<alive, exec, picked, next, last>>
  BY CallbackFrame DEF Threads
<1>2. PICK w \in {"done", "isDone", "finish", "pick", "end", "lost"} : pc' = [pc EXCEPT ![a][i] = w]
  BY CallbackFrame DEF GoTo
<1>3. pc[a][i] \in {"result", "done", "isDone", "finish"} /\ pc'[a][i] = w
  BY <1>2 DEF Callback, ReportResult, LoseResult, DoneStep, CheckDone, SendFinish,
              LoseFinish, At, TypeInv, TypeOK, Threads
<1>4. ASSUME NEW b \in Attempts, NEW u \in Threads, ~ (b = a /\ u = i)
      PROVE  pc'[b][u] = pc[b][u]
  BY <1>2, <1>4 DEF TypeInv, TypeOK
<1>5. ASSUME NEW b \in Attempts, NEW u \in Threads PROVE Todo(b, u)' = Todo(b, u)
  <2>1. CASE b = a /\ u = i
    BY <1>3, <2>1 DEF Todo
  <2>2. CASE ~ (b = a /\ u = i)
    BY <1>1, <1>4, <2>2 DEF Todo
  <2> QED
    BY <2>1, <2>2
<1>6. ASSUME NEW b \in Attempts, NEW u \in Threads
      PROVE  pc'[b][u] = "none" <=> pc[b][u] = "none"
  BY <1>3, <1>4
<1>7. \/ done' = done
      \/ done' = [done EXCEPT ![a] = @ \cup {i}] /\ w = "isDone"
  BY <1>2, <1>3, <1>1 DEF Callback, ReportResult, LoseResult, DoneStep, CheckDone, SendFinish,
              LoseFinish, At, GoTo, TypeInv, TypeOK, Threads
<1>8. \A b \in Attempts : done[b] \subseteq done'[b]
  BY <1>7 DEF TypeInv, TypeOK
<1>9. pc[a][i] \in AfterDone => w \in AfterDone
  BY <1>2, <1>3 DEF Callback, ReportResult, LoseResult, DoneStep, CheckDone, SendFinish,
              LoseFinish, At, GoTo, AfterDone
<1>10. DoneReported'
  <2> SUFFICES ASSUME NEW b \in Attempts, NEW d \in done'[b]
               PROVE  pc'[b][d] \in AfterDone
    BY DEF DoneReported
  <2>1. CASE d \in done[b]
    <3>1. pc[b][d] \in AfterDone /\ d \in Threads
      BY <2>1 DEF GraphInv, DoneReported, TypeInv, TypeOK, Threads
    <3> QED
      BY <1>3, <1>4, <1>9, <3>1
  <2>2. CASE d \notin done[b]
    <3>1. b = a /\ d = i /\ w = "isDone"
      BY <1>7, <2>2 DEF TypeInv, TypeOK
    <3> QED
      BY <1>3, <3>1 DEF AfterDone
  <2> QED
    BY <2>1, <2>2
<1> QED
  BY <1>1, <1>5, <1>6, <1>8, <1>10, SameHands

\* The invariant of the graph and its users holds of every behaviour.
THEOREM GraphInvariant == Spec => []GraphInv
<1>1. Init => GraphInv
  BY GraphAssumption DEF Init, GraphInv, Fresh, DoneReported, PickedReady, HandledOnce, NothingForgotten,
     Threads
<1>2. TypeInv /\ GraphInv /\ [Next]_vars => GraphInv'
  <2> SUFFICES ASSUME TypeInv, GraphInv, [Next]_vars PROVE GraphInv'
    OBVIOUS
  <2>1. UNCHANGED vars => GraphInv'
    BY SameThreads DEF vars
  <2>2. Outside => GraphInv'
    BY OutsideFrame, SameThreads
  <2> QED
    BY <2>1, <2>2, GraphStart, GraphCrash, GraphPick, GraphCreate, GraphDrop,
       GraphRecord, GraphCallback, StepCases
<1> QED
  BY <1>1, <1>2, TypeInvariant, PTL DEF Spec

\* No step gets a job before all the steps it depends on have answered, reported
\* and been marked done: pickSteps and doneStep, whatever the callbacks do.
THEOREM DependenciesFirstAlways == Spec => []DependenciesFirst
<1>1. TypeInv /\ GraphInv => DependenciesFirst
  <2> SUFFICES ASSUME TypeInv, GraphInv, NEW a \in alive, NEW i \in StepIndex,
                      pc[a][i] # "none", NEW d \in Deps[exec[a]][i]
               PROVE  d \in StepIndex /\ pc[a][d] \in AfterDone
    BY DEF DependenciesFirst
  <2>1. i \in 1 .. picked[a]
    BY GraphAssumption DEF TypeInv, TypeOK, GraphInv, Fresh, StepIndex
  <2>2. d \in done[a]
    BY <2>1 DEF GraphInv, PickedReady
  <2> QED
    BY <2>2 DEF TypeInv, TypeOK, GraphInv, DoneReported
<1> QED
  BY <1>1, TypeInvariant, GraphInvariant, PTL

\* No step is ever in the hands of two of the threads that call PickSteps, nor
\* handed on twice.
THEOREM HandledOnceAlways == Spec => []HandledOnce
<1>1. GraphInv => HandledOnce
  BY DEF GraphInv
<1> QED
  BY <1>1, GraphInvariant, PTL

\* No step that was picked is lost between PickSteps and Schedule.
THEOREM NothingForgottenAlways == Spec => []NothingForgotten
<1>1. GraphInv => NothingForgotten
  BY DEF GraphInv
<1> QED
  BY <1>1, GraphInvariant, PTL

-----------------------------------------------------------------------------
(***************************************************************************)
(* The slots of the coordinators.                                          *)
(***************************************************************************)

OwnedBy(c) == {a \in alive : owner[a] = c}

\* The attempts of a process can be counted.
LEMMA OwnedFinite ==
  ASSUME TypeInv, NEW c
  PROVE  IsFiniteSet(OwnedBy(c)) /\ Cardinality(OwnedBy(c)) \in Nat
<1>1. IsFiniteSet(Attempts)
  BY BoundsAssumption, FS_Interval DEF Attempts
<1>2. OwnedBy(c) \subseteq Attempts
  BY DEF OwnedBy, TypeInv, TypeOK
<1> QED
  BY <1>1, <1>2, FS_Subset, FS_CardinalityType

\* Between the tick and the transaction a slot is free, and stays so: nobody but
\* the loop itself takes one.
SlotsKept ==
  \A c \in Coordinators :
    /\ nowExecutions[c] \in 0 .. MaxConcurrency
    /\ loop[c] = "begin" => nowExecutions[c] # MaxConcurrency

SlotInv == SlotsCountAttempts /\ SlotsKept

\* The loop of c goes to p, taking a slot, keeping it or giving it back, while
\* no attempt begins or goes.
InTx(p) == IF p \in {"select", "selected"} THEN 1 ELSE 0

SlotMove(c, delta, p) ==
  /\ nowExecutions' = [nowExecutions EXCEPT ![c] = @ + delta]
  /\ loop' = [loop EXCEPT ![c] = p]
  /\ InTx(p) = InTx(loop[c]) + delta
  /\ delta = 1 => loop[c] = "begin"
  /\ p = "begin" => delta = 0 /\ nowExecutions[c] # MaxConcurrency
  /\ UNCHANGED <<alive, owner>>

\* A move of the loop that takes a slot when it begins a transaction and gives it
\* back when it aborts keeps the count right.
LEMMA SlotsLoop ==
  ASSUME TypeInv, SlotInv, NEW c \in Coordinators, NEW delta \in {-1, 0, 1}, NEW p,
         SlotMove(c, delta, p)
  PROVE  SlotInv'
<1> USE DEF SlotMove, InTx
<1> SUFFICES ASSUME NEW d \in Coordinators
             PROVE  /\ nowExecutions'[d] = Cardinality(OwnedBy(d))
                         + (IF loop'[d] \in {"select", "selected"} THEN 1 ELSE 0)
                    /\ nowExecutions'[d] \in 0 .. MaxConcurrency
                    /\ loop'[d] = "begin" => nowExecutions'[d] # MaxConcurrency
  BY DEF SlotInv, SlotsCountAttempts, SlotsKept, OwnedBy
<1>1. /\ nowExecutions[d] = Cardinality(OwnedBy(d))
            + (IF loop[d] \in {"select", "selected"} THEN 1 ELSE 0)
      /\ nowExecutions[d] \in 0 .. MaxConcurrency
      /\ loop[d] = "begin" => nowExecutions[d] # MaxConcurrency
  BY DEF SlotInv, SlotsCountAttempts, SlotsKept, OwnedBy
<1>2. Cardinality(OwnedBy(d)) \in Nat
  BY OwnedFinite
<1>3. CASE d = c
  <2>1. nowExecutions'[d] = nowExecutions[d] + delta /\ loop'[d] = p
    BY <1>3 DEF TypeInv, TypeOK
  <2> QED
    BY <1>1, <1>2, <1>3, <2>1, BoundsAssumption
<1>4. CASE d # c
  BY <1>1, <1>4 DEF TypeInv, TypeOK
<1> QED
  BY <1>3, <1>4

\* Every step of the loop before and after scheduleGraph is such a move.
LEMMA SlotsOutside ==
  ASSUME TypeInv, SlotInv, Outside
  PROVE  SlotInv'
<1>0. UNCHANGED <<alive, owner>>
  BY OutsideFrame
<1>1. ASSUME NEW c \in Coordinators, BeginTx(c) PROVE SlotInv'
  <2>1. SlotMove(c, 1, "select")
    BY <1>0, <1>1 DEF SlotMove, InTx, BeginTx
  <2> QED
    BY <2>1, SlotsLoop
<1>2. ASSUME NEW c \in Coordinators, SelectNone(c) \/ AbortScheduling(c) PROVE SlotInv'
  <2>1. SlotMove(c, -1, "idle")
    BY <1>0, <1>2 DEF SlotMove, InTx, SelectNone, AbortScheduling, EndTx
  <2> QED
    BY <2>1, SlotsLoop
<1>3. ASSUME NEW c \in Coordinators, Select(c) PROVE SlotInv'
  <2>1. SlotMove(c, 0, "selected")
    BY <1>0, <1>3 DEF SlotMove, InTx, Select, TypeInv, TypeOK
  <2> QED
    BY <2>1, SlotsLoop
<1>4. ASSUME NEW c \in Coordinators, Commit(c) \/ CommitFails(c) PROVE SlotInv'
  <2>1. SlotMove(c, 0, "idle")
    BY <1>0, <1>4 DEF SlotMove, InTx, Commit, CommitFails, EndTx
  <2> QED
    BY <2>1, SlotsLoop
<1>5. ASSUME NEW c \in Coordinators, Tick(c) PROVE SlotInv'
  <2>1. SlotMove(c, 0, "begin")
    BY <1>0, <1>5 DEF SlotMove, InTx, Tick, HasSlot, TypeInv, TypeOK
  <2> QED
    BY <2>1, SlotsLoop
<1>6. ASSUME NEW c \in Coordinators, BeginTxFails(c) PROVE SlotInv'
  <2>1. SlotMove(c, 0, "idle")
    BY <1>0, <1>6 DEF SlotMove, InTx, BeginTxFails, EndTx
  <2> QED
    BY <2>1, SlotsLoop
<1>7. CASE Environment
  BY <1>7 DEF Environment, Execute, RetryAfterElapses, SlotInv, SlotsCountAttempts, SlotsKept
<1> QED
  BY <1>1, <1>2, <1>3, <1>4, <1>5, <1>6, <1>7 DEF Outside

\* The slot taken at the begin of the transaction becomes the new attempt's.
LEMMA SlotsStart ==
  ASSUME TypeInv, SlotInv, NEW c \in Coordinators, StartExecution(c)
  PROVE  SlotInv'
<1>1. PICK n \in Attempts \ alive : n = built + 1
  BY BoundsAssumption DEF StartExecution, Attempts, TypeInv, TypeOK, Blank
<1>2. /\ alive' = alive \cup {n} /\ owner' = [owner EXCEPT ![n] = c] /\ nowExecutions' = nowExecutions
      /\ loop[c] = "selected" /\ loop' = [loop EXCEPT ![c] = "scheduling"]
  BY <1>1 DEF StartExecution
<1> SUFFICES ASSUME NEW d \in Coordinators
             PROVE  nowExecutions'[d] = Cardinality(OwnedBy(d)')
                         + (IF loop'[d] \in {"select", "selected"} THEN 1 ELSE 0)
  <2>1. SlotsKept'
    BY <1>2 DEF SlotInv, SlotsKept, TypeInv, TypeOK
  <2> QED
    BY <2>1 DEF SlotInv, SlotsCountAttempts, OwnedBy
<1>3. nowExecutions[d] = Cardinality(OwnedBy(d))
            + (IF loop[d] \in {"select", "selected"} THEN 1 ELSE 0)
  BY DEF SlotInv, SlotsCountAttempts, OwnedBy
<1>4. IsFiniteSet(OwnedBy(d)) /\ Cardinality(OwnedBy(d)) \in Nat /\ n \notin OwnedBy(d)
  BY <1>1, OwnedFinite DEF OwnedBy
<1>5. CASE d = c
  <2>1. OwnedBy(d)' = OwnedBy(d) \cup {n}
    BY <1>1, <1>2, <1>5 DEF OwnedBy, TypeInv, TypeOK
  <2>2. Cardinality(OwnedBy(d)') = Cardinality(OwnedBy(d)) + 1
    BY <1>4, <2>1, FS_AddElement
  <2>3. loop[d] = "selected" /\ loop'[d] = "scheduling"
    BY <1>2, <1>5 DEF TypeInv, TypeOK
  <2> QED
    BY <1>2, <1>3, <1>4, <2>2, <2>3
<1>6. CASE d # c
  <2>1. OwnedBy(d)' = OwnedBy(d)
    BY <1>1, <1>2, <1>6 DEF OwnedBy, TypeInv, TypeOK
  <2>2. loop[d] = loop'[d]
    BY <1>2, <1>6 DEF TypeInv, TypeOK
  <2> QED
    BY <1>2, <1>3, <2>1, <2>2
<1> QED
  BY <1>5, <1>6

\* A restart drops the counter with the attempts it counts.
LEMMA SlotsCrash ==
  ASSUME TypeInv, SlotInv, NEW c \in Coordinators, CrashRestart(c)
  PROVE  SlotInv'
<1>1. /\ alive' = alive \ OwnedBy(c) /\ owner' = owner
      /\ nowExecutions' = [nowExecutions EXCEPT ![c] = @ + (- nowExecutions[c])]
      /\ loop' = [loop EXCEPT ![c] = "idle"]
  BY DEF CrashRestart, EndTx, OwnedBy
<1> SUFFICES ASSUME NEW d \in Coordinators
             PROVE  /\ nowExecutions'[d] = Cardinality(OwnedBy(d)')
                         + (IF loop'[d] \in {"select", "selected"} THEN 1 ELSE 0)
                    /\ nowExecutions'[d] \in 0 .. MaxConcurrency
                    /\ loop'[d] = "begin" => nowExecutions'[d] # MaxConcurrency
  BY DEF SlotInv, SlotsCountAttempts, SlotsKept, OwnedBy
<1>2. CASE d = c
  <2>1. OwnedBy(d)' = {}
    BY <1>1, <1>2 DEF OwnedBy
  <2>2. nowExecutions'[d] = 0 /\ loop'[d] = "idle"
    BY <1>1, <1>2 DEF TypeInv, TypeOK
  <2> QED
    BY <2>1, <2>2, FS_EmptySet, BoundsAssumption
<1>3. CASE d # c
  <2>1. OwnedBy(d)' = OwnedBy(d)
    BY <1>1, <1>3 DEF OwnedBy
  <2>2. nowExecutions'[d] = nowExecutions[d] /\ loop'[d] = loop[d]
    BY <1>1, <1>3 DEF TypeInv, TypeOK
  <2> QED
    BY <2>1, <2>2 DEF SlotInv, SlotsCountAttempts, SlotsKept, OwnedBy
<1> QED
  BY <1>2, <1>3

\* nowExecutions counts the attempts of the process, and stays within the limit.
LEMMA SlotInvariant == Spec => []SlotInv
<1>1. Init => SlotInv
  <2> SUFFICES ASSUME Init, NEW c \in Coordinators
               PROVE  /\ nowExecutions[c] = Cardinality(OwnedBy(c))
                         + (IF loop[c] \in {"select", "selected"} THEN 1 ELSE 0)
                      /\ nowExecutions[c] \in 0 .. MaxConcurrency
                      /\ loop[c] # "begin"
    BY DEF SlotInv, SlotsCountAttempts, SlotsKept, OwnedBy
  <2>1. OwnedBy(c) = {}
    BY DEF Init, OwnedBy
  <2> QED
    BY <2>1, FS_EmptySet, BoundsAssumption DEF Init
<1>2. TypeInv /\ SlotInv /\ [Next]_vars => SlotInv'
  <2> SUFFICES ASSUME TypeInv, SlotInv, [Next]_vars PROVE SlotInv'
    OBVIOUS
  <2>1. UNCHANGED <<loop, nowExecutions, alive, owner>> => SlotInv'
    BY DEF SlotInv, SlotsCountAttempts, SlotsKept
  <2>2. ASSUME NEW a \in Attempts, NEW t \in Threads,
               PickSteps(a, t) \/ CreateJob(a, t) \/ DropStep(a, t) \/ RecordJob(a, t)
        PROVE  UNCHANGED <<loop, nowExecutions, alive, owner>>
    BY <2>2 DEF PickSteps, CreateJob, DropStep, RecordJob
  <2>3. ASSUME NEW a \in Attempts, NEW i \in StepIndex, Callback(a, i)
        PROVE  UNCHANGED <<loop, nowExecutions, alive, owner>>
    BY <2>3, CallbackFrame
  <2>4. UNCHANGED vars => UNCHANGED <<loop, nowExecutions, alive, owner>>
    BY DEF vars
  <2> QED
    BY <2>1, <2>2, <2>3, <2>4, SlotsOutside, SlotsStart, SlotsCrash, StepCases
<1> QED
  BY <1>1, <1>2, TypeInvariant, PTL DEF Spec

\* A slot belongs to an attempt of the process or to its open transaction: none is
\* lost by an error path and none is given back twice, a failed commit included.
THEOREM SlotsAlways == Spec => []SlotsCountAttempts
  BY SlotInvariant, PTL DEF SlotInv

\* No interleaving of a coordinator's loop, callbacks, failures and restarts takes
\* its process past MaxConcurrency attempts.
THEOREM AttemptsWithinLimitAlways == Spec => []AttemptsWithinLimit
<1>1. TypeInv /\ SlotInv => AttemptsWithinLimit
  <2> SUFFICES ASSUME TypeInv, SlotInv, NEW c \in Coordinators
               PROVE  Cardinality(OwnedBy(c)) <= MaxConcurrency
    BY DEF AttemptsWithinLimit, OwnedBy
  <2>1. /\ nowExecutions[c] = Cardinality(OwnedBy(c))
            + (IF loop[c] \in {"select", "selected"} THEN 1 ELSE 0)
        /\ nowExecutions[c] \in 0 .. MaxConcurrency
    BY DEF SlotInv, SlotsCountAttempts, SlotsKept, OwnedBy
  <2>2. Cardinality(OwnedBy(c)) \in Nat
    BY OwnedFinite
  <2> QED
    BY <2>1, <2>2, BoundsAssumption
<1> QED
  BY <1>1, TypeInvariant, SlotInvariant, PTL

-----------------------------------------------------------------------------
(***************************************************************************)
(* What "finish" means.                                                    *)
(***************************************************************************)

AboutToFinish(a) == finishes[a] > 0 \/ \E i \in StepIndex : pc[a][i] = "finish"

FinishInv ==
  /\ \A a \in alive : AboutToFinish(a) => picked[a] = Length[exec[a]]
  /\ \A a \in Attempts \ (1 .. built) : finishes[a] = 0

\* A step of attempt a keeps FinishInv if a, when about to finish, has picked all.
LEMMA FinishFrame ==
  ASSUME TypeInv, FinishInv, UNCHANGED <<alive, built, finishes, exec>>,
         NEW a \in Attempts, \A b \in Attempts \ {a} : picked'[b] = picked[b] /\ pc'[b] = pc[b],
         a \in alive /\ AboutToFinish(a)' => picked'[a] = Length[exec[a]]
  PROVE  FinishInv'
<1>1. ASSUME NEW b \in alive PROVE AboutToFinish(b)' => picked'[b] = Length[exec[b]]
  <2>1. CASE b = a
    BY <2>1
  <2>2. CASE b # a
    <3>1. b \in Attempts \ {a}
      BY <2>2 DEF TypeInv, TypeOK
    <3> QED
      BY <3>1 DEF FinishInv, AboutToFinish
  <2> QED
    BY <2>1, <2>2
<1> QED
  BY <1>1 DEF FinishInv

\* FinishInv is kept by every step: a callback sends "finish" after IsDone only,
\* and lastPickedStep never goes back.
LEMMA FinishStep ==
  ASSUME TypeInv, FinishInv, [Next]_vars
  PROVE  FinishInv'
<1>1. UNCHANGED <<alive, built, finishes, exec, picked, pc>> => FinishInv'
  BY DEF FinishInv, AboutToFinish
<1>2. ASSUME NEW c \in Coordinators, StartExecution(c) PROVE FinishInv'
  <2>1. PICK n \in Attempts \ alive : n = built + 1
    BY <1>2, BoundsAssumption DEF StartExecution, Attempts, TypeInv, TypeOK, Blank
  <2>2. /\ alive' = alive \cup {n} /\ built' = built + 1 /\ UNCHANGED <<finishes, picked>>
        /\ \A a \in alive : exec'[a] = exec[a]
        /\ \A a \in Attempts : \A i \in StepIndex : pc'[a][i] = pc[a][i]
    BY <1>2, <2>1 DEF StartExecution, TypeInv, TypeOK, Root, StepIndex, Threads
  <2>3. ~ AboutToFinish(n)'
    <3>1. finishes[n] = 0
      BY <2>1 DEF FinishInv, TypeInv, TypeOK, Attempts
    <3>2. \A i \in StepIndex : pc[n][i] = "none"
      BY <2>1 DEF TypeInv, Blank, Threads
    <3> QED
      BY <2>2, <3>1, <3>2 DEF AboutToFinish
  <2>4. \A a \in alive : AboutToFinish(a)' => AboutToFinish(a)
    BY <2>2 DEF AboutToFinish, TypeInv, TypeOK
  <2>5. 1 .. built \subseteq 1 .. built'
    BY <2>2, BoundsAssumption DEF TypeInv, TypeOK
  <2> QED
    BY <2>1, <2>2, <2>3, <2>4, <2>5 DEF FinishInv
<1>3. ASSUME NEW c \in Coordinators, CrashRestart(c) PROVE FinishInv'
  <2>1. /\ alive' \subseteq alive /\ alive \subseteq Attempts /\ UNCHANGED <<built, exec, finishes>>
        /\ \A a \in alive' : picked'[a] = picked[a] /\ pc'[a] = pc[a]
    BY <1>3 DEF CrashRestart, TypeInv, TypeOK
  <2> QED
    BY <2>1 DEF FinishInv, AboutToFinish
<1>4. ASSUME NEW a \in Attempts, NEW t \in Threads, PickSteps(a, t) PROVE FinishInv'
  <2>1. PICK q \in picked[a] .. Length[exec[a]], w \in {"end", "create"} :
          picked' = [picked EXCEPT ![a] = q] /\ pc' = [pc EXCEPT ![a][t] = w]
    BY <1>4 DEF PickSteps, GoTo
  <2>2. a \in alive /\ UNCHANGED <<alive, built, finishes, exec>>
    BY <1>4 DEF PickSteps, At
  <2>3. AboutToFinish(a)' => AboutToFinish(a)
    BY <2>1, <2>2 DEF AboutToFinish, TypeInv, TypeOK
  <2>4. AboutToFinish(a) => q = Length[exec[a]] /\ picked'[a] = q
    <3>1. picked[a] \in Int /\ Length[exec[a]] \in Int
      BY <2>2, GraphAssumption DEF TypeInv, TypeOK, Targets
    <3>2. picked'[a] = q
      BY <2>1 DEF TypeInv, TypeOK
    <3> QED
      BY <2>1, <2>2, <3>1, <3>2 DEF FinishInv
  <2> QED
    BY <2>1, <2>2, <2>3, <2>4, FinishFrame DEF TypeInv, TypeOK
<1>5. ASSUME NEW a \in Attempts, NEW t \in Threads, CreateJob(a, t) \/ DropStep(a, t) \/ RecordJob(a, t)
      PROVE  FinishInv'
  <2>1. a \in alive /\ UNCHANGED <<alive, built, finishes, exec, picked>>
    BY <1>5 DEF CreateJob, DropStep, RecordJob, At
  <2>2. AboutToFinish(a)' => AboutToFinish(a)
    <3>1. \A i \in StepIndex : pc'[a][i] = "finish" => pc[a][i] = "finish"
      <4>1. CASE CreateJob(a, t)
        BY <4>1 DEF CreateJob, TypeInv, TypeOK, Threads
      <4>2. CASE DropStep(a, t)
        BY <4>2 DEF DropStep, AfterStep, TypeInv, TypeOK, Threads
      <4>3. CASE RecordJob(a, t)
        BY <4>3 DEF RecordJob, GoTo, AfterStep, TypeInv, TypeOK, Threads
      <4> QED
        BY <1>5, <4>1, <4>2, <4>3
    <3> QED
      BY <2>1, <3>1 DEF AboutToFinish
  <2>3. \A b \in Attempts \ {a} : pc'[b] = pc[b]
    BY <1>5 DEF CreateJob, DropStep, RecordJob, GoTo, TypeInv, TypeOK
  <2> QED
    BY <2>1, <2>2, <2>3, FinishFrame DEF FinishInv
<1>6. ASSUME NEW a \in Attempts, NEW i \in StepIndex, Callback(a, i) PROVE FinishInv'
  <2>1. a \in alive /\ UNCHANGED <<alive, built, exec, picked>>
    BY <1>6, CallbackFrame
  <2>2. \A b \in Attempts \ {a} : pc'[b] = pc[b] /\ finishes'[b] = finishes[b]
    BY <1>6 DEF Callback, ReportResult, LoseResult, DoneStep, CheckDone, SendFinish,
                LoseFinish, GoTo, TypeInv, TypeOK
  <2>3. AboutToFinish(a)' => AboutToFinish(a) \/ IsDone(a)
    <3>1. CASE ReportResult(a, i) \/ LoseResult(a, i) \/ DoneStep(a, i)
      BY <3>1 DEF ReportResult, LoseResult, DoneStep, At, GoTo, AboutToFinish, TypeInv, TypeOK, Threads
    <3>2. CASE CheckDone(a, i)
      BY <3>2 DEF CheckDone, At, GoTo, AboutToFinish, TypeInv, TypeOK, Threads
    <3>3. CASE SendFinish(a, i) \/ LoseFinish(a, i)
      BY <3>3 DEF SendFinish, LoseFinish, At, AboutToFinish
    <3> QED
      BY <1>6, <3>1, <3>2, <3>3 DEF Callback
  <2>4. a \in 1 .. built
    BY <2>1 DEF TypeInv, Blank
  <2>5. ASSUME NEW b \in alive', AboutToFinish(b)' PROVE picked'[b] = Length[exec'[b]]
    <3>1. b \in alive /\ b \in Attempts /\ picked' = picked /\ exec' = exec
      BY <2>1 DEF TypeInv, TypeOK
    <3>2. CASE b = a
      BY <2>3, <2>5, <3>1, <3>2 DEF FinishInv, IsDone
    <3>3. CASE b # a
      <4>1. AboutToFinish(b)
        BY <2>2, <2>5, <3>1, <3>3 DEF AboutToFinish
      <4> QED
        BY <3>1, <4>1 DEF FinishInv
    <3> QED
      BY <3>2, <3>3
  <2>6. \A b \in Attempts \ (1 .. built') : finishes'[b] = 0
    BY <2>1, <2>2, <2>4 DEF FinishInv
  <2> QED
    BY <2>5, <2>6 DEF FinishInv
<1>7. UNCHANGED vars => FinishInv'
  BY <1>1 DEF vars
<1>8. Outside => FinishInv'
  BY <1>1, OutsideFrame
<1> QED
  BY <1>2, <1>3, <1>4, <1>5, <1>6, <1>7, <1>8, StepCases

\* What is known of an attempt that was declared finished.
THEOREM FinishInvariant == Spec => []FinishInv
<1>1. Init => FinishInv
  BY DEF Init, FinishInv
<1>2. TypeInv /\ FinishInv /\ [Next]_vars => FinishInv'
  BY FinishStep
<1> QED
  BY <1>1, <1>2, TypeInvariant, PTL DEF Spec
-----------------------------------------------------------------------------
(***************************************************************************)
(* An attempt that stands still.                                           *)
(***************************************************************************)

\* If the next step can be picked, somebody is about to: whoever marked the last of
\* its dependencies done still has IsDone and PickSteps before him.
Woken(a) ==
  picked[a] < Length[exec[a]] /\ CanPick(a, picked[a] + 1) =>
    \E t \in Threads : pc[a][t] \in {"pick", "isDone"}

ReportedDone(a) == \A i \in StepIndex : pc[a][i] \in AfterDone => i \in done[a]

\* The callback of the last step in the order has nothing to pick and sends "finish".
LastFinishes(a) ==
  picked[a] = Length[exec[a]] /\ picked[a] > 0 =>
    /\ pc[a][picked[a]] \notin {"pick", "create", "record"}
    /\ pc[a][picked[a]] = "end" => finishes[a] > 0 \/ "send" \in Faults

StillInv == \A a \in alive : Woken(a) /\ ReportedDone(a) /\ LastFinishes(a)

\* StillInv is about the graph, the threads and the finish messages of each attempt.
LEMMA StillElsewhere ==
  ASSUME StillInv, NEW b \in alive, exec'[b] = exec[b], picked'[b] = picked[b],
         done'[b] = done[b], pc'[b] = pc[b], finishes'[b] = finishes[b]
  PROVE  Woken(b)' /\ ReportedDone(b)' /\ LastFinishes(b)'
<1>1. Woken(b) /\ ReportedDone(b) /\ LastFinishes(b)
  BY DEF StillInv
<1>2. Woken(b)'
  BY <1>1 DEF Woken, CanPick
<1>3. ReportedDone(b)' /\ LastFinishes(b)'
  BY <1>1 DEF ReportedDone, LastFinishes
<1> QED
  BY <1>2, <1>3

LEMMA StillStart ==
  ASSUME TypeInv, StillInv, NEW c \in Coordinators, StartExecution(c)
  PROVE  StillInv'
<1>1. PICK n \in Attempts : n = built + 1 /\ n \notin alive
  BY BoundsAssumption DEF StartExecution, Attempts, TypeInv, TypeOK, Blank
<1>2. /\ alive' = alive \cup {n} /\ alive \subseteq Attempts /\ Root \in Threads /\ Root \notin StepIndex
      /\ UNCHANGED <<picked, done, finishes>>
      /\ pc' = [pc EXCEPT ![n][Root] = "pick"] /\ exec' = [exec EXCEPT ![n] = txExec[c]]
  BY <1>1 DEF StartExecution, TypeInv, TypeOK, Root, StepIndex, Threads
<1>3. /\ pc'[n][Root] = "pick" /\ picked'[n] = 0
      /\ \A i \in StepIndex : pc'[n][i] = "none"
      /\ \A b \in alive : pc'[b] = pc[b] /\ exec'[b] = exec[b]
  BY <1>1, <1>2 DEF TypeInv, TypeOK, Blank, Threads
<1>4. Woken(n)' /\ ReportedDone(n)' /\ LastFinishes(n)'
  BY <1>2, <1>3 DEF Woken, ReportedDone, LastFinishes, AfterDone, Threads, Root, StepIndex
<1>5. \A b \in alive : Woken(b)' /\ ReportedDone(b)' /\ LastFinishes(b)'
  BY <1>2, <1>3, StillElsewhere
<1> QED
  BY <1>2, <1>4, <1>5 DEF StillInv

LEMMA StillCrash ==
  ASSUME TypeInv, StillInv, NEW c \in Coordinators, CrashRestart(c)
  PROVE  StillInv'
<1>1. /\ alive' \subseteq alive /\ UNCHANGED <<exec, finishes>>
      /\ \A b \in alive' : picked'[b] = picked[b] /\ done'[b] = done[b] /\ pc'[b] = pc[b]
  BY DEF CrashRestart, TypeInv, TypeOK
<1>2. \A b \in alive' : Woken(b)' /\ ReportedDone(b)' /\ LastFinishes(b)'
  BY <1>1, StillElsewhere
<1> QED
  BY <1>2 DEF StillInv

\* Where one attempt alone changes, the others stand as before.
LEMMA StillHere ==
  ASSUME TypeInv, StillInv, UNCHANGED <<alive, exec>>, NEW a \in alive,
         \A b \in Attempts \ {a} :
           picked'[b] = picked[b] /\ done'[b] = done[b] /\ pc'[b] = pc[b] /\ finishes'[b] = finishes[b],
         Woken(a)', ReportedDone(a)', LastFinishes(a)'
  PROVE  StillInv'
<1>1. ASSUME NEW b \in alive, b # a PROVE Woken(b)' /\ ReportedDone(b)' /\ LastFinishes(b)'
  <2>1. b \in Attempts \ {a}
    BY <1>1 DEF TypeInv, TypeOK
  <2> QED
    BY <2>1, StillElsewhere
<1>2. ASSUME NEW b \in alive PROVE Woken(b)' /\ ReportedDone(b)' /\ LastFinishes(b)'
  <2>1. CASE b = a
    BY <2>1
  <2>2. CASE b # a
    BY <1>1, <2>2
  <2> QED
    BY <2>1, <2>2
<1> QED
  BY <1>2 DEF StillInv

\* PickSteps stops at a step that cannot be picked, or at the end.
LEMMA StillPick ==
  ASSUME TypeInv, GraphInv, StillInv, NEW a \in Attempts, NEW t \in Threads, PickSteps(a, t)
  PROVE  StillInv'
<1>1. a \in alive /\ pc[a][t] = "pick" /\ UNCHANGED <<alive, exec, done, finishes>>
  BY DEF PickSteps, At
<1>2. PICK q \in picked[a] .. Length[exec[a]], w \in {"end", "create"} :
        /\ q < Length[exec[a]] => ~ CanPick(a, q + 1)
        /\ picked' = [picked EXCEPT ![a] = q] /\ pc' = [pc EXCEPT ![a][t] = w]
  BY DEF PickSteps, GoTo
<1>3. /\ picked'[a] = q /\ pc'[a][t] = w /\ \A u \in Threads \ {t} : pc'[a][u] = pc[a][u]
      /\ \A b \in Attempts \ {a} : picked'[b] = picked[b] /\ pc'[b] = pc[b]
  BY <1>2 DEF TypeInv, TypeOK
<1>4. picked[a] \in Nat /\ q \in Nat /\ picked[a] <= q /\ q <= MaxSteps /\ Length[exec[a]] \in Nat
  BY <1>1, <1>2, GraphAssumption DEF TypeInv, TypeOK, Targets
<1>5. Woken(a)'
  BY <1>1, <1>2, <1>3 DEF Woken, CanPick
<1>6. Woken(a) /\ ReportedDone(a) /\ LastFinishes(a)
  BY <1>1 DEF StillInv
<1>7. ReportedDone(a)'
  BY <1>1, <1>3, <1>6 DEF ReportedDone, AfterDone, Threads
<1>8. LastFinishes(a)'
  <2> SUFFICES ASSUME q = Length[exec[a]], q > 0
               PROVE  /\ pc'[a][q] \notin {"pick", "create", "record"}
                      /\ pc'[a][q] = "end" => finishes[a] > 0 \/ "send" \in Faults
    BY <1>1, <1>3 DEF LastFinishes
  <2>1. q \in StepIndex /\ q \in Threads
    BY <1>4 DEF StepIndex, Threads
  <2>2. CASE q = picked[a]
    BY <1>1, <1>3, <1>6, <2>1, <2>2 DEF LastFinishes
  <2>3. CASE q # picked[a]
    <3>1. pc[a][q] = "none"
      BY <1>4, <2>1, <2>3 DEF GraphInv, Fresh
    <3> QED
      BY <1>1, <1>3, <2>1, <3>1
  <2> QED
    BY <2>2, <2>3
<1> QED
  BY <1>1, <1>3, <1>5, <1>7, <1>8, StillHere

\* A thread that is past PickSteps moves itself, and where a job was created or
\* not, the thread of the step it hands on.
LEMMA HandingMoves ==
  ASSUME TypeInv, GraphInv, NEW a \in alive, NEW t \in Threads,
         CreateJob(a, t) \/ DropStep(a, t) \/ RecordJob(a, t)
  PROVE  /\ UNCHANGED <<alive, built, exec, picked, done, finishes>>
         /\ \A b \in Attempts \ {a} : pc'[b] = pc[b]
         /\ \/ /\ pc[a][t] = "record" /\ pc'[a][t] \in {"create", "end"}
               /\ \A u \in Threads \ {t} : pc'[a][u] = pc[a][u]
            \/ /\ pc[a][t] = "create"
               /\ \E s \in StepIndex \ {t} :
                    /\ pc[a][s] = "none"
                    /\ \/ pc'[a][s] = "result" /\ pc'[a][t] = "record"
                       \/ pc'[a][s] = "dropped" /\ pc'[a][t] \in {"create", "end"}
                    /\ \A u \in Threads \ {s, t} : pc'[a][u] = pc[a][u]
<1> a \in Attempts
  BY DEF TypeInv, TypeOK
<1>1. UNCHANGED <<alive, built, exec, picked, done, finishes>>
  BY DEF CreateJob, DropStep, RecordJob
<1>2. CASE RecordJob(a, t)
  <2>1. PICK v \in {"create", "end"} : pc' = [pc EXCEPT ![a][t] = v]
    BY <1>2 DEF RecordJob, GoTo, AfterStep
  <2>2. pc[a][t] = "record"
    BY <1>2 DEF RecordJob, At
  <2>3. /\ pc'[a][t] = v /\ \A u \in Threads \ {t} : pc'[a][u] = pc[a][u]
        /\ \A b \in Attempts \ {a} : pc'[b] = pc[b]
    BY <2>1 DEF TypeInv, TypeOK
  <2> QED
    BY <1>1, <2>2, <2>3
<1>3. CASE CreateJob(a, t) \/ DropStep(a, t)
  <2>1. pc[a][t] = "create"
    BY <1>3 DEF CreateJob, DropStep, At
  <2>2. next[a][t] \in Todo(a, t)
    BY <2>1 DEF Todo, TypeInv, TypeOK, Slices
  <2>3. next[a][t] \in StepIndex
    BY <2>2, TodoInStepIndex
  <2>4. pc[a][next[a][t]] = "none" /\ next[a][t] # t /\ next[a][t] \in Threads
    BY <2>1, <2>2, <2>3 DEF GraphInv, HandledOnce, Threads
  <2>5. PICK s \in StepIndex \ {t}, w \in {"result", "dropped"}, v \in {"record", "create", "end"} :
          /\ pc[a][s] = "none" /\ (w = "result" <=> v = "record")
          /\ pc' = [pc EXCEPT ![a] = [@ EXCEPT ![s] = w, ![t] = v]]
    <3>1. next[a][t] \in StepIndex \ {t} /\ AfterStep(a, t) \in {"create", "end"}
      BY <2>3, <2>4 DEF AfterStep
    <3>2. CASE CreateJob(a, t)
      BY <2>4, <3>1, <3>2 DEF CreateJob
    <3>3. CASE DropStep(a, t)
      BY <2>4, <3>1, <3>3 DEF DropStep
    <3> QED
      BY <1>3, <3>2, <3>3
  <2>6. /\ pc'[a][t] = v /\ pc'[a][s] = w
        /\ \A u \in Threads \ {s, t} : pc'[a][u] = pc[a][u]
        /\ \A b \in Attempts \ {a} : pc'[b] = pc[b]
    BY <2>5 DEF TypeInv, TypeOK, Threads
  <2> QED
    BY <1>1, <2>1, <2>5, <2>6
<1> QED
  BY <1>2, <1>3

\* A thread that is past PickSteps hands its steps on: no wake-up depends on it.
LEMMA StillSchedule ==
  ASSUME TypeInv, GraphInv, StillInv, NEW a \in Attempts, NEW t \in Threads,
         CreateJob(a, t) \/ DropStep(a, t) \/ RecordJob(a, t)
  PROVE  StillInv'
<1>1. a \in alive /\ pc[a][t] \in {"create", "record"} /\ UNCHANGED <<alive, exec, picked, done, finishes>>
  BY DEF CreateJob, DropStep, RecordJob, At
<1>2. Woken(a) /\ ReportedDone(a) /\ LastFinishes(a)
  BY <1>1 DEF StillInv
<1>3. /\ pc'[a][t] \in {"create", "record", "end"}
      /\ \A u \in Threads \ {t} : \/ pc'[a][u] = pc[a][u]
                                  \/ /\ pc[a][u] = "none"
                                     /\ pc'[a][u] \in {"result", "dropped"}
      /\ \A b \in Attempts \ {a} : pc'[b] = pc[b]
  BY <1>1, HandingMoves
<1>4. Woken(a)'
  <2>1. \A u \in Threads : pc[a][u] \in {"pick", "isDone"} => pc'[a][u] \in {"pick", "isDone"}
    BY <1>1, <1>3
  <2> QED
    BY <1>1, <1>2, <2>1 DEF Woken, CanPick
<1>5. ReportedDone(a)'
  <2>1. \A u \in Threads : pc'[a][u] \in AfterDone => pc[a][u] \in AfterDone
    BY <1>1, <1>3 DEF AfterDone
  <2> QED
    BY <1>1, <1>2, <2>1 DEF ReportedDone, Threads
<1>6. LastFinishes(a)'
  <2> SUFFICES ASSUME picked[a] = Length[exec[a]], picked[a] > 0
               PROVE  /\ pc'[a][picked[a]] \notin {"pick", "create", "record"}
                      /\ pc'[a][picked[a]] = "end" => finishes[a] > 0 \/ "send" \in Faults
    BY <1>1 DEF LastFinishes
  <2>1. picked[a] \in Threads
    BY GraphAssumption DEF TypeInv, TypeOK, StepIndex, Threads
  <2>2. picked[a] # t
    BY <1>1, <1>2 DEF LastFinishes
  <2> QED
    BY <1>2, <1>3, <2>1, <2>2 DEF LastFinishes
<1> QED
  BY <1>1, <1>3, <1>4, <1>5, <1>6, StillHere

\* The callback of a step: it marks its step done first, and then looks.
LEMMA StillCallback ==
  ASSUME TypeInv, GraphInv, StillInv, NEW a \in Attempts, NEW i \in StepIndex, Callback(a, i)
  PROVE  StillInv'
<1>1. a \in alive /\ i \in Threads /\ UNCHANGED <<alive, exec, picked>>
  BY CallbackFrame DEF Threads
<1>2. Woken(a) /\ ReportedDone(a) /\ LastFinishes(a)
  BY <1>1 DEF StillInv
<1>3. /\ \A u \in Threads \ {i} : pc'[a][u] = pc[a][u]
      /\ \A b \in Attempts \ {a} : pc'[b] = pc[b] /\ done'[b] = done[b] /\ finishes'[b] = finishes[b]
  BY DEF Callback, ReportResult, LoseResult, DoneStep, CheckDone, SendFinish, LoseFinish, GoTo,
         TypeInv, TypeOK
<1>4. \/ /\ pc[a][i] = "result" /\ pc'[a][i] \in {"done", "lost"}
         /\ UNCHANGED <<done, finishes>>
      \/ /\ pc[a][i] = "done" /\ pc'[a][i] = "isDone"
         /\ done' = [done EXCEPT ![a] = @ \cup {i}] /\ UNCHANGED finishes
      \/ /\ pc[a][i] = "isDone"
         /\ pc'[a][i] = (IF picked[a] = Length[exec[a]] THEN "finish" ELSE "pick")
         /\ UNCHANGED <<done, finishes>>
      \/ /\ pc[a][i] = "finish" /\ pc'[a][i] = "end" /\ UNCHANGED done
         /\ \/ finishes' = [finishes EXCEPT ![a] = @ + 1]
            \/ "send" \in Faults /\ UNCHANGED finishes
  <2>1. \A w : GoTo(a, i, w) => pc'[a][i] = w
    BY <1>1 DEF GoTo, TypeInv, TypeOK
  <2>2. CASE ReportResult(a, i) \/ LoseResult(a, i)
    BY <2>1, <2>2 DEF ReportResult, LoseResult, At
  <2>3. CASE DoneStep(a, i)
    BY <2>1, <2>3 DEF DoneStep, At
  <2>4. CASE CheckDone(a, i)
    BY <2>1, <2>4 DEF CheckDone, At, IsDone
  <2>5. CASE SendFinish(a, i) \/ LoseFinish(a, i)
    BY <2>1, <2>5 DEF SendFinish, LoseFinish, At
  <2> QED
    BY <2>2, <2>3, <2>4, <2>5 DEF Callback
<1>5. done[a] \subseteq done'[a] /\ finishes[a] \in Nat /\ finishes'[a] \in Nat /\ finishes'[a] >= finishes[a]
  BY <1>4 DEF TypeInv, TypeOK
<1>6. Woken(a)'
  <2>1. CASE pc'[a][i] = "isDone"
    BY <1>1, <2>1 DEF Woken
  <2>2. CASE pc'[a][i] # "isDone"
    <3>1. done' = done
      BY <1>4, <2>2
    <3>2. CASE pc[a][i] = "isDone"
      <4>1. picked[a] = Length[exec[a]] \/ pc'[a][i] = "pick"
        BY <1>4, <3>2
      <4>2. CASE picked[a] = Length[exec[a]]
        BY <1>1, <4>2, GraphAssumption DEF Woken, TypeInv, TypeOK, Targets
      <4> QED
        BY <1>1, <4>1, <4>2 DEF Woken
    <3>3. CASE pc[a][i] # "isDone"
      <4>1. \A u \in Threads : pc[a][u] \in {"pick", "isDone"} => pc'[a][u] \in {"pick", "isDone"}
        BY <1>3, <1>4, <3>3
      <4> QED
        BY <1>1, <1>2, <3>1, <4>1 DEF Woken, CanPick
    <3> QED
      BY <3>2, <3>3
  <2> QED
    BY <2>1, <2>2
<1>7. ReportedDone(a)'
  <2> SUFFICES ASSUME NEW j \in StepIndex, pc'[a][j] \in AfterDone PROVE j \in done'[a]
    BY DEF ReportedDone
  <2>1. CASE j = i
    <3>1. pc[a][i] \in AfterDone \/ i \in done'[a]
      BY <1>1, <1>4, <2>1 DEF AfterDone, TypeInv, TypeOK
    <3> QED
      BY <1>2, <1>5, <2>1, <3>1 DEF ReportedDone
  <2>2. CASE j # i
    BY <1>2, <1>3, <1>5, <2>2 DEF ReportedDone, Threads
  <2> QED
    BY <2>1, <2>2
<1>8. LastFinishes(a)'
  <2> SUFFICES ASSUME picked[a] = Length[exec[a]], picked[a] > 0
               PROVE  /\ pc'[a][picked[a]] \notin {"pick", "create", "record"}
                      /\ pc'[a][picked[a]] = "end" => finishes'[a] > 0 \/ "send" \in Faults
    BY <1>1 DEF LastFinishes
  <2>1. CASE picked[a] = i
    <3>1. finishes' = [finishes EXCEPT ![a] = @ + 1] => finishes'[a] > 0
      BY DEF TypeInv, TypeOK
    <3> QED
      BY <1>4, <2>1, <3>1
  <2>2. CASE picked[a] # i
    <3>1. picked[a] \in Threads
      BY GraphAssumption DEF TypeInv, TypeOK, StepIndex, Threads
    <3>2. pc'[a][picked[a]] = pc[a][picked[a]]
      BY <1>3, <2>2, <3>1
    <3> QED
      BY <1>2, <1>5, <3>2 DEF LastFinishes
  <2> QED
    BY <2>1, <2>2
<1> QED
  BY <1>1, <1>3, <1>6, <1>7, <1>8, StillHere

\* Whoever makes a step ready comes to pick it, and the last callback finishes.
THEOREM StillInvariant == Spec => []StillInv
<1>1. Init => StillInv
  BY DEF Init, StillInv
<1>2. TypeInv /\ GraphInv /\ StillInv /\ [Next]_vars => StillInv'
  <2> SUFFICES ASSUME TypeInv, GraphInv, StillInv, [Next]_vars PROVE StillInv'
    OBVIOUS
  <2>1. UNCHANGED <<alive, exec, picked, done, pc, finishes>> => StillInv'
    BY StillElsewhere DEF StillInv
  <2>2. UNCHANGED vars => StillInv'
    BY <2>1 DEF vars
  <2>3. Outside => StillInv'
    BY <2>1, OutsideFrame
  <2> QED
    BY <2>2, <2>3, StillStart, StillCrash, StillPick, StillSchedule, StillCallback, StepCases
<1> QED
  BY <1>1, <1>2, TypeInvariant, GraphInvariant, PTL DEF Spec

\* However the callbacks interleave their DoneStep, IsDone and PickSteps, no wake-up is
\* missed: an attempt in whose order every step stands after its dependencies comes to a
\* standstill only with a step dropped or lost, or with all steps done and "finish" sent.
THEOREM StandstillAlways == Spec => []StandstillMeansFinished
<1>1. TypeInv /\ GraphInv /\ StillInv => StandstillMeansFinished
  <2> SUFFICES ASSUME TypeInv, GraphInv, StillInv, NEW a \in alive, Length[exec[a]] > 0,
                      Ordered(exec[a]), ~ InProgress(a), ~ Blocked(a)
               PROVE  /\ done[a] = 1 .. Length[exec[a]]
                      /\ finishes[a] > 0 \/ "send" \in Faults
    BY DEF StandstillMeansFinished
  <2>1. /\ a \in Attempts /\ picked[a] \in Nat /\ Length[exec[a]] \in Nat
        /\ picked[a] <= Length[exec[a]] /\ Length[exec[a]] <= MaxSteps /\ MaxSteps \in Nat
    BY GraphAssumption DEF TypeInv, TypeOK, Targets
  <2>2. \A i \in 1 .. picked[a] : i \in StepIndex /\ i \in Threads
    BY <2>1 DEF StepIndex, Threads
  <2>3. \A t \in Threads : Todo(a, t) = {} /\ pc[a][t] \notin {"pick", "isDone"}
    BY DEF InProgress, Todo
  <2>4. ASSUME NEW i \in 1 .. picked[a] PROVE pc[a][i] = "end" /\ i \in done[a]
    <3>1. pc[a][i] # "none"
      BY <2>3 DEF GraphInv, NothingForgotten
    <3>2. pc[a][i] = "end"
      BY <2>2, <3>1 DEF InProgress, Blocked
    <3> QED
      BY <2>2, <3>2 DEF StillInv, ReportedDone, AfterDone
  <2>5. picked[a] = Length[exec[a]]
    <3> SUFFICES ASSUME picked[a] < Length[exec[a]] PROVE FALSE
      BY <2>1
    <3>1. picked[a] + 1 \in 1 .. Length[exec[a]] /\ (picked[a] + 1) - 1 = picked[a]
      BY <2>1
    <3>2. Deps[exec[a]][picked[a] + 1] \subseteq 1 .. picked[a]
      BY <3>1 DEF Ordered
    <3>3. CanPick(a, picked[a] + 1)
      BY <2>4, <3>2 DEF CanPick
    <3> QED
      BY <2>3, <3>3 DEF StillInv, Woken
  <2>6. done[a] \subseteq 1 .. picked[a]
    <3> SUFFICES ASSUME NEW i \in done[a] PROVE i \in 1 .. picked[a]
      OBVIOUS
    <3>1. i \in StepIndex /\ pc[a][i] # "none"
      BY <2>1 DEF GraphInv, DoneReported, AfterDone, TypeInv, TypeOK
    <3> QED
      BY <2>1, <3>1 DEF GraphInv, Fresh, StepIndex
  <2>7. pc[a][picked[a]] = "end" /\ picked[a] > 0
    BY <2>1, <2>4, <2>5
  <2>8. finishes[a] > 0 \/ "send" \in Faults
    BY <2>5, <2>7 DEF StillInv, LastFinishes
  <2> QED
    BY <2>4, <2>5, <2>6, <2>8
<1> QED
  BY <1>1, TypeInvariant, GraphInvariant, StillInvariant, PTL
-----------------------------------------------------------------------------
(***************************************************************************)
(* How many "finish" messages there are.                                   *)
(***************************************************************************)

\* The steps whose callback ran to its end.
Ended(a) == {i \in StepIndex : pc[a][i] = "end"}

CountInv == \A a \in alive : finishes[a] <= Cardinality(Ended(a))

LEMMA StepsFinite ==
  ASSUME NEW S \in SUBSET StepIndex
  PROVE  IsFiniteSet(S) /\ Cardinality(S) \in Nat
<1>1. IsFiniteSet(StepIndex)
  BY GraphAssumption, FS_Interval DEF StepIndex
<1>2. IsFiniteSet(S)
  BY <1>1, FS_Subset
<1> QED
  BY <1>2, FS_CardinalityType

LEMMA EndedFinite ==
  ASSUME NEW a
  PROVE  /\ IsFiniteSet(Ended(a)) /\ Cardinality(Ended(a)) \in Nat
         /\ IsFiniteSet(Ended(a)') /\ Cardinality(Ended(a)') \in Nat
<1>1. Ended(a) \in SUBSET StepIndex /\ Ended(a)' \in SUBSET StepIndex
  BY DEF Ended
<1> QED
  BY <1>1, StepsFinite

\* An attempt that is sent no "finish" keeps its count, as long as what has ended
\* stays so.
LEMMA CountStays ==
  ASSUME CountInv, NEW a \in alive, finishes'[a] = finishes[a], finishes[a] \in Nat,
         \A i \in StepIndex : pc[a][i] = "end" => pc'[a][i] = "end"
  PROVE  finishes'[a] <= Cardinality(Ended(a)')
<1>1. Ended(a) \subseteq Ended(a)'
  BY DEF Ended
<1>2. Cardinality(Ended(a)) <= Cardinality(Ended(a)')
  BY <1>1, EndedFinite, FS_Subset
<1> QED
  BY <1>2, EndedFinite DEF CountInv

\* "finish" is the last thing a callback does.
LEMMA CountCallback ==
  ASSUME TypeInv, CountInv, NEW a \in Attempts, NEW i \in StepIndex, Callback(a, i)
  PROVE  CountInv'
<1>1. a \in alive /\ alive' = alive /\ i \in Threads /\ alive \subseteq Attempts
  BY CallbackFrame DEF Threads, TypeInv, TypeOK
<1>2. /\ \A u \in Threads \ {i} : pc'[a][u] = pc[a][u]
      /\ \A b \in Attempts \ {a} : pc'[b] = pc[b] /\ finishes'[b] = finishes[b]
      /\ \A b \in Attempts : finishes[b] \in Nat
  BY DEF Callback, ReportResult, LoseResult, DoneStep, CheckDone, SendFinish, LoseFinish, GoTo,
         TypeInv, TypeOK
<1>3. ASSUME NEW b \in alive, b # a PROVE finishes'[b] <= Cardinality(Ended(b)')
  BY <1>1, <1>2, <1>3, CountStays
<1>4. finishes'[a] <= Cardinality(Ended(a)')
  <2>1. CASE SendFinish(a, i)
    <3>1. /\ pc[a][i] = "finish" /\ pc'[a][i] = "end" /\ finishes'[a] = finishes[a] + 1
      BY <1>1, <1>2, <2>1 DEF SendFinish, At, GoTo, TypeInv, TypeOK
    <3>2. Ended(a)' = Ended(a) \cup {i} /\ i \notin Ended(a)
      BY <1>1, <1>2, <3>1 DEF Ended, Threads
    <3>3. Cardinality(Ended(a)') = Cardinality(Ended(a)) + 1
      BY <3>2, EndedFinite, FS_AddElement
    <3> QED
      BY <1>1, <1>2, <3>1, <3>3, EndedFinite DEF CountInv
  <2>2. CASE ~ SendFinish(a, i)
    <3>1. finishes'[a] = finishes[a] /\ pc[a][i] # "end"
      BY <2>2 DEF Callback, ReportResult, LoseResult, DoneStep, CheckDone, LoseFinish, At
    <3> QED
      BY <1>1, <1>2, <3>1, CountStays DEF Threads
  <2> QED
    BY <2>1, <2>2
<1> QED
  BY <1>1, <1>3, <1>4 DEF CountInv

\* Each "finish" is another callback's.
THEOREM CountInvariant == Spec => []CountInv
<1>1. Init => CountInv
  BY DEF Init, CountInv
<1>2. TypeInv /\ GraphInv /\ FinishInv /\ CountInv /\ [Next]_vars => CountInv'
  <2> SUFFICES ASSUME TypeInv, GraphInv, FinishInv, CountInv, [Next]_vars PROVE CountInv'
    OBVIOUS
  <2>1. alive \subseteq Attempts /\ \A b \in Attempts : finishes[b] \in Nat
    BY DEF TypeInv, TypeOK
  <2>2. UNCHANGED <<alive, pc, finishes>> => CountInv'
    BY DEF CountInv, Ended
  <2>3. UNCHANGED vars => CountInv'
    BY <2>2 DEF vars
  <2>4. Outside => CountInv'
    BY <2>2, OutsideFrame
  <2>5. ASSUME NEW c \in Coordinators, StartExecution(c) PROVE CountInv'
    <3>1. PICK n \in Attempts : n = built + 1 /\ n \notin alive
      BY <2>5, BoundsAssumption DEF StartExecution, Attempts, TypeInv, TypeOK, Blank
    <3>2. /\ alive' = alive \cup {n} /\ finishes' = finishes
          /\ \A b \in Attempts, i \in StepIndex : pc'[b][i] = pc[b][i]
      BY <2>5, <3>1 DEF StartExecution, TypeInv, TypeOK, Root, StepIndex, Threads
    <3>3. finishes'[n] <= Cardinality(Ended(n)')
      <4>1. finishes'[n] = 0
        BY <3>1, <3>2 DEF FinishInv, TypeInv, TypeOK, Attempts
      <4>2. Cardinality(Ended(n)') \in Nat
        BY EndedFinite
      <4> QED
        BY <4>1, <4>2
    <3> QED
      BY <2>1, <3>2, <3>3, CountStays DEF CountInv
  <2>6. ASSUME NEW c \in Coordinators, CrashRestart(c) PROVE CountInv'
    <3>1. alive' \subseteq alive /\ finishes' = finishes /\ \A b \in alive' : pc'[b] = pc[b]
      BY <2>6 DEF CrashRestart, TypeInv, TypeOK
    <3> QED
      BY <2>1, <3>1, CountStays DEF CountInv
  <2>7. ASSUME NEW a \in Attempts, NEW t \in Threads, PickSteps(a, t) PROVE CountInv'
    <3>1. /\ UNCHANGED <<alive, finishes>> /\ pc[a][t] = "pick"
          /\ \E w \in {"end", "create"} : pc' = [pc EXCEPT ![a][t] = w]
      BY <2>7 DEF PickSteps, At, GoTo
    <3>2. \A b \in Attempts, i \in StepIndex : pc[b][i] = "end" => pc'[b][i] = "end"
      BY <3>1 DEF TypeInv, TypeOK, Threads
    <3> QED
      BY <2>1, <3>1, <3>2, CountStays DEF CountInv
  <2>8. ASSUME NEW a \in Attempts, NEW t \in Threads, CreateJob(a, t) \/ DropStep(a, t) \/ RecordJob(a, t)
        PROVE  CountInv'
    <3>1. a \in alive
      BY <2>8 DEF CreateJob, DropStep, RecordJob, At
    <3>2. UNCHANGED <<alive, finishes>>
      BY <2>8, <3>1, HandingMoves
    <3>3. \A i \in Threads : pc[a][i] = "end" => pc'[a][i] = "end"
      BY <2>8, <3>1, HandingMoves
    <3>4. \A b \in Attempts \ {a} : pc'[b] = pc[b]
      BY <2>8, <3>1, HandingMoves
    <3>5. \A b \in Attempts, i \in StepIndex : pc[b][i] = "end" => pc'[b][i] = "end"
      BY <3>3, <3>4 DEF Threads
    <3> QED
      BY <2>1, <3>2, <3>5, CountStays DEF CountInv
  <2> QED
    BY <2>3, <2>4, <2>5, <2>6, <2>7, <2>8, CountCallback, StepCases
<1> QED
  BY <1>1, <1>2, TypeInvariant, GraphInvariant, FinishInvariant, PTL DEF Spec

\* A "finish" message means that every step was picked and every step that some
\* step waits for is done, and there are no more of them than steps that are done.
THEOREM FinishAlways == Spec => []FinishCoversDependencies
<1>1. TypeInv /\ GraphInv /\ FinishInv /\ StillInv /\ CountInv => FinishCoversDependencies
  <2> SUFFICES ASSUME TypeInv, GraphInv, FinishInv, StillInv, CountInv, NEW a \in alive
               PROVE  /\ finishes[a] > 0 =>
                           /\ picked[a] = Length[exec[a]]
                           /\ \A i \in 1 .. picked[a] : Deps[exec[a]][i] \subseteq done[a]
                      /\ finishes[a] <= Cardinality(done[a])
    BY DEF FinishCoversDependencies
  <2>1. finishes[a] > 0 => /\ picked[a] = Length[exec[a]]
                           /\ \A i \in 1 .. picked[a] : Deps[exec[a]][i] \subseteq done[a]
    BY DEF GraphInv, PickedReady, FinishInv, AboutToFinish
  <2>2. Ended(a) \subseteq done[a]
    BY DEF Ended, StillInv, ReportedDone, AfterDone
  <2>3. IsFiniteSet(done[a]) /\ Cardinality(done[a]) \in Nat
    <3>1. done[a] \in SUBSET StepIndex
      BY DEF TypeInv, TypeOK
    <3> QED
      BY <3>1, StepsFinite
  <2>4. Cardinality(Ended(a)) <= Cardinality(done[a])
    BY <2>2, <2>3, FS_Subset
  <2>5. finishes[a] <= Cardinality(done[a])
    BY <2>3, <2>4, EndedFinite DEF CountInv, TypeInv, TypeOK
  <2> QED
    BY <2>1, <2>5
<1> QED
  BY <1>1, TypeInvariant, GraphInvariant, FinishInvariant, StillInvariant, CountInvariant, PTL
-----------------------------------------------------------------------------
(***************************************************************************)
(* An attempt comes to its end.                                            *)
(***************************************************************************)

\* How often a thread may still move before it ends.  A thread that hands a step on
\* counts with the step: the one goes up by less than the other comes down.
MovesLeft(where) ==
  CASE where = "none" -> 8
    [] where = "result" -> 6
    [] where = "done" -> 5
    [] where = "isDone" -> 4
    [] where = "pick" -> 3
    [] where = "record" -> 2
    [] where \in {"create", "finish"} -> 1
    [] OTHER -> 0

Ahead(a) == {m \in Threads \X (1 .. 8) : m[2] <= MovesLeft(pc[a][m[1]])}

\* A step that changes the graph or a thread of an attempt in memory leaves it fewer
\* moves, so there are no more than 8 * (MaxSteps + 1) of them.
RunsOut ==
  \A a \in alive \cap alive' :
    \/ Cardinality(Ahead(a)') < Cardinality(Ahead(a))
    \/ /\ pc'[a] = pc[a] /\ next'[a] = next[a] /\ last'[a] = last[a]
       /\ picked'[a] = picked[a] /\ done'[a] = done[a]

LEMMA MovesAhead ==
  ASSUME NEW a
  PROVE  /\ IsFiniteSet(Ahead(a)) /\ Cardinality(Ahead(a)) \in 0 .. 8 * (MaxSteps + 1)
         /\ IsFiniteSet(Ahead(a)') /\ Cardinality(Ahead(a)') \in 0 .. 8 * (MaxSteps + 1)
<1>1. IsFiniteSet(Threads) /\ Cardinality(Threads) = MaxSteps + 1
  <2>1. Threads = 0 .. MaxSteps
    BY GraphAssumption DEF Threads, Root, StepIndex
  <2> QED
    BY <2>1, GraphAssumption, FS_Interval
<1>2. IsFiniteSet(1 .. 8) /\ Cardinality(1 .. 8) = 8
  <2>1. \A n \in Nat : IsFiniteSet(1 .. n) /\ Cardinality(1 .. n) = n
    BY FS_Interval
  <2> QED
    BY <2>1
<1>3. /\ IsFiniteSet(Threads \X (1 .. 8))
      /\ Cardinality(Threads \X (1 .. 8)) = (MaxSteps + 1) * 8
  BY <1>1, <1>2, FS_Product
<1>4. Ahead(a) \subseteq Threads \X (1 .. 8) /\ Ahead(a)' \subseteq Threads \X (1 .. 8)
  BY DEF Ahead
<1>5. ASSUME NEW S \in SUBSET (Threads \X (1 .. 8))
      PROVE  IsFiniteSet(S) /\ Cardinality(S) \in 0 .. 8 * (MaxSteps + 1)
  <2>1. IsFiniteSet(S) /\ Cardinality(S) <= (MaxSteps + 1) * 8
    BY <1>3, FS_Subset
  <2>2. Cardinality(S) \in Nat
    BY <2>1, FS_CardinalityType
  <2> QED
    BY <2>1, <2>2, GraphAssumption
<1> QED
  BY <1>4, <1>5

\* Threads that move without handing anything on have fewer moves left.
LEMMA FewerMoves ==
  ASSUME NEW a, NEW t \in Threads, MovesLeft(pc'[a][t]) < MovesLeft(pc[a][t]),
         \A u \in Threads : MovesLeft(pc'[a][u]) <= MovesLeft(pc[a][u])
  PROVE  Cardinality(Ahead(a)') < Cardinality(Ahead(a))
<1>1. \A where : MovesLeft(where) \in 0 .. 8
  BY DEF MovesLeft
<1>2. Ahead(a)' \subseteq Ahead(a)
  BY <1>1 DEF Ahead
<1>3. PICK n \in 1 .. 8 : n = MovesLeft(pc[a][t])
  BY <1>1
<1>4. <<t, n>> \in Ahead(a) /\ <<t, n>> \notin Ahead(a)'
  BY <1>1, <1>3 DEF Ahead
<1>5. Cardinality(Ahead(a)') <= Cardinality(Ahead(a)) /\ Cardinality(Ahead(a)') # Cardinality(Ahead(a))
  BY <1>2, <1>4, MovesAhead, FS_Subset
<1>6. Cardinality(Ahead(a)) \in Int /\ Cardinality(Ahead(a)') \in Int
  BY MovesAhead
<1> QED
  BY <1>5, <1>6

\* A step whose job is handed over comes closer by two moves, and the thread that
\* hands it over has one more to make.
LEMMA MoveHandedOn ==
  ASSUME NEW a, NEW t \in Threads, NEW s \in Threads \ {t},
         pc[a][t] = "create", pc'[a][t] = "record", pc[a][s] = "none", pc'[a][s] = "result",
         \A u \in Threads \ {s, t} : pc'[a][u] = pc[a][u]
  PROVE  Cardinality(Ahead(a)') < Cardinality(Ahead(a))
<1>1. /\ MovesLeft(pc[a][t]) = 1 /\ MovesLeft(pc'[a][t]) = 2
      /\ MovesLeft(pc[a][s]) = 8 /\ MovesLeft(pc'[a][s]) = 6
  BY DEF MovesLeft
<1>2. Ahead(a)' = ((Ahead(a) \ {<<s, 7>>}) \ {<<s, 8>>}) \cup {<<t, 2>>}
  <2>1. ASSUME NEW m \in Threads \X (1 .. 8)
        PROVE  m \in Ahead(a)' <=> (m \in Ahead(a) /\ m # <<s, 7>> /\ m # <<s, 8>>) \/ m = <<t, 2>>
    <3>1. PICK u \in Threads, k \in 1 .. 8 : m = <<u, k>>
      OBVIOUS
    <3>2. /\ m \in Ahead(a)' <=> k <= MovesLeft(pc'[a][u])
          /\ m \in Ahead(a) <=> k <= MovesLeft(pc[a][u])
      BY <3>1 DEF Ahead
    <3>3. /\ m = <<s, 7>> <=> u = s /\ k = 7
          /\ m = <<s, 8>> <=> u = s /\ k = 8
          /\ m = <<t, 2>> <=> u = t /\ k = 2
      BY <3>1
    <3>4. CASE u = t
      BY <1>1, <3>2, <3>3, <3>4
    <3>5. CASE u = s
      BY <1>1, <3>2, <3>3, <3>5
    <3>6. CASE u \notin {s, t}
      BY <3>2, <3>3, <3>6
    <3> QED
      BY <3>4, <3>5, <3>6
  <2>2. /\ Ahead(a) \subseteq Threads \X (1 .. 8) /\ Ahead(a)' \subseteq Threads \X (1 .. 8)
        /\ <<t, 2>> \in Threads \X (1 .. 8)
    BY DEF Ahead
  <2> QED
    BY <2>1, <2>2
<1>3. <<s, 7>> \in Ahead(a) /\ <<s, 8>> \in Ahead(a) \ {<<s, 7>>}
  BY <1>1 DEF Ahead
<1> DEFINE One == Ahead(a) \ {<<s, 7>>}
           Two == One \ {<<s, 8>>}
<1>4. IsFiniteSet(One) /\ Cardinality(One) = Cardinality(Ahead(a)) - 1
  BY <1>3, MovesAhead, FS_RemoveElement
<1>5. IsFiniteSet(Two) /\ Cardinality(Two) = Cardinality(One) - 1
  BY <1>3, <1>4, FS_RemoveElement
<1>6. Cardinality(Two \cup {<<t, 2>>}) \in {Cardinality(Two), Cardinality(Two) + 1}
  BY <1>5, FS_AddElement
<1>7. Cardinality(Ahead(a)) \in Int
  BY MovesAhead
<1> HIDE DEF One, Two
<1>8. Ahead(a)' = Two \cup {<<t, 2>>}
  BY <1>2 DEF One, Two
<1> QED
  BY <1>4, <1>5, <1>6, <1>7, <1>8

LEMMA RunOutPick ==
  ASSUME TypeInv, NEW a \in Attempts, NEW t \in Threads, PickSteps(a, t)
  PROVE  /\ Cardinality(Ahead(a)') < Cardinality(Ahead(a))
         /\ UNCHANGED <<alive, done>>
         /\ \A b \in Attempts \ {a} : /\ pc'[b] = pc[b] /\ next'[b] = next[b] /\ last'[b] = last[b]
                                      /\ picked'[b] = picked[b]
<1>1. pc[a][t] = "pick" /\ UNCHANGED <<alive, done>>
  BY DEF PickSteps, At
<1>2. PICK w \in {"end", "create"} : pc' = [pc EXCEPT ![a][t] = w]
  BY DEF PickSteps, GoTo
<1>3. pc'[a][t] = w /\ \A u \in Threads \ {t} : pc'[a][u] = pc[a][u]
  BY <1>2 DEF TypeInv, TypeOK
<1>4. MovesLeft(pc'[a][t]) < MovesLeft(pc[a][t]) /\ MovesLeft(pc'[a][t]) \in Int
  BY <1>1, <1>3 DEF MovesLeft
<1>5. \A u \in Threads : MovesLeft(pc[a][u]) \in Int
  BY DEF MovesLeft
<1>6. Cardinality(Ahead(a)') < Cardinality(Ahead(a))
  BY <1>3, <1>4, <1>5, FewerMoves
<1>7. \A b \in Attempts \ {a} : /\ pc'[b] = pc[b] /\ next'[b] = next[b] /\ last'[b] = last[b]
                                /\ picked'[b] = picked[b]
  BY DEF PickSteps, GoTo, TypeInv, TypeOK
<1> QED
  BY <1>1, <1>6, <1>7

LEMMA RunOutHanding ==
  ASSUME TypeInv, GraphInv, NEW a \in Attempts, NEW t \in Threads,
         CreateJob(a, t) \/ DropStep(a, t) \/ RecordJob(a, t)
  PROVE  /\ Cardinality(Ahead(a)') < Cardinality(Ahead(a))
         /\ UNCHANGED <<alive, done, picked>>
         /\ \A b \in Attempts \ {a} : pc'[b] = pc[b] /\ next'[b] = next[b] /\ last'[b] = last[b]
<1>1. a \in alive
  BY DEF CreateJob, DropStep, RecordJob, At
<1>2. UNCHANGED <<alive, done, picked>>
  BY <1>1, HandingMoves
<1>3. \A b \in Attempts \ {a} : pc'[b] = pc[b] /\ next'[b] = next[b] /\ last'[b] = last[b]
  BY DEF CreateJob, DropStep, RecordJob, GoTo, TypeInv, TypeOK
<1>4. \A u \in Threads : MovesLeft(pc[a][u]) \in Int
  BY DEF MovesLeft
<1>5. Cardinality(Ahead(a)') < Cardinality(Ahead(a))
  <2>1. CASE /\ pc[a][t] = "record" /\ pc'[a][t] \in {"create", "end"}
             /\ \A u \in Threads \ {t} : pc'[a][u] = pc[a][u]
    <3>1. MovesLeft(pc'[a][t]) < MovesLeft(pc[a][t])
      BY <2>1 DEF MovesLeft
    <3>2. \A u \in Threads : MovesLeft(pc'[a][u]) <= MovesLeft(pc[a][u])
      BY <1>4, <2>1, <3>1 DEF MovesLeft
    <3> QED
      BY <3>1, <3>2, FewerMoves
  <2>2. ASSUME NEW s \in StepIndex \ {t}, pc[a][t] = "create", pc[a][s] = "none",
               \/ pc'[a][s] = "result" /\ pc'[a][t] = "record"
               \/ pc'[a][s] = "dropped" /\ pc'[a][t] \in {"create", "end"},
               \A u \in Threads \ {s, t} : pc'[a][u] = pc[a][u]
        PROVE  Cardinality(Ahead(a)') < Cardinality(Ahead(a))
    <3>1. s \in Threads \ {t}
      BY DEF Threads
    <3>2. CASE pc'[a][s] = "result" /\ pc'[a][t] = "record"
      BY <2>2, <3>1, <3>2, MoveHandedOn
    <3>3. CASE pc'[a][s] = "dropped" /\ pc'[a][t] \in {"create", "end"}
      <4>1. MovesLeft(pc'[a][s]) < MovesLeft(pc[a][s]) /\ MovesLeft(pc'[a][t]) <= MovesLeft(pc[a][t])
        BY <2>2, <3>3 DEF MovesLeft
      <4>2. ASSUME NEW u \in Threads PROVE MovesLeft(pc'[a][u]) <= MovesLeft(pc[a][u])
        <5>1. CASE u \in {s, t}
          BY <4>1, <5>1, <2>2, <3>3 DEF MovesLeft
        <5>2. CASE u \notin {s, t}
          BY <1>4, <2>2, <5>2
        <5> QED
          BY <5>1, <5>2
      <4> QED
        BY <3>1, <4>1, <4>2, FewerMoves
    <3> QED
      BY <2>2, <3>2, <3>3
  <2> QED
    BY <1>1, <2>1, <2>2, HandingMoves
<1> QED
  BY <1>2, <1>3, <1>5

LEMMA RunOutCallback ==
  ASSUME TypeInv, NEW a \in Attempts, NEW i \in StepIndex, Callback(a, i)
  PROVE  /\ Cardinality(Ahead(a)') < Cardinality(Ahead(a))
         /\ UNCHANGED <<alive, picked, next, last>>
         /\ \A b \in Attempts \ {a} : pc'[b] = pc[b] /\ done'[b] = done[b]
<1>1. UNCHANGED <<alive, picked, next, last>> /\ i \in Threads
  BY CallbackFrame DEF Threads
<1>2. /\ \A u \in Threads \ {i} : pc'[a][u] = pc[a][u]
      /\ \A b \in Attempts \ {a} : pc'[b] = pc[b] /\ done'[b] = done[b]
  BY DEF Callback, ReportResult, LoseResult, DoneStep, CheckDone, SendFinish, LoseFinish, GoTo,
         TypeInv, TypeOK
<1>3. \/ pc[a][i] = "result" /\ pc'[a][i] \in {"done", "lost"}
      \/ pc[a][i] = "done" /\ pc'[a][i] = "isDone"
      \/ pc[a][i] = "isDone" /\ pc'[a][i] \in {"finish", "pick"}
      \/ pc[a][i] = "finish" /\ pc'[a][i] = "end"
  <2>1. \A w : GoTo(a, i, w) => pc'[a][i] = w
    BY <1>1 DEF GoTo, TypeInv, TypeOK
  <2>2. CASE ReportResult(a, i) \/ LoseResult(a, i)
    BY <2>1, <2>2 DEF ReportResult, LoseResult, At
  <2>3. CASE DoneStep(a, i)
    BY <2>1, <2>3 DEF DoneStep, At
  <2>4. CASE CheckDone(a, i)
    BY <2>1, <2>4 DEF CheckDone, At
  <2>5. CASE SendFinish(a, i) \/ LoseFinish(a, i)
    BY <2>1, <2>5 DEF SendFinish, LoseFinish, At
  <2> QED
    BY <2>2, <2>3, <2>4, <2>5 DEF Callback
<1>4. MovesLeft(pc'[a][i]) < MovesLeft(pc[a][i])
  BY <1>3 DEF MovesLeft
<1>5. \A u \in Threads : MovesLeft(pc'[a][u]) <= MovesLeft(pc[a][u])
  <2>1. \A u \in Threads : MovesLeft(pc[a][u]) \in Int /\ MovesLeft(pc'[a][u]) \in Int
    BY DEF MovesLeft
  <2> QED
    BY <1>2, <1>4, <2>1
<1>6. Cardinality(Ahead(a)') < Cardinality(Ahead(a))
  BY <1>1, <1>4, <1>5, FewerMoves
<1> QED
  BY <1>1, <1>2, <1>6

\* Nothing goes on for ever in an attempt: scheduleGraph returns and the callbacks end,
\* for all graphs, cyclic ones included.
THEOREM AttemptsRunOut == Spec => [][RunsOut]_vars
<1>1. TypeInv /\ GraphInv /\ [Next]_vars => RunsOut
  <2> SUFFICES ASSUME TypeInv, GraphInv, [Next]_vars PROVE RunsOut
    OBVIOUS
  <2>0. alive \subseteq Attempts
    BY DEF TypeInv, TypeOK
  <2>1. UNCHANGED vars => RunsOut
    BY DEF vars, RunsOut
  <2>2. Outside => RunsOut
    BY OutsideFrame DEF RunsOut
  <2>3. ASSUME NEW c \in Coordinators, StartExecution(c) PROVE RunsOut
    <3>1. built + 1 \notin alive
      BY <2>3, BoundsAssumption DEF StartExecution, Attempts, TypeInv, TypeOK, Blank
    <3> QED
      BY <2>0, <2>3, <3>1 DEF StartExecution, TypeInv, TypeOK, RunsOut
  <2>4. ASSUME NEW c \in Coordinators, CrashRestart(c) PROVE RunsOut
    BY <2>0, <2>4 DEF CrashRestart, TypeInv, TypeOK, RunsOut
  <2>5. ASSUME NEW a \in Attempts, NEW t \in Threads, PickSteps(a, t) PROVE RunsOut
    BY <2>0, <2>5, RunOutPick DEF RunsOut
  <2>6. ASSUME NEW a \in Attempts, NEW t \in Threads, CreateJob(a, t) \/ DropStep(a, t) \/ RecordJob(a, t)
        PROVE  RunsOut
    BY <2>0, <2>6, RunOutHanding DEF RunsOut
  <2>7. ASSUME NEW a \in Attempts, NEW i \in StepIndex, Callback(a, i) PROVE RunsOut
    BY <2>0, <2>7, RunOutCallback DEF RunsOut
  <2> QED
    BY <2>1, <2>2, <2>3, <2>4, <2>5, <2>6, <2>7, StepCases
<1> QED
  BY <1>1, TypeInvariant, GraphInvariant, PTL DEF Spec
=============================================================================
