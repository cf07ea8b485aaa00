--------------------------- MODULE RestartProofs ----------------------------
(***************************************************************************)
(* The proofs that coordinators which share the Executions table do not    *)
(* start an execution twice, provided COMMIT does not fail, and that a     *)
(* row is locked by one transaction, which is on the way to its end.       *)
(***************************************************************************)
EXTENDS ExecutionSchedulerProofs

USE DEF tableVars, loopVars, attemptVars, graphVars, threadVars

HoldsRow(c) == loop[c] \in {"selected", "scheduling"}

\* A row is locked by one transaction, is due while it is only selected, and an
\* execution with an attempt in memory is "scheduled" in the table unless the
\* transaction that will make it so is still open.
OneHolder ==
  \A c, d \in Coordinators : HoldsRow(c) /\ HoldsRow(d) /\ c # d => txExec[c] # txExec[d]

Due == \A c \in Coordinators : loop[c] = "selected" => txExec[c] \in ForSchedule

Settled ==
  \A a \in alive :
    /\ owner[a] \in Coordinators
    /\ \/ status[exec[a]] = "scheduled"
       \/ loop[owner[a]] = "scheduling" /\ txExec[owner[a]] = exec[a]

RowInv == OneHolder /\ Due /\ Settled

\* Inserting a row and the passing of time leave every due row due.
LEMMA RowEnvironment ==
  ASSUME TypeInv, RowInv, Environment
  PROVE  RowInv'
<1>1. UNCHANGED <<loopVars, attemptVars>>
  BY DEF Environment, Execute, RetryAfterElapses
<1>2. /\ \A e \in Executions : status[e] = "scheduled" => status'[e] = "scheduled"
      /\ ForSchedule \subseteq ForSchedule'
  BY DEF Environment, Execute, RetryAfterElapses, ForSchedule, TypeInv, TypeOK
<1>3. OneHolder' /\ Due'
  BY <1>1, <1>2 DEF RowInv, OneHolder, Due, HoldsRow
<1>4. Settled'
  BY <1>1, <1>2 DEF RowInv, Settled, TypeInv, Targets
<1> QED
  BY <1>3, <1>4 DEF RowInv

\* SELECT ... FOR UPDATE waits for a row that another transaction holds.
LEMMA RowSelect ==
  ASSUME TypeInv, RowInv, NEW c \in Coordinators, Select(c)
  PROVE  RowInv'
<1>1. PICK e \in ForSchedule : ~ Locked(e) /\ txExec' = [txExec EXCEPT ![c] = e]
  BY DEF Select, Earliest
<1>2. /\ loop[c] = "select" /\ loop' = [loop EXCEPT ![c] = "selected"]
      /\ UNCHANGED <<tableVars, alive, exec, owner>>
  BY DEF Select
<1>3. \A d \in Coordinators \ {c} : loop'[d] = loop[d] /\ txExec'[d] = txExec[d]
  BY <1>1, <1>2 DEF TypeInv, TypeOK
<1>4. loop'[c] = "selected" /\ txExec'[c] = e /\ ForSchedule' = ForSchedule
  BY <1>1, <1>2 DEF TypeInv, TypeOK, ForSchedule
<1>5. OneHolder'
  <2>1. \A d \in Coordinators : HoldsRow(d) => txExec[d] # e
    BY <1>1 DEF Locked, HoldsRow
  <2>2. \A d \in Coordinators \ {c} : HoldsRow(d)' = HoldsRow(d)
    BY <1>3 DEF HoldsRow
  <2> QED
    BY <1>3, <1>4, <2>1, <2>2 DEF RowInv, OneHolder
<1>6. Due'
  BY <1>1, <1>3, <1>4 DEF RowInv, Due
<1>7. Settled'
  BY <1>2, <1>3 DEF RowInv, Settled
<1> QED
  BY <1>5, <1>6, <1>7 DEF RowInv

\* A transaction that begins, ends without effect or ends with its process
\* releases its row; the attempts that remain are settled by others.
LEMMA RowLeave ==
  ASSUME TypeInv, RowInv, NEW c \in Coordinators,
         \/ Tick(c) \/ BeginTx(c) \/ BeginTxFails(c) \/ SelectNone(c) \/ AbortScheduling(c)
         \/ CrashRestart(c)
  PROVE  RowInv'
<1>1. /\ loop'[c] \in {"idle", "begin", "select"}
      /\ \A d \in Coordinators \ {c} : loop'[d] = loop[d] /\ txExec'[d] = txExec[d]
      /\ UNCHANGED <<tableVars, exec, owner>>
  BY DEF Tick, BeginTx, BeginTxFails, SelectNone, AbortScheduling, CrashRestart, EndTx, TypeInv, TypeOK
<1>2. OneHolder'
  <2>1. \A d \in Coordinators \ {c} : HoldsRow(d)' = HoldsRow(d)
    BY <1>1 DEF HoldsRow
  <2>2. ~ HoldsRow(c)'
    BY <1>1 DEF HoldsRow
  <2> QED
    BY <1>1, <2>1, <2>2 DEF RowInv, OneHolder
<1>3. Due'
  <2>1. ForSchedule' = ForSchedule
    BY <1>1 DEF ForSchedule
  <2> QED
    BY <1>1, <2>1 DEF RowInv, Due
<1>4. Settled'
  <2>1. CASE CrashRestart(c)
    <3>1. \A a \in alive' : a \in alive /\ owner[a] # c
      BY <2>1 DEF CrashRestart
    <3> QED
      BY <1>1, <3>1 DEF RowInv, Settled
  <2>2. CASE Tick(c) \/ BeginTx(c) \/ BeginTxFails(c) \/ SelectNone(c) \/ AbortScheduling(c)
    <3>1. loop[c] # "scheduling" /\ alive' = alive
      BY <2>2 DEF Tick, BeginTx, BeginTxFails, SelectNone, AbortScheduling
    <3> QED
      BY <1>1, <3>1 DEF RowInv, Settled
  <2> QED
    BY <2>1, <2>2
<1> QED
  BY <1>2, <1>3, <1>4 DEF RowInv

\* An attempt begins in the transaction that holds its row.
LEMMA RowStart ==
  ASSUME TypeInv, RowInv, NEW c \in Coordinators, StartExecution(c)
  PROVE  RowInv'
<1>1. PICK n \in Attempts \ alive : n = built + 1
  BY BoundsAssumption DEF StartExecution, Attempts, TypeInv, TypeOK, Blank
<1>2. /\ alive' = alive \cup {n} /\ exec' = [exec EXCEPT ![n] = txExec[c]]
      /\ owner' = [owner EXCEPT ![n] = c] /\ loop[c] = "selected"
      /\ loop' = [loop EXCEPT ![c] = "scheduling"] /\ UNCHANGED <<tableVars, txExec>>
  BY <1>1 DEF StartExecution
<1>3. /\ \A d \in Coordinators \ {c} : loop'[d] = loop[d]
      /\ loop'[c] = "scheduling" /\ exec'[n] = txExec[c] /\ owner'[n] = c
      /\ \A a \in alive : exec'[a] = exec[a] /\ owner'[a] = owner[a]
  BY <1>1, <1>2 DEF TypeInv, TypeOK
<1>4. OneHolder'
  <2>1. \A d \in Coordinators : HoldsRow(d)' = HoldsRow(d)
    BY <1>2, <1>3 DEF HoldsRow
  <2> QED
    BY <1>2, <2>1 DEF RowInv, OneHolder
<1>5. Due'
  <2>1. ForSchedule' = ForSchedule
    BY <1>2 DEF ForSchedule
  <2> QED
    BY <1>2, <1>3, <2>1 DEF RowInv, Due
<1>6. Settled'
  <2>1. ASSUME NEW a \in alive
        PROVE  /\ owner'[a] \in Coordinators
               /\ \/ status'[exec'[a]] = "scheduled"
                  \/ loop'[owner'[a]] = "scheduling" /\ txExec'[owner'[a]] = exec'[a]
    BY <1>2, <1>3 DEF RowInv, Settled
  <2> QED
    BY <1>2, <1>3, <2>1 DEF Settled
<1> QED
  BY <1>4, <1>5, <1>6 DEF RowInv

\* COMMIT settles the attempts at its execution and no other row.
LEMMA RowCommit ==
  ASSUME TypeInv, RowInv, NEW c \in Coordinators, Commit(c)
  PROVE  RowInv'
<1>1. /\ loop[c] = "scheduling" /\ txExec[c] \in Executions
      /\ status' = [status EXCEPT ![txExec[c]] = "scheduled"]
      /\ stale' = stale \ {txExec[c]} /\ UNCHANGED <<alive, exec, owner>>
  BY DEF Commit, TypeInv, Targets
<1>2. /\ loop'[c] = "idle"
      /\ \A d \in Coordinators \ {c} : loop'[d] = loop[d] /\ txExec'[d] = txExec[d]
  BY DEF Commit, EndTx, TypeInv, TypeOK
<1>3. OneHolder'
  <2>1. \A d \in Coordinators \ {c} : HoldsRow(d)' = HoldsRow(d)
    BY <1>2 DEF HoldsRow
  <2>2. ~ HoldsRow(c)'
    BY <1>2 DEF HoldsRow
  <2> QED
    BY <1>2, <2>1, <2>2 DEF RowInv, OneHolder
<1>4. Due'
  <2>1. ASSUME NEW d \in Coordinators \ {c}, loop[d] = "selected"
        PROVE  txExec[d] \in ForSchedule'
    <3>1. txExec[d] # txExec[c]
      BY <1>1, <2>1 DEF RowInv, OneHolder, HoldsRow
    <3>2. txExec[d] \in ForSchedule
      BY <2>1 DEF RowInv, Due
    <3> QED
      BY <1>1, <3>1, <3>2 DEF ForSchedule, TypeInv, TypeOK
  <2> QED
    BY <1>2, <2>1 DEF Due
<1>5. Settled'
  <2>1. ASSUME NEW a \in alive
        PROVE  \/ status'[exec[a]] = "scheduled"
               \/ loop'[owner[a]] = "scheduling" /\ txExec'[owner[a]] = exec[a]
    <3>1. exec[a] \in Executions /\ owner[a] \in Coordinators
      BY DEF TypeInv, Targets, RowInv, Settled
    <3>2. CASE status[exec[a]] = "scheduled" \/ exec[a] = txExec[c]
      BY <1>1, <3>1, <3>2 DEF TypeInv, TypeOK
    <3>3. CASE loop[owner[a]] = "scheduling" /\ txExec[owner[a]] = exec[a] /\ exec[a] # txExec[c]
      BY <1>2, <3>1, <3>3
    <3> QED
      BY <3>2, <3>3 DEF RowInv, Settled
  <2> QED
    BY <1>1, <2>1 DEF RowInv, Settled
<1> QED
  BY <1>3, <1>4, <1>5 DEF RowInv

\* Every step keeps RowInv when COMMIT does not fail.
LEMMA RowStep ==
  ASSUME "commit" \notin Faults, TypeInv, RowInv, [Next]_vars
  PROVE  RowInv'
<1>1. UNCHANGED <<tableVars, loop, txExec, alive, exec, owner>> => RowInv'
  BY DEF RowInv, OneHolder, Due, Settled, HoldsRow, ForSchedule
<1>2. ASSUME NEW a \in Attempts, NEW t \in Threads,
             PickSteps(a, t) \/ CreateJob(a, t) \/ DropStep(a, t) \/ RecordJob(a, t)
      PROVE  RowInv'
  BY <1>1, <1>2 DEF PickSteps, CreateJob, DropStep, RecordJob
<1>3. ASSUME NEW a \in Attempts, NEW i \in StepIndex, Callback(a, i) PROVE RowInv'
  BY <1>1, <1>3, CallbackFrame
<1>4. UNCHANGED vars => RowInv'
  BY <1>1 DEF vars
<1>5. Outside => RowInv'
  BY RowEnvironment, RowSelect, RowLeave, RowCommit DEF Outside, CommitFails
<1> QED
  BY <1>2, <1>3, <1>4, <1>5, RowStart, RowLeave, StepCases

\* RestartOnlyWhenStale: as long as COMMIT does not fail, no interleaving of the
\* coordinators and no restart of one of them starts a second attempt at an
\* execution that some process works on, before ExecutionRetryAfter has passed.
THEOREM NoDoubleStart ==
  ASSUME "commit" \notin Faults
  PROVE  Spec => RestartOnlyWhenStale
<1>1. Init => RowInv
  BY DEF Init, RowInv, OneHolder, Due, Settled, HoldsRow
<1>2. TypeInv /\ RowInv /\ [Next]_vars => RowInv'
  BY RowStep
<1>3. TypeInv /\ RowInv /\ [Next]_vars
        => [\A a \in Attempts : exec'[a] # exec[a] =>
              exec'[a] \in stale \/ \A b \in alive : exec[b] # exec'[a]]_vars
  <2> SUFFICES ASSUME TypeInv, RowInv, Next, NEW a \in Attempts, exec'[a] # exec[a]
               PROVE  exec'[a] \in stale \/ \A b \in alive : exec[b] # exec'[a]
    OBVIOUS
  <2>1. PICK c \in Coordinators : StartExecution(c)
    <3>1. ASSUME NEW b \in Attempts, NEW i \in StepIndex, Callback(b, i) PROVE FALSE
      BY <3>1, CallbackFrame
    <3>2. ASSUME NEW b \in Attempts, NEW t \in Threads, Schedule(b, t) PROVE FALSE
      BY <3>2 DEF Schedule, PickSteps, CreateJob, DropStep, RecordJob
    <3>3. ASSUME NEW c \in Coordinators, CrashRestart(c) PROVE FALSE
      BY <3>3 DEF CrashRestart
    <3>4. CASE Outside
      BY <3>4, OutsideFrame
    <3> QED
      BY <3>1, <3>2, <3>3, <3>4 DEF Next, Loop, Outside
  <2>2. loop[c] = "selected" /\ exec'[a] = txExec[c]
    <3>1. exec' = [exec EXCEPT ![built + 1] = txExec[c]] /\ loop[c] = "selected"
      BY <2>1 DEF StartExecution
    <3> QED
      BY <3>1 DEF TypeInv, TypeOK
  <2>3. CASE status[txExec[c]] = "new"
    <3>1. ASSUME NEW b \in alive, exec[b] = txExec[c] PROVE FALSE
      <4>1. /\ owner[b] \in Coordinators /\ loop[owner[b]] = "scheduling"
            /\ txExec[owner[b]] = txExec[c]
        BY <2>3, <3>1 DEF RowInv, Settled
      <4> QED
        BY <2>2, <4>1 DEF RowInv, OneHolder, HoldsRow
    <3> QED
      BY <2>2, <3>1
  <2>4. CASE txExec[c] \in stale
    BY <2>2, <2>4
  <2> QED
    BY <2>2, <2>3, <2>4 DEF RowInv, Due, ForSchedule
<1> QED
  BY <1>1, <1>2, <1>3, TypeInvariant, PTL DEF Spec, RestartOnlyWhenStale
-----------------------------------------------------------------------------
(***************************************************************************)
(* Whoever holds a row is on the way to release it.                        *)
(***************************************************************************)

\* The transaction schedules an attempt of its process at the row it holds, and
\* scheduleGraph is at work or has returned.
Schedules(c) ==
  /\ txAttempt[c] \in alive
  /\ owner[txAttempt[c]] = c /\ exec[txAttempt[c]] = txExec[c]
  /\ pc[txAttempt[c]][Root] \in {"pick", "create", "record", "end"}

RowsHeldByWork ==
  /\ OneHolder
  /\ \A c \in Coordinators : loop[c] = "scheduling" => Schedules(c)

\* The steps of other transactions leave a transaction that schedules alone.
LEMMA HeldElsewhere ==
  ASSUME TypeInv, RowsHeldByWork, NEW c \in Coordinators, loop'[c] = "scheduling",
         loop[c] = loop'[c], txExec'[c] = txExec[c], txAttempt'[c] = txAttempt[c],
         \A a \in alive : owner[a] = c => /\ a \in alive'
                                          /\ owner'[a] = owner[a] /\ exec'[a] = exec[a]
                                          /\ \/ pc'[a][Root] = pc[a][Root]
                                             \/ pc'[a][Root] \in {"pick", "create", "record", "end"}
  PROVE  Schedules(c)'
BY DEF RowsHeldByWork, Schedules

LEMMA HeldLoop ==
  ASSUME TypeInv, RowsHeldByWork, NEW c \in Coordinators,
         \/ Tick(c) \/ BeginTx(c) \/ BeginTxFails(c) \/ SelectNone(c) \/ Select(c)
         \/ AbortScheduling(c) \/ Commit(c) \/ CommitFails(c) \/ CrashRestart(c)
  PROVE  RowsHeldByWork'
<1>1. /\ loop'[c] \in {"idle", "begin", "select", "selected"}
      /\ \A d \in Coordinators \ {c} : /\ loop'[d] = loop[d] /\ txExec'[d] = txExec[d]
                                       /\ txAttempt'[d] = txAttempt[d]
      /\ loop'[c] = "selected" => ~ Locked(txExec'[c])
  BY DEF Tick, BeginTx, BeginTxFails, SelectNone, Select, AbortScheduling, Commit, CommitFails, CrashRestart, EndTx,
         TypeInv, TypeOK
<1>2. \A a \in alive : \/ owner[a] = c
                       \/ a \in alive' /\ owner'[a] = owner[a] /\ exec'[a] = exec[a] /\ pc'[a] = pc[a]
  BY DEF Tick, BeginTx, BeginTxFails, SelectNone, Select, AbortScheduling, Commit, CommitFails, CrashRestart, EndTx,
         TypeInv, TypeOK
<1>3. OneHolder'
  <2>1. \A d \in Coordinators \ {c} : HoldsRow(d)' = HoldsRow(d)
    BY <1>1 DEF HoldsRow
  <2>2. HoldsRow(c)' => \A d \in Coordinators : HoldsRow(d) => txExec[d] # txExec'[c]
    BY <1>1 DEF HoldsRow, Locked
  <2> QED
    BY <1>1, <2>1, <2>2 DEF RowsHeldByWork, OneHolder
<1>4. ASSUME NEW d \in Coordinators, loop'[d] = "scheduling" PROVE Schedules(d)'
  <2>1. d # c
    BY <1>1, <1>4
  <2> QED
    BY <1>1, <1>2, <1>4, <2>1, HeldElsewhere
<1> QED
  BY <1>3, <1>4 DEF RowsHeldByWork

LEMMA HeldStart ==
  ASSUME TypeInv, RowsHeldByWork, NEW c \in Coordinators, StartExecution(c)
  PROVE  RowsHeldByWork'
<1>1. PICK n \in Attempts \ alive : n = built + 1
  BY BoundsAssumption DEF StartExecution, Attempts, TypeInv, TypeOK, Blank
<1>2. /\ loop[c] = "selected" /\ alive' = alive \cup {n} /\ exec' = [exec EXCEPT ![n] = txExec[c]]
      /\ owner' = [owner EXCEPT ![n] = c] /\ pc' = [pc EXCEPT ![n][Root] = "pick"]
      /\ loop' = [loop EXCEPT ![c] = "scheduling"] /\ txAttempt' = [txAttempt EXCEPT ![c] = n]
      /\ UNCHANGED txExec
  BY <1>1 DEF StartExecution
<1>3. /\ \A d \in Coordinators \ {c} : loop'[d] = loop[d] /\ txAttempt'[d] = txAttempt[d]
      /\ loop'[c] = "scheduling" /\ txAttempt'[c] = n
      /\ exec'[n] = txExec[c] /\ owner'[n] = c /\ pc'[n][Root] = "pick"
      /\ \A a \in alive : exec'[a] = exec[a] /\ owner'[a] = owner[a] /\ pc'[a] = pc[a]
  BY <1>1, <1>2 DEF TypeInv, TypeOK, Threads
<1>4. OneHolder'
  <2>1. \A d \in Coordinators : HoldsRow(d)' = HoldsRow(d)
    BY <1>2, <1>3 DEF HoldsRow
  <2> QED
    BY <1>2, <2>1 DEF RowsHeldByWork, OneHolder
<1>5. Schedules(c)'
  BY <1>2, <1>3 DEF Schedules
<1>6. ASSUME NEW d \in Coordinators \ {c}, loop'[d] = "scheduling" PROVE Schedules(d)'
  BY <1>2, <1>3, <1>6, HeldElsewhere
<1> QED
  BY <1>4, <1>5, <1>6 DEF RowsHeldByWork

\* scheduleGraph goes through PickSteps and the steps it got, and ends.
LEMMA HeldThreads ==
  ASSUME TypeInv, RowsHeldByWork, UNCHANGED <<loopVars, attemptVars>>,
         \A a \in alive : \/ pc'[a][Root] = pc[a][Root]
                          \/ pc'[a][Root] \in {"pick", "create", "record", "end"}
  PROVE  RowsHeldByWork'
<1>1. OneHolder'
  BY DEF RowsHeldByWork, OneHolder, HoldsRow
<1>2. ASSUME NEW d \in Coordinators, loop'[d] = "scheduling" PROVE Schedules(d)'
  BY <1>2, HeldElsewhere
<1> QED
  BY <1>1, <1>2 DEF RowsHeldByWork

\* A locked row is held by one transaction, whose scheduleGraph is at work, can always go
\* on and has finitely many moves before it ends (AttemptsRunOut); then it commits.
THEOREM RowsHeld == Spec => []RowsHeldByWork
<1>1. Init => RowsHeldByWork
  BY DEF Init, RowsHeldByWork, OneHolder, HoldsRow
<1>2. TypeInv /\ GraphInv /\ RowsHeldByWork /\ [Next]_vars => RowsHeldByWork'
  <2> SUFFICES ASSUME TypeInv, GraphInv, RowsHeldByWork, [Next]_vars PROVE RowsHeldByWork'
    OBVIOUS
  <2>1. UNCHANGED <<loopVars, attemptVars, pc>> => RowsHeldByWork'
    BY DEF RowsHeldByWork, OneHolder, HoldsRow, Schedules
  <2>2. UNCHANGED vars => RowsHeldByWork'
    BY <2>1 DEF vars
  <2>3. Outside => RowsHeldByWork'
    <3>1. Environment => RowsHeldByWork'
      BY <2>1 DEF Environment, Execute, RetryAfterElapses
    <3> QED
      BY <3>1, HeldLoop DEF Outside
  <2>4. \A c \in Coordinators : CrashRestart(c) => RowsHeldByWork'
    BY HeldLoop
  <2>5. ASSUME NEW a \in Attempts, NEW t \in Threads, PickSteps(a, t) PROVE RowsHeldByWork'
    <3>1. UNCHANGED <<loopVars, attemptVars>> /\ \E w \in {"end", "create"} : GoTo(a, t, w)
      BY <2>5 DEF PickSteps
    <3>2. \A b \in alive : pc'[b][Root] = pc[b][Root] \/ pc'[b][Root] \in {"create", "end"}
      BY <3>1 DEF GoTo, TypeInv, TypeOK, Threads
    <3> QED
      BY <3>1, <3>2, HeldThreads
  <2>6. ASSUME NEW a \in Attempts, NEW t \in Threads, CreateJob(a, t) \/ DropStep(a, t) \/ RecordJob(a, t)
        PROVE  RowsHeldByWork'
    <3>1. a \in alive /\ UNCHANGED <<loopVars, attemptVars>>
      BY <2>6 DEF CreateJob, DropStep, RecordJob, At
    <3>2. Root \in Threads /\ Root \notin StepIndex
      BY DEF Root, Threads, StepIndex
    <3>3. pc'[a][Root] = pc[a][Root] \/ pc'[a][Root] \in {"create", "record", "end"}
      BY <2>6, <3>1, <3>2, HandingMoves
    <3>4. \A b \in Attempts \ {a} : pc'[b] = pc[b]
      BY <2>6, <3>1, HandingMoves
    <3>5. \A b \in alive : pc'[b][Root] = pc[b][Root] \/ pc'[b][Root] \in {"create", "record", "end"}
      BY <3>3, <3>4 DEF TypeInv, TypeOK
    <3> QED
      BY <3>1, <3>5, HeldThreads
  <2>7. ASSUME NEW a \in Attempts, NEW i \in StepIndex, Callback(a, i) PROVE RowsHeldByWork'
    <3>1. UNCHANGED <<loopVars, attemptVars>> /\ \E w : GoTo(a, i, w)
      BY <2>7, CallbackFrame
    <3>2. \A b \in alive : pc'[b][Root] = pc[b][Root]
      BY <3>1 DEF GoTo, TypeInv, TypeOK, Root, Threads, StepIndex
    <3> QED
      BY <3>1, <3>2, HeldThreads
  <2> QED
    BY <2>2, <2>3, <2>4, <2>5, <2>6, <2>7, HeldStart, StepCases
<1> QED
  BY <1>1, <1>2, TypeInvariant, GraphInvariant, PTL DEF Spec
=============================================================================
