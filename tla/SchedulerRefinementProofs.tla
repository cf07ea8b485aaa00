---------------------- MODULE SchedulerRefinementProofs ---------------------
(***************************************************************************)
(* The proof that ExecutionScheduler implements StepDispatch.              *)
(***************************************************************************)
EXTENDS SchedulerRefinement, ExecutionSchedulerProofs

USE DEF tableVars, loopVars, attemptVars, graphVars, threadVars

\* Every step of the scheduler is a step of StepDispatch, or none.
LEMMA DispatchStep ==
  ASSUME TypeInv, GraphInv, TypeInv', [Next]_vars
  PROVE  [Abstract!DispatchNext]_(<<targetMap, dispatchedMap, done>>)
<1> USE DEF Abstract!DispatchNext
<1>1. ASSUME UNCHANGED <<alive, exec, done, pc>>
      PROVE  UNCHANGED <<targetMap, dispatchedMap, done>>
  BY <1>1 DEF targetMap, dispatchedMap
<1>2. ASSUME NEW c \in Coordinators, StartExecution(c)
      PROVE  \E a \in Attempts : \E e \in Executions : Abstract!Begin(a, e)
  <2>1. PICK n \in Attempts \ alive : n = built + 1
    BY <1>2, BoundsAssumption DEF StartExecution, Attempts, TypeInv, TypeOK, Blank
  <2>2. /\ alive' = alive \cup {n} /\ exec' = [exec EXCEPT ![n] = txExec[c]] /\ UNCHANGED done
        /\ \A a \in Attempts : \A i \in StepIndex : pc'[a][i] = pc[a][i]
        /\ txExec[c] \in Executions
    BY <1>2, <2>1 DEF StartExecution, TypeInv, TypeOK, Targets, Root, StepIndex, Threads
  <2>3. UNCHANGED <<dispatchedMap, done>>
    BY <2>2 DEF dispatchedMap
  <2>4. targetMap[n] = None /\ targetMap' = [targetMap EXCEPT ![n] = txExec[c]]
    BY <2>1, <2>2 DEF targetMap, TypeInv, TypeOK
  <2>5. Abstract!Begin(n, txExec[c])
    BY <2>3, <2>4 DEF Abstract!Begin
  <2> QED
    BY <2>1, <2>2, <2>5
<1>3. ASSUME NEW c \in Coordinators, CrashRestart(c)
      PROVE  \E A \in SUBSET Attempts : Abstract!Forget(A)
  <2> DEFINE Mine == {a \in alive : owner[a] = c}
  <2>1. Mine \subseteq Attempts
    BY DEF TypeInv, TypeOK
  <2>2. /\ alive' = alive \ Mine /\ exec' = exec
        /\ done' = [a \in Attempts |-> IF a \in Mine THEN {} ELSE done[a]]
        /\ pc' = [a \in Attempts |-> IF a \in Mine THEN [t \in Threads |-> "none"] ELSE pc[a]]
    BY <1>3 DEF CrashRestart
  <2>3. targetMap' = [a \in Attempts |-> IF a \in Mine THEN None ELSE targetMap[a]]
    BY <2>2 DEF targetMap
  <2>4. dispatchedMap' = [a \in Attempts |-> IF a \in Mine THEN {} ELSE dispatchedMap[a]]
    BY <2>2 DEF dispatchedMap, Threads
  <2>5. Abstract!Forget(Mine)
    BY <2>2, <2>3, <2>4 DEF Abstract!Forget
  <2> QED
    BY <2>1, <2>5
<1>4. ASSUME NEW a \in Attempts, NEW t \in Threads, PickSteps(a, t)
      PROVE  UNCHANGED <<targetMap, dispatchedMap, done>>
  <2>1. pc[a][t] = "pick" /\ UNCHANGED <<alive, exec, done>>
        /\ \E w \in {"end", "create"} : pc' = [pc EXCEPT ![a][t] = w]
    BY <1>4 DEF PickSteps, At, GoTo
  <2>2. \A b \in Attempts : \A i \in StepIndex :
          pc'[b][i] \in {"none", "dropped"} <=> pc[b][i] \in {"none", "dropped"}
    BY <2>1 DEF TypeInv, TypeOK, Threads
  <2> QED
    BY <2>1, <2>2 DEF targetMap, dispatchedMap
<1>5. ASSUME NEW a \in Attempts, NEW t \in Threads, CreateJob(a, t)
      PROVE  \E i \in 1 .. Length[targetMap[a]] : targetMap[a] # None /\ Abstract!Dispatch(a, i)
  <2>1. a \in alive /\ pc[a][t] = "create" /\ UNCHANGED <<alive, exec, done>>
    BY <1>5 DEF CreateJob, At
  <2>2. PICK s \in StepIndex : s = next[a][t] /\ s \in 1 .. picked[a] /\ s \in Todo(a, t)
    BY <2>1, TodoInStepIndex DEF TypeInv, Slices, TypeOK, Todo
  <2>3. pc[a][s] = "none" /\ s # t /\ s \in Threads
    BY <2>1, <2>2 DEF GraphInv, HandledOnce, Threads
  <2>4. pc' = [pc EXCEPT ![a] = [@ EXCEPT ![s] = "result", ![t] = "record"]]
    BY <1>5, <2>2 DEF CreateJob
  <2>5. targetMap[a] = exec[a] /\ exec[a] \in Executions /\ exec[a] # None
    BY <2>1, ExecutionsAssumption DEF targetMap, TypeInv, Targets
  <2>6. s \in 1 .. Length[exec[a]]
    <3>1. picked[a] \in Int /\ Length[exec[a]] \in Int /\ picked[a] <= Length[exec[a]]
      BY <2>1, <2>5, GraphAssumption DEF TypeInv, TypeOK, Targets
    <3> QED
      BY <2>2, <3>1
  <2>7. Deps[exec[a]][s] \subseteq done[a]
    BY <2>1, <2>2 DEF GraphInv, PickedReady
  <2>8. s \notin dispatchedMap[a]
    BY <2>3 DEF dispatchedMap
  <2>9. dispatchedMap' = [dispatchedMap EXCEPT ![a] = @ \cup {s}]
    <3>1. \A b \in Attempts \ {a} : pc'[b] = pc[b]
      BY <2>4 DEF TypeInv, TypeOK
    <3>2. \A i \in StepIndex : pc'[a][i] \notin {"none", "dropped"}
                               <=> i = s \/ pc[a][i] \notin {"none", "dropped"}
      BY <2>1, <2>3, <2>4 DEF TypeInv, TypeOK, Threads
    <3> QED
      BY <3>1, <3>2 DEF dispatchedMap
  <2>10. UNCHANGED <<targetMap, done>>
    BY <2>1 DEF targetMap
  <2>11. Abstract!Dispatch(a, s)
    BY <2>5, <2>6, <2>7, <2>8, <2>9, <2>10 DEF Abstract!Dispatch
  <2> QED
    BY <2>5, <2>6, <2>11
<1>6. ASSUME NEW a \in Attempts, NEW t \in Threads, DropStep(a, t)
      PROVE  UNCHANGED <<targetMap, dispatchedMap, done>>
  <2>1. a \in alive /\ pc[a][t] = "create" /\ UNCHANGED <<alive, exec, done>>
    BY <1>6 DEF DropStep, At
  <2>2. PICK s \in StepIndex : s = next[a][t] /\ s \in Todo(a, t)
    BY <2>1, TodoInStepIndex DEF TypeInv, Slices, TypeOK, Todo
  <2>3. pc[a][s] = "none" /\ s # t /\ s \in Threads
    BY <2>1, <2>2 DEF GraphInv, HandledOnce, Threads
  <2>4. /\ pc' = [pc EXCEPT ![a] = [@ EXCEPT ![s] = "dropped", ![t] = AfterStep(a, t)]]
        /\ AfterStep(a, t) \in {"end", "create"}
    BY <1>6, <2>2 DEF DropStep, AfterStep
  <2>5. \A b \in Attempts : \A i \in StepIndex :
          pc'[b][i] \in {"none", "dropped"} <=> pc[b][i] \in {"none", "dropped"}
    BY <2>1, <2>3, <2>4 DEF TypeInv, TypeOK, Threads
  <2> QED
    BY <2>1, <2>5 DEF targetMap, dispatchedMap
<1>7. ASSUME NEW a \in Attempts, NEW t \in Threads, RecordJob(a, t)
      PROVE  UNCHANGED <<targetMap, dispatchedMap, done>>
  <2>1. /\ pc[a][t] = "record" /\ UNCHANGED <<alive, exec, done>>
        /\ pc' = [pc EXCEPT ![a][t] = AfterStep(a, t)]
        /\ AfterStep(a, t) \in {"end", "create"}
    BY <1>7 DEF RecordJob, At, GoTo, AfterStep
  <2>2. \A b \in Attempts : \A i \in StepIndex :
          pc'[b][i] \in {"none", "dropped"} <=> pc[b][i] \in {"none", "dropped"}
    BY <2>1 DEF TypeInv, TypeOK, Threads
  <2> QED
    BY <2>1, <2>2 DEF targetMap, dispatchedMap
<1>8. ASSUME NEW a \in Attempts, NEW i \in StepIndex, Callback(a, i)
      PROVE  \/ UNCHANGED <<targetMap, dispatchedMap, done>>
             \/ i \in dispatchedMap[a] /\ Abstract!Complete(a, i)
  <2>1. a \in alive /\ UNCHANGED <<alive, exec>>
    BY <1>8, CallbackFrame
  <2>2. PICK w \in {"done", "isDone", "finish", "pick", "end", "lost"} : pc' = [pc EXCEPT ![a][i] = w]
    BY <1>8, CallbackFrame DEF GoTo
  <2>3. pc[a][i] \in {"result", "done", "isDone", "finish"} /\ i \in Threads
    BY <1>8 DEF Callback, ReportResult, LoseResult, DoneStep, CheckDone, SendFinish,
                LoseFinish, At, Threads
  <2>4. \A b \in Attempts : \A k \in StepIndex :
          pc'[b][k] \in {"none", "dropped"} <=> pc[b][k] \in {"none", "dropped"}
    BY <2>2, <2>3 DEF TypeInv, TypeOK, Threads
  <2>5. UNCHANGED <<targetMap, dispatchedMap>>
    BY <2>1, <2>4 DEF targetMap, dispatchedMap
  <2>6. CASE done' = done
    BY <2>5, <2>6
  <2>7. CASE DoneStep(a, i)
    <3>1. pc[a][i] = "done" /\ done' = [done EXCEPT ![a] = @ \cup {i}]
      BY <2>7 DEF DoneStep, At
    <3>2. i \in dispatchedMap[a] \ done[a]
      BY <3>1 DEF dispatchedMap, GraphInv, DoneReported, AfterDone
    <3> QED
      BY <2>5, <3>1, <3>2 DEF Abstract!Complete
  <2> QED
    BY <1>8, <2>6, <2>7 DEF Callback, ReportResult, LoseResult, CheckDone, SendFinish, LoseFinish
<1>9. UNCHANGED vars => UNCHANGED <<alive, exec, done, pc>>
  BY DEF vars
<1>10. Outside => UNCHANGED <<alive, exec, done, pc>>
  BY OutsideFrame
<1> QED
  <2> DEFINE P == [Abstract!DispatchNext]_(<<targetMap, dispatchedMap, done>>)
  <2>1. \A c \in Coordinators : StartExecution(c) => P
    BY <1>2
  <2>2. \A c \in Coordinators : CrashRestart(c) => P
    BY <1>3
  <2>3. \A a \in Attempts, t \in Threads : PickSteps(a, t) => P
    BY <1>4
  <2>4. \A a \in Attempts, t \in Threads : CreateJob(a, t) => P
    BY <1>5
  <2>5. \A a \in Attempts, t \in Threads : DropStep(a, t) => P
    BY <1>6
  <2>6. \A a \in Attempts, t \in Threads : RecordJob(a, t) => P
    BY <1>7
  <2>7. \A a \in Attempts, i \in StepIndex : Callback(a, i) => P
    BY <1>8
  <2>8. (UNCHANGED vars => P) /\ (Outside => P)
    BY <1>1, <1>9, <1>10
  <2>9. CASE Next
    <3>1. CASE \E c \in Coordinators : StartExecution(c) \/ CrashRestart(c)
      BY <3>1, <2>1, <2>2
    <3>2. CASE \E a \in Attempts, t \in Threads : Schedule(a, t)
      BY <3>2, <2>3, <2>4, <2>5, <2>6 DEF Schedule
    <3>3. CASE \E a \in Attempts, i \in StepIndex : Callback(a, i)
      BY <3>3, <2>7
    <3>4. Outside \/ (\E c \in Coordinators : StartExecution(c) \/ CrashRestart(c))
          \/ (\E a \in Attempts, t \in Threads : Schedule(a, t))
          \/ (\E a \in Attempts, i \in StepIndex : Callback(a, i))
      BY <2>9 DEF Next, Loop, Outside
    <3> QED
      BY <2>8, <3>1, <3>2, <3>3, <3>4
  <2> QED
    BY <2>8, <2>9

\* The scheduler implements StepDispatch: a step's job is handed out at most once
\* per attempt, after the DoneStep of every step it depends on.
THEOREM Implementation == Spec => ImplementsDispatch
<1>1. Init => Abstract!DispatchInit
  BY DEF Init, Abstract!DispatchInit, targetMap, dispatchedMap, Threads
<1>2. TypeInv /\ GraphInv /\ TypeInv' /\ [Next]_vars
        => [Abstract!DispatchNext]_(<<targetMap, dispatchedMap, done>>)
  BY DispatchStep
<1> QED
  BY <1>1, <1>2, TypeInvariant, GraphInvariant, PTL
     DEF Spec, ImplementsDispatch, Abstract!DispatchSpec, Abstract!dispatchVars
=============================================================================
