------------------------ MODULE SchedulerRefinement -------------------------
(***************************************************************************)
(* The scheduler implements StepDispatch, attempt by attempt: a step is    *)
(* dispatched when its job goes to the job scheduler, and completed by the *)
(* DoneStep of its callback.                                               *)
(***************************************************************************)
EXTENDS ExecutionScheduler

targetMap == [a \in Attempts |-> IF a \in alive THEN exec[a] ELSE None]

dispatchedMap ==
  [a \in Attempts |-> {i \in StepIndex : pc[a][i] \notin {"none", "dropped"}}]

Abstract == INSTANCE StepDispatch WITH
  target <- targetMap, dispatched <- dispatchedMap, completed <- done

\* However the loop, the callbacks, failures and restarts interleave, a step's
\* job is handed out at most once per attempt and only after the DoneStep of
\* every step it depends on.
ImplementsDispatch == Abstract!DispatchSpec
=============================================================================
