---------------------------- MODULE StepDispatch ----------------------------
(***************************************************************************)
(* What an attempt at an execution promises, whatever threads and messages *)
(* carry it out: a step is dispatched to the workers at most once, and     *)
(* only when the steps it depends on are done; a step that is done was     *)
(* dispatched.  Module ExecutionScheduler implements this specification.   *)
(***************************************************************************)
EXTENDS Integers

CONSTANTS
  Attempts,         \* names of attempts
  Executions,       \* what an attempt may be an attempt at
  Length,           \* Length[e]: number of steps of e
  Deps,             \* Deps[e][i]: the steps that step i waits for
  None              \* not an execution

VARIABLES
  target,           \* target[a]: the execution a is an attempt at
  dispatched,       \* dispatched[a]: steps whose job was handed out
  completed         \* completed[a]: steps known to be done

dispatchVars == <<target, dispatched, completed>>

DispatchInit ==
  /\ target = [a \in Attempts |-> None]
  /\ dispatched = [a \in Attempts |-> {}]
  /\ completed = [a \in Attempts |-> {}]

Begin(a, e) ==
  /\ target[a] = None
  /\ target' = [target EXCEPT ![a] = e]
  /\ UNCHANGED <<dispatched, completed>>

Dispatch(a, i) ==
  /\ target[a] # None
  /\ i \in 1 .. Length[target[a]] /\ i \notin dispatched[a]
  /\ Deps[target[a]][i] \subseteq completed[a]
  /\ dispatched' = [dispatched EXCEPT ![a] = @ \cup {i}]
  /\ UNCHANGED <<target, completed>>

Complete(a, i) ==
  /\ i \in dispatched[a] \ completed[a]
  /\ completed' = [completed EXCEPT ![a] = @ \cup {i}]
  /\ UNCHANGED <<target, dispatched>>

\* The process that held the attempts in A is gone, and nothing is left of them.
Forget(A) ==
  /\ target' = [a \in Attempts |-> IF a \in A THEN None ELSE target[a]]
  /\ dispatched' = [a \in Attempts |-> IF a \in A THEN {} ELSE dispatched[a]]
  /\ completed' = [a \in Attempts |-> IF a \in A THEN {} ELSE completed[a]]

DispatchNext ==
  \/ \E a \in Attempts :
       \/ \E e \in Executions : Begin(a, e)
       \/ \E i \in dispatched[a] \cup (IF target[a] = None THEN {} ELSE 1 .. Length[target[a]]) :
            Dispatch(a, i) \/ Complete(a, i)
  \/ \E A \in SUBSET Attempts : Forget(A)

DispatchSpec == DispatchInit /\ [][DispatchNext]_dispatchVars
=============================================================================
