----------------------------- MODULE MCJobFactory -----------------------------
(***************************************************************************)
(* Three steps of one execution: a program that the request contains is    *)
(* run as a script on a file of the task, a compiled one on an input that  *)
(* the request contains, and outputs are checked.  The second one meets no *)
(* failure of its own.                                                     *)
(***************************************************************************)
EXTENDS JobFactory, TLC

CONSTANTS run, again, check, inline, task, artifact, tests, binary

Inline == [type |-> "inline", bucket |-> inline, file |-> tests]
OfTask == [type |-> "filestorage_bucket", bucket |-> task, file |-> tests]
Output == [type |-> "other_step", bucket |-> artifact, file |-> binary]

TypeMC == (run :> "run_py") @@ (again :> "run_cpp") @@ (check :> "check_cpp")
SourcesMC == (run :> <<Inline, OfTask>>) @@ (again :> <<Output, Inline>>)
               @@ (check :> <<Output, Output, Output>>)
FaultsMC == [c \in Calls |-> IF c = again THEN {} ELSE FaultKinds]
StoredMC == (inline :> {}) @@ (task :> {tests}) @@ (artifact :> {binary})
=============================================================================
