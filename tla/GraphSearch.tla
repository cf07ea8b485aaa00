----------------------------- MODULE GraphSearch -----------------------------
(***************************************************************************)
(* newGraph as it runs: the loops of topSort and dfs, one call or return   *)
(* at a time, with the stack of the calls.  Module TopSort says what they  *)
(* compute as a recursive function; a walk can be reasoned about for all   *)
(* lists of steps.  Names are unique: a step is its position in the list,  *)
(* and Root is the loop of topSort.                                        *)
(***************************************************************************)
EXTENDS TopSort

CONSTANTS
  StepLists         \* the step lists considered

\* The API has decoded them and found no name twice.
ASSUME StepListsAssumption ==
  \A list \in StepLists : list \in Seq(ToSet(list)) /\ NamesUnique(list)

VARIABLES
  steps,            \* the steps newGraph was called with
  used,             \* the steps dfs was called for
  calls,            \* the calls of dfs at work, the innermost one last
  remaining,        \* remaining[i]: the loop of dfs(i) has only steps up to this one left
  found             \* topSortOrder before newGraph reverses it

searchVars == <<steps, used, calls, remaining, found>>

Root == 0
Positions == 1 .. Len(steps)

\* Variant: a step is used only when its call has ended.
EnteredAtEnd(j) == j \in ToSet(found)

Entered(j) == j \in used

Caller == IF calls = <<>> THEN Root ELSE Last(calls)

\* Step j is in the list that the loop of i goes through: succSteps, or all steps.
Follows(i, j) == i = Root \/ steps[i].name \in GetDependencies(steps[j])

\* Both loops go through the steps from the last one to the first.
ToVisit == {j \in 1 .. remaining[Caller] : Follows(Caller, j)}

\* Variant: a step is appended before its loop is over.
LoopEndsAnyTime == TRUE

LoopEnds == ToVisit = {}

SearchInit ==
  /\ steps \in StepLists
  /\ used = {} /\ calls = <<>> /\ found = <<>>
  /\ remaining = [i \in {Root} \cup Positions |-> Len(steps)]

Visit ==
  /\ \E j \in ToVisit :
       /\ \A k \in ToVisit : k <= j
       /\ remaining' = [remaining EXCEPT ![Caller] = j - 1]
       /\ IF Entered(j)
            THEN UNCHANGED <<used, calls>>
            ELSE used' = used \cup {j} /\ calls' = Append(calls, j)
  /\ UNCHANGED <<steps, found>>

Return ==
  /\ calls # <<>> /\ LoopEnds
  /\ found' = Append(found, Last(calls)) /\ calls' = Front(calls)
  /\ UNCHANGED <<steps, used, remaining>>

Searched == calls = <<>> /\ LoopEnds
=============================================================================
