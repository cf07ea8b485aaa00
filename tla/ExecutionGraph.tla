--------------------------- MODULE ExecutionGraph ---------------------------
(***************************************************************************)
(* The graph of an execution: newGraph orders the steps once (Search, call *)
(* by call, and NewGraph, which reverses what was found), pickSteps hands  *)
(* out, in that order, the steps whose dependencies are done, and doneStep *)
(* marks a step done.  These two run under the graph's mutex, so each is   *)
(* one action here; who calls them when is ExecutionScheduler's.           *)
(***************************************************************************)
EXTENDS GraphSearch, FiniteSets

VARIABLES
  built,            \* newGraph has returned
  topSortOrder,     \* the names of the steps in the order of the graph
  lastPickedStep,   \* index (from 0) of the last step picked, -1 at first
  doneSteps         \* the names doneStep was called with

graphVars == <<searchVars, built, topSortOrder, lastPickedStep, doneSteps>>

Init ==
  /\ SearchInit
  /\ built = FALSE
  /\ topSortOrder = <<>>
  /\ lastPickedStep = -1
  /\ doneSteps = {}

\* Variant: newGraph does not reverse what topSort has found.
OrderAsFound == [k \in DOMAIN found |-> steps[found[k]].name]

Order == [k \in DOMAIN found |-> steps[Reverse(found)[k]].name]

Search == (Visit \/ Return) /\ UNCHANGED <<built, topSortOrder, lastPickedStep, doneSteps>>

NewGraph ==
  /\ ~ built /\ Searched
  /\ built' = TRUE /\ topSortOrder' = Order
  /\ UNCHANGED <<searchVars, lastPickedStep, doneSteps>>

Dependencies(n) == GetDependencies(StepNamed(steps, n))

\* Variants: a dependency that no step has is ignored; a step with dependencies
\* is never ready.
CanPickKnown(n) == Dependencies(n) \cap Names(steps) \subseteq doneSteps
CanPickRoots(n) == Dependencies(n) = {}

CanPick(n) == Dependencies(n) \subseteq doneSteps

\* The steps pickSteps has returned so far; Go's index k is k+1 here.
Picked == {topSortOrder[k] : k \in 1 .. lastPickedStep + 1}

PickSteps ==
  /\ built
  /\ \E last \in lastPickedStep .. Len(topSortOrder) - 1 :
       /\ \A k \in lastPickedStep + 2 .. last + 1 : CanPick(topSortOrder[k])
       /\ last + 1 < Len(topSortOrder) => ~ CanPick(topSortOrder[last + 2])
       /\ lastPickedStep' = last
  /\ UNCHANGED <<searchVars, built, topSortOrder, doneSteps>>

DoneStep(n) ==
  /\ n \in Picked \ doneSteps
  /\ doneSteps' = doneSteps \cup {n}
  /\ UNCHANGED <<searchVars, built, topSortOrder, lastPickedStep>>

IsDone == lastPickedStep = Len(topSortOrder) - 1

Next == Search \/ NewGraph \/ PickSteps \/ \E n \in Picked : DoneStep(n)

Spec == Init /\ [][Next]_graphVars

\* Whoever picked a step marks it done in the end and then picks again.
FairSpec == Spec /\ WF_graphVars(Next)

-----------------------------------------------------------------------------
\* What the code computes, against definitions that do not walk the graph.

Known == \A n \in Names(steps) : Dependencies(n) \subseteq Names(steps)

\* A set of steps each of which waits for another one in the set is a cycle.
Acyclic == \A S \in (SUBSET Names(steps)) \ {{}} :
              \E n \in S : Dependencies(n) \cap S = {}

TypeOK ==
  /\ used \subseteq Positions
  /\ calls \in Seq(Positions) /\ IsInjective(calls)
  /\ found \in Seq(Positions)
  /\ remaining \in [{Root} \cup Positions -> 0 .. Len(steps)]
  /\ built \in BOOLEAN
  /\ topSortOrder \in Seq(Names(steps))
  /\ lastPickedStep \in -1 .. Len(topSortOrder) - 1
  /\ doneSteps \subseteq Names(steps)

\* newGraph lists every step exactly once, and on a graph without cycles puts
\* each step after all the steps it depends on.
OrderIsTopological ==
  built =>
    /\ Len(topSortOrder) = Len(steps)
    /\ ToSet(topSortOrder) = Names(steps)
    /\ Acyclic => \A j, k \in DOMAIN topSortOrder :
          topSortOrder[j] \in Dependencies(topSortOrder[k]) => j < k

\* Steps that do not depend on each other keep the order of the request: that
\* is what walking the steps and the successors backwards is for.
OrderIsStable ==
  built /\ (\A n \in Names(steps) : Dependencies(n) = {})
     => \A k \in DOMAIN topSortOrder : topSortOrder[k] = steps[k].name

\* The walk finds what the recursive function computes, also on graphs with cycles.
OrderAsComputed == built => topSortOrder = TopSortOrder(steps)

\* Handing out no more than a prefix of the order never gets stuck: whatever
\* the order in which the steps are done, a graph without cycles and unknown
\* names is worked off.
WorkedOff == (Known /\ Acyclic) ~> (doneSteps = Names(steps))

\* The API does not refuse the other graphs; they are never worked off.
OnlyAcyclicWorkedOff == doneSteps = Names(steps) => Known /\ Acyclic

-----------------------------------------------------------------------------
\* getDependencies reports the steps whose output the step reads: those that
\* JobFactory.createInput will look up.
DependenciesSeen == \A s \in ToSet(steps) : ReadsOutputOf(s) \subseteq GetDependencies(s)
=============================================================================
