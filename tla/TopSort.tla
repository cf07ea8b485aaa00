------------------------------ MODULE TopSort -------------------------------
(***************************************************************************)
(* newGraph, the part that computes: the order in which the steps of an    *)
(* execution will be handed out.  Names are unique: a step is its position *)
(* in the list.                                                            *)
(***************************************************************************)
EXTENDS Steps, Integers

Names(steps) == {steps[i].name : i \in DOMAIN steps}

StepNamed(steps, n) == CHOOSE s \in ToSet(steps) : s.name = n

\* succSteps: the steps that depend on step i.
SuccSteps(steps, i) == {j \in DOMAIN steps : steps[i].name \in GetDependencies(steps[j])}

\* graph.used, graph.topSortOrder, and the steps that the loop at work in
\* topSort or dfs has still to look at.
SearchAt(used, order, left) == [used |-> used, order |-> order, left |-> left]

Searches(steps) ==
  [used : SUBSET DOMAIN steps, order : Seq(DOMAIN steps), left : SUBSET DOMAIN steps]

\* Variant: the loops go through the steps first to last.
FirstOf(S) == Min(S)

\* The loops go last to first, over the list as over the successors.
NextOf(S) == Max(S)

\* What the loop makes of search s: a step that is not used yet goes through a loop
\* of its own, over its successors, and is appended after it.
Loop(steps) ==
  LET loop[s \in Searches(steps)] ==
        LET j == NextOf(s.left)
            rest == s.left \ {j}
            inner == loop[SearchAt(s.used \cup {j}, s.order, SuccSteps(steps, j))]
        IN  IF s.left = {} THEN s
            ELSE IF j \in s.used THEN loop[SearchAt(s.used, s.order, rest)]
            ELSE loop[SearchAt(inner.used, Append(inner.order, j), rest)]
  IN  loop

\* topSort: the loop over all steps.
DfsOrder(steps) == Loop(steps)[SearchAt({}, <<>>, DOMAIN steps)].order

\* newGraph reverses it: what is reached from a step comes after the step.
TopSortOrder(steps) ==
  LET found == DfsOrder(steps) IN [k \in DOMAIN found |-> steps[Reverse(found)[k]].name]
=============================================================================
