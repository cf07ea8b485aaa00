-------------------------- MODULE MCExecutionGraph --------------------------
(***************************************************************************)
(* Requests for TLC: every graph over a few steps.                         *)
(***************************************************************************)
EXTENDS ExecutionGraph, TestingSteps

CONSTANTS
  ThreeSteps, FourSteps,   \* names of steps
  Unknown                  \* a name that no step has

\* A step whose sources are the outputs of the steps in deps.
StepJson(n, deps) ==
  LET names == SetToSeq(deps)
      count == IF Len(names) <= 2 THEN 2 ELSE 3
  IN  [name |-> n, type |-> IF count = 2 THEN "run_cpp" ELSE "check_cpp",
       sources |-> [k \in 1 .. count |->
                      IF k <= Len(names) THEN [type |-> "other_step", step |-> names[k]]
                                         ELSE [type |-> "inline", step |-> "-"]]]

Request(names, deps) ==
  LET order == SetToSeq(names) IN [k \in DOMAIN order |-> StepJson(order[k], deps[order[k]])]

\* Three steps with any dependencies, one's own name and an unknown one among
\* them; four steps with any dependencies on each other.
AnyThree == {Request(ThreeSteps, g) :
               g \in [ThreeSteps -> kSubset(0, ThreeSteps \cup {Unknown})
                                      \cup kSubset(1, ThreeSteps \cup {Unknown})
                                      \cup kSubset(2, ThreeSteps \cup {Unknown})]}

AnyFour == {Request(FourSteps, g) :
              g \in {h \in [FourSteps -> SUBSET FourSteps] : \A n \in FourSteps : n \notin h[n]}}

\* Two steps with any names, types and sources.
AnyTwo ==
  LET sources == {[type |-> "inline", step |-> "-"], [type |-> "unknown", step |-> "-"]}
                   \cup [type : {"other_step"}, step : ThreeSteps]
      jsons == [name : ThreeSteps, type : {"compile_cpp", "run_py", "unknown"},
                sources : {<<s, [type |-> "inline", step |-> "-"]>> : s \in sources}]
  IN  {<<j, k>> : j, k \in jsons}

\* The steps as they are decoded, and in the form getDependencies expects.
Decoded(request) == UnmarshalSteps(request)

Declared(request) ==
  [j \in DOMAIN request |->
     [Decoded(request)[j] EXCEPT !.sources =
        [k \in DOMAIN @ |-> [@[k] EXCEPT !.form = "value"]]]]

Accepted == {r \in AnyTwo \cup AnyThree \cup AnyFour : Accepts(r)}

\* What Taski asks for to test a solution in C++ or in Python.
TestingTask == [type |-> "write_code", tests |-> <<1, 2>>, solution |-> "C++", checker |-> "C++"]
TestingLists == {Declared(CreateTestingSteps(TestingTask, lang)) : lang \in {"C++", "Python"}}

DecodedLists == {Decoded(r) : r \in Accepted \ AnyFour}
AllLists == {Declared(r) : r \in Accepted} \cup DecodedLists \cup TestingLists
=============================================================================
