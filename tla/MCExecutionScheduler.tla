------------------------ MODULE MCExecutionScheduler ------------------------
(***************************************************************************)
(* Instances of ExecutionScheduler for TLC.  The graphs are written out    *)
(* here; TLC checks once, before a run, that they are what the codec and   *)
(* the topological sort (modules Steps and TopSort) make of the requests.  *)
(***************************************************************************)
EXTENDS SchedulerRefinement, Sequences, TLC

T == INSTANCE TopSort

Inline == [type |-> "inline", step |-> "-"]
OutputOf(n) == [type |-> "other_step", step |-> n]

Compile(n) == [name |-> n, type |-> "compile_cpp", sources |-> <<Inline>>]
RunOf(n, c) == [name |-> n, type |-> "run_cpp", sources |-> <<OutputOf(c), Inline>>]

Single == <<Compile("compile")>>
Chain == <<Compile("compile"), RunOf("run", "compile")>>
Fork == <<Compile("compile"), RunOf("run1", "compile"), RunOf("run2", "compile")>>
Race == <<Compile("compile1"), Compile("compile2"),
          RunOf("run1", "compile1"), RunOf("run2", "compile2")>>

\* The steps as the coordinator decodes them, and the same steps in the form
\* for which getDependencies sees their sources.
Decoded(request) == T!UnmarshalSteps(request)

Declared(request) ==
  [j \in DOMAIN request |->
     [Decoded(request)[j] EXCEPT !.sources =
        [k \in DOMAIN @ |-> [@[k] EXCEPT !.form = "value"]]]]

\* Whether length, deps and inputs describe the graph of the steps, which were
\* decoded from the request.
Describes(length, deps, inputs, steps, request) ==
  LET order == T!TopSortOrder(steps)
      Step(i, list) == T!StepNamed(list, order[i])
  IN  /\ length = Len(order)
      /\ \A i \in 1 .. length :
           /\ {order[d] : d \in deps[i]} = T!GetDependencies(Step(i, steps))
           /\ {order[d] : d \in inputs[i]} = T!ReadsOutputOf(Step(i, Decoded(request)))

\* Execution 1 compiles and then runs twice.  Execution 2 is as the coordinator
\* decodes it: nobody waits for the compilation.
ForkLength == (1 :> 3) @@ (2 :> 2)
ForkDeps == (1 :> <<{}, {1}, {1}>>) @@ (2 :> <<{}, {}, {}>>)
ForkInputs == (1 :> <<{}, {1}, {1}>>) @@ (2 :> <<{}, {1}, {}>>)

\* Two compilations and a run of each: their callbacks race for the next steps.
RaceLength == 1 :> 4
RaceDeps == 1 :> <<{}, {}, {1}, {2}>>

\* The same steps as the coordinator decodes them.
FlatDeps == 1 :> <<{}, {}, {}, {}>>

\* Two executions of one step, for two coordinators with two slots each.
SoloLength == (1 :> 1) @@ (2 :> 0)
SoloDeps == (1 :> <<{}>>) @@ (2 :> <<{}>>)

\* Two short executions, for two coordinators.
PairLength == (1 :> 2) @@ (2 :> 1)
PairDeps == (1 :> <<{}, {1}>>) @@ (2 :> <<{}, {}>>)

ASSUME GraphsAreBuilt ==
  /\ Describes(3, ForkDeps[1], ForkInputs[1], Declared(Fork), Fork)
  /\ Describes(2, ForkDeps[2], ForkInputs[2], Decoded(Chain), Chain)
  /\ Describes(4, RaceDeps[1], RaceDeps[1], Declared(Race), Race)
  /\ Describes(4, FlatDeps[1], RaceDeps[1], Decoded(Race), Race)
  /\ Describes(2, PairDeps[1], PairDeps[1], Declared(Chain), Chain)
  /\ Describes(1, SoloDeps[1], SoloDeps[1], Declared(Single), Single)
  /\ Describes(0, SoloDeps[2], SoloDeps[2], <<>>, <<>>)
  /\ Describes(1, PairDeps[2], PairDeps[2], Declared(Single), Single)
=============================================================================
