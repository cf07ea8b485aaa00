----------------------------- MODULE TestingSteps -----------------------------
(***************************************************************************)
(* Taski: the steps that testing a solution of a task takes, as they are   *)
(* sent to Exesh (the JSON of module Steps).                               *)
(*                                                                         *)
(* A task is [type, tests, solution, checker]: the ids of its tests and    *)
(* the languages of its own solution and of its checker.                   *)
(***************************************************************************)
EXTENDS Steps, Integers

Languages == {"C++", "Python", "Golang"}

\* The sources: a file of the task's bucket, the solution, the output of a step.  A
\* source that was never set is marshalled as null, which has no type.
TaskFile(file) == [type |-> "filestorage_bucket", step |-> <<>>, file |-> file]
InlineSource == [type |-> "inline", step |-> <<>>, file |-> <<>>]
OtherStepSource(name) == [type |-> "other_step", step |-> name, file |-> <<>>]
NoSource == [type |-> "", step |-> <<>>, file |-> <<>>]

TestingStep(name, type, sources) == [name |-> name, type |-> type, sources |-> sources]

\* NewRunPyStep, too, makes a step of type run_go.
RunType == [l \in Languages |-> IF l = "C++" THEN "run_cpp" ELSE "run_go"]

RunTypes == {"run_cpp", "run_py", "run_go"}

\* A program in C++ is compiled first and its runs take the compiled code; a
\* program in another language is run from its source; in no language, not at all.
CompileSteps(who, lang, source) ==
  IF lang = "C++" THEN <<TestingStep(<<"compile", who>>, "compile_cpp", <<source>>)>> ELSE <<>>

RunSteps(who, lang, source, tests) ==
  LET code == IF lang = "C++" THEN OtherStepSource(<<"compile", who>>) ELSE source
  IN  IF lang \in Languages
        THEN [k \in DOMAIN tests |->
                TestingStep(<<"run", who, tests[k]>>, RunType[lang], <<code, TaskFile(<<"input", tests[k]>>)>>)]
        ELSE <<>>

\* Variant: the map of the correct outputs is asked for both.
OutputOfCorrect(who, lang, test) ==
  IF lang \in Languages THEN OtherStepSource(<<"run", "correct", test>>) ELSE NoSource

\* correctOutputs and suspectOutputs: maps with no entry if nothing was run.
OutputOf(who, lang, test) ==
  IF lang \in Languages THEN OtherStepSource(<<"run", who, test>>) ELSE NoSource

CheckSteps(task, lang, tests) ==
  [k \in DOMAIN tests |->
     TestingStep(<<"check", tests[k]>>, "check_cpp",
                 <<OtherStepSource(<<"compile", "checker">>),
                   OutputOf("correct", task.solution, tests[k]),
                   OutputOf("suspect", lang, tests[k])>>)]

\* CreateTestingSteps of a write-code task: there are no steps for other types,
\* and no checks by a checker in another language than C++.
HasTestingSteps(task) == task.type = "write_code"

CreateTestingSteps(task, lang) ==
  CompileSteps("correct", task.solution, TaskFile(<<"solution">>))
    \o RunSteps("correct", task.solution, TaskFile(<<"solution">>), task.tests)
    \o CompileSteps("suspect", lang, InlineSource)
    \o RunSteps("suspect", lang, InlineSource, task.tests)
    \o CompileSteps("checker", task.checker, TaskFile(<<"checker">>))
    \o IF task.checker = "C++" THEN CheckSteps(task, lang, task.tests) ELSE <<>>

\* What these steps are for: each test has a check that waits for the outputs of
\* both programs, which are run on the input of this test.
Checks(steps, test) ==
  \E c, p, q \in ToSet(steps) :
    /\ c.type = "check_cpp"
    /\ c.sources = <<OtherStepSource(<<"compile", "checker">>), OtherStepSource(p.name),
                     OtherStepSource(q.name)>>
    /\ p.name = <<"run", "correct", test>> /\ q.name = <<"run", "suspect", test>>
    /\ \A r \in {p, q} : r.type \in RunTypes /\ r.sources[2] = TaskFile(<<"input", test>>)
=============================================================================
