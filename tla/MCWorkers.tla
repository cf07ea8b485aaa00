------------------------------ MODULE MCWorkers ------------------------------
(***************************************************************************)
(* Two workers.  A program is compiled on one and run on the other; its    *)
(* output is the input of two more runs, in two languages, of one text,    *)
(* which so have one id.  Their outputs are compared, while a text with    *)
(* the id of the comparison is compiled on the same worker.                *)
(***************************************************************************)
EXTENDS Workers, TLC

CONSTANTS w1, w2, code, program, output, output2, verdict, compile, clash, run, runPy, runGo, check

From(b, n, w) == [path |-> <<b, n>>, from |-> w]

TypeMC == [c \in {compile, clash} |-> "compile_cpp"] @@ (run :> "run_cpp")
            @@ (runPy :> "run_py") @@ (runGo :> "run_go") @@ (check :> "check_cpp")
IdMC == (compile :> program) @@ (run :> output) @@ [c \in {runPy, runGo} |-> output2]
          @@ [c \in {check, clash} |-> verdict]
WorkerMC == [c \in Calls |-> IF c \in {run, runPy, runGo} THEN w2 ELSE w1]

Code == From(code, "source", Endpoint)
InputsMC == [c \in {compile, clash} |-> <<Code>>]
              @@ (run :> <<From(program, "bin", w1), Code>>)
              @@ (check :> <<From(program, "bin", w1)>> \o [k \in 1 .. 2 |-> From(output2, "output", w2)])
              @@ [c \in {runPy, runGo} |-> <<Code, From(output, "output", w2)>>]
ShowOutputMC == [c \in Calls |-> c = run]
=============================================================================
