------------------------------ MODULE MCPlatform ------------------------------
(***************************************************************************)
(* An instance of Platform for TLC.                                        *)
(***************************************************************************)
EXTENDS Platform

CONSTANTS
  s1, s2, h1, h2, c1, c2, c3, c4, g1, g2, f1, alice, bob, carol, j1, j2, j3, j4

Task(type, tests, solution, checker) ==
  [type |-> type, tests |-> tests, solution |-> solution, checker |-> checker]

\* c1 and c2 submit the same solution; c3's task names a test twice, c4's task
\* has a solution in a language without steps.
MCTaskOf ==
  s1 :> Task("write_code", <<1, 2>>, "C++", "Python") @@
  s2 :> Task("write_code", <<1, 2>>, "Python", "Golang") @@
  c1 :> Task("write_code", <<1, 2>>, "C++", "C++") @@
  c2 :> Task("write_code", <<1, 2>>, "C++", "C++") @@
  c3 :> Task("write_code", <<1, 1>>, "Golang", "C++") @@
  c4 :> Task("write_code", <<1>>, "Rust", "C++") @@
  g1 :> Task("find_test", <<>>, "-", "-") @@
  g2 :> Task("predict_output", <<>>, "-", "-") @@
  f1 :> Task("fix_code", <<>>, "-", "-")

MCRequests == DOMAIN MCTaskOf

MCKind == [r \in MCRequests |-> IF r \in {g1, g2} THEN "get" ELSE IF r = f1 THEN "file" ELSE "test"]

\* Duely calls the id submission_id and the language language; Taski decodes
\* solution_id and lang, and so finds neither.
MCSolutionId == [r \in MCRequests |-> IF r \in {s1, s2} THEN "" ELSE IF r = c2 THEN "c1" ELSE ToString(r)]
MCLang == [r \in MCRequests |-> IF r \in {s1, s2} THEN "" ELSE IF r = c2 THEN "Python" ELSE "C++"]

MCUserOf == j1 :> alice @@ j2 :> bob @@ j3 :> alice @@ j4 :> carol

MCParties == {{s1, s2}, {s1, h1, h2}, {c1, c2, s2, g1}, {s1, c3, g2}, {c4, f1},
              {j1, j2, j3, j4}}
=============================================================================
