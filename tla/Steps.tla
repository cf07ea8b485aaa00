------------------------------- MODULE Steps --------------------------------
(***************************************************************************)
(* The steps of an execution as the Exesh API receives them (JSON) and as  *)
(* the coordinator holds them (Go values), and the validation that         *)
(* UseCase.Execute makes before a list of steps becomes an execution.      *)
(*                                                                         *)
(* A JSON step is [name, type, sources], its sources in the order of the   *)
(* fields of its Go type; a JSON source is [type, step].  Contents,        *)
(* limits, buckets and file names play no part here.                       *)
(***************************************************************************)
EXTENDS Sequences, SequencesExt

\* The sources of each type of step, in the order of its fields.
CompileCppStep == <<"code">>
RunCppStep == <<"compiled_code", "run_input">>
RunPyStep == <<"code", "run_input">>
RunGoStep == <<"code", "run_input">>
CheckCppStep == <<"compiled_checker", "correct_output", "suspect_output">>

GetSources == [compile_cpp |-> CompileCppStep, run_cpp |-> RunCppStep,
               run_py |-> RunPyStep, run_go |-> RunGoStep, check_cpp |-> CheckCppStep]

StepTypes == DOMAIN GetSources
SourceTypes == {"other_step", "inline", "filestorage_bucket"}

\* UnmarshalSourceJSON: what it returns is a POINTER to the struct of the type.
UnmarshalSource(json) == [type |-> json.type, step |-> json.step,
                          form |-> "pointer"]

\* UnmarshalStepJSON fails on an unknown type, and UnmarshalJSON of the type on
\* a missing source or one of an unknown type.
Decodes(json) ==
  /\ json.type \in StepTypes
  /\ Len(json.sources) >= Len(GetSources[json.type])
  /\ \A k \in DOMAIN GetSources[json.type] : json.sources[k].type \in SourceTypes

UnmarshalStep(json) ==
  [name |-> json.name, type |-> json.type,
   sources |-> [k \in DOMAIN GetSources[json.type] |-> UnmarshalSource(json.sources[k])]]

\* UnmarshalStepsJSON: all steps or, if one does not decode, none.
AllDecode(jsons) == \A j \in DOMAIN jsons : Decodes(jsons[j])

UnmarshalSteps(jsons) == [j \in DOMAIN jsons |-> UnmarshalStep(jsons[j])]

\* UseCase.Execute refuses a list in which two steps have the same name.
NamesUnique(steps) ==
  \A i, j \in DOMAIN steps : steps[i].name = steps[j].name => i = j

\* POST /execute makes the list of steps an execution.
Accepts(jsons) == AllDecode(jsons) /\ NamesUnique(UnmarshalSteps(jsons))

\* getDependencies: the type assertion source.(sources.OtherStepSource) holds
\* of a struct VALUE only.
GetDependencies(step) ==
  {s.step : s \in {t \in ToSet(step.sources) :
                      t.type = "other_step" /\ t.form = "value"}}

\* The steps whose job JobFactory.createInput looks up for this step: there the
\* assertion is on the pointer.
ReadsOutputOf(step) ==
  {s.step : s \in {t \in ToSet(step.sources) :
                      t.type = "other_step" /\ t.form = "pointer"}}
=============================================================================
