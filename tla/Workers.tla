------------------------------- MODULE Workers -------------------------------
(***************************************************************************)
(* Exesh workers: the executors of the five types of job, the providers    *)
(* through which they reach their inputs and outputs, and the file storage *)
(* of each worker (an external library, modelled from how the providers    *)
(* use it).                                                                *)
(*                                                                         *)
(* An artifact is a file in a bucket named by the id of the job that makes *)
(* it.  An id is a hash of contents that leaves out the type: calls of     *)
(* Execute for different executions, on one worker or on several, may be   *)
(* for the same id, two runs for the same file, and a compilation and a    *)
(* check for two files of one bucket.                                      *)
(***************************************************************************)
EXTENDS Integers, Sequences

CONSTANTS
  Workers,          \* the worker processes, each with its own file storage
  Endpoint,         \* the file storage where the tasks' files are kept
  Buckets,          \* bucket ids: those of artifacts and of the tasks' files
  Calls,            \* calls of JobExecutor.Execute
  Type,             \* Type[c]: the type of the job
  Id,               \* Id[c]: its id, the bucket of its output
  Worker,           \* Worker[c]: where it is executed
  Inputs,           \* Inputs[c]: its inputs in order, each [path, from]
  ShowOutput,       \* ShowOutput[c], of a run job
  Faults            \* the kinds of failure considered, a subset of FaultKinds

FaultKinds == {"storage", "open"}

RunTypes == {"run_cpp", "run_py", "run_go"}
JobTypes == {"compile_cpp", "check_cpp"} \cup RunTypes

\* The names of the files in artifacts' buckets, as the coordinator is configured;
\* "source" is any file in a bucket of a task or an execution.
Names == {"bin", "output", "verdict", "source"}

OutputName(type) ==
  CASE type = "compile_cpp" -> "bin"
    [] type \in RunTypes -> "output"
    [] type = "check_cpp" -> "verdict"

Paths == Buckets \X Names

\* Token 0 stands for the output of a call, k for its input k.
Tokens == 0 .. 3

ASSUME CallsAssumption ==
  /\ Endpoint \notin Workers
  /\ Type \in [Calls -> JobTypes]
  /\ Id \in [Calls -> Buckets]
  /\ Worker \in [Calls -> Workers]
  /\ ShowOutput \in [Calls -> BOOLEAN]
  /\ \A c \in Calls : /\ Inputs[c] \in Seq([path : Paths, from : Workers \cup {Endpoint}])
                      /\ Len(Inputs[c]) \in 1 .. 3

VARIABLES
  file,             \* file[w][<<b, n>>]: file n of bucket b in w's file storage
  locks,            \* the unlock functions <<c, k>> nobody has called yet
  pc,               \* pc[c]: what call c does next
  input,            \* input[c]: the number of the input it is at
  deferred,         \* deferred[c]: the tokens whose unlock is deferred
  result            \* result[c]: what it has answered

vars == <<file, locks, pc, input, deferred, result>>

\* A file is invisible until its creation is committed.  It is "unfinished"
\* from then on if it is committed before it is written.
FileStates == {"absent", "reserved", "unfinished", "whole"}

Places == {"waiting", "download", "getFile", "create", "commit", "output",
           "command", "readBack", "answered"}

TypeOK ==
  /\ file \in [Workers -> [Paths -> FileStates]]
  /\ locks \subseteq Calls \X Tokens
  /\ \A t \in locks : t[2] <= Len(Inputs[t[1]])
  /\ \A c \in Calls : {<<c, k>> : k \in deferred[c]} \subseteq locks
  /\ pc \in [Calls -> Places]
  /\ input \in [Calls -> 1 .. 3]
  /\ \A c \in Calls : input[c] <= Len(Inputs[c])
  /\ deferred \in [Calls -> SUBSET Tokens]
  /\ result \in [Calls -> {"none", "OK", "CE", "RE", "WA", "error"}]

Init ==
  /\ file = [w \in Workers |-> [p \in Paths |-> "absent"]]
  /\ locks = {}
  /\ pc = [c \in Calls |-> "waiting"]
  /\ input = [c \in Calls |-> 1]
  /\ deferred = [c \in Calls |-> {}]
  /\ result = [c \in Calls |-> "none"]

-----------------------------------------------------------------------------
(***************************************************************************)
(* The file storage (external).                                            *)
(***************************************************************************)

Seen == {"unfinished", "whole"}

Visible(w, p) == file[w][p] \in Seen

\* A bucket can be seen if a file of it can; it is in creation if its first file
\* is reserved.
Present(w, b) == \E n \in Names : Visible(w, <<b, n>>)
Absent(w, b) == \A n \in Names : file[w][<<b, n>>] = "absent"

OutputPath(c) == <<Id[c], OutputName(Type[c])>>

Path(c, k) == IF k = 0 THEN OutputPath(c) ELSE Inputs[c][k].path

Locked(w, b) == \E t \in locks : Worker[t[1]] = w /\ Path(t[1], t[2])[1] = b

Output(c) == file[Worker[c]][OutputPath(c)]

SetOutput(c, state) == file' = [file EXCEPT ![Worker[c]][OutputPath(c)] = state]

\* The files of w's bucket b become what they are in copy.
SetBucket(w, b, copy) ==
  file' = [file EXCEPT ![w] = [p \in Paths |-> IF p[1] = b THEN copy[p] ELSE @[p]]]

\* What can be downloaded from a worker is what can be seen there.
Sends(from, b) == IF from = Endpoint THEN TRUE ELSE Present(from, b)

Sent(from) ==
  [p \in Paths |-> IF from = Endpoint THEN (IF p[2] = "source" THEN "whole" ELSE "absent")
                   ELSE IF Visible(from, p) THEN file[from][p] ELSE "absent"]

\* The trash time of a bucket comes: it goes, unless a file of it is locked or
\* being created.
Expire(w, b) ==
  /\ Present(w, b) /\ ~ Locked(w, b)
  /\ \A n \in Names : file[w][<<b, n>>] # "reserved"
  /\ SetBucket(w, b, [p \in Paths |-> "absent"])
  /\ UNCHANGED <<locks, pc, input, deferred, result>>

-----------------------------------------------------------------------------
(***************************************************************************)
(* What the executors have in common.                                      *)
(***************************************************************************)

GoTo(c, place) == pc' = [pc EXCEPT ![c] = place]

\* Variant: the return runs no deferred call.
ReturnLocked(c, answer) ==
  /\ GoTo(c, "answered")
  /\ result' = [result EXCEPT ![c] = answer]
  /\ UNCHANGED <<locks, deferred, input>>

\* Execute returns: the deferred unlocks run.
Return(c, answer) ==
  /\ GoTo(c, "answered")
  /\ result' = [result EXCEPT ![c] = answer]
  /\ locks' = locks \ {<<c, k>> : k \in deferred[c]}
  /\ deferred' = [deferred EXCEPT ![c] = {}]
  /\ UNCHANGED input

\* The job factory finds the worker of an artifact only when a job with that
\* id has answered; whether it has failed plays no part.
Begin(c) ==
  /\ pc[c] = "waiting"
  /\ \A k \in DOMAIN Inputs[c] : Inputs[c][k].from # Endpoint =>
       \E d \in Calls : /\ pc[d] = "answered"
                        /\ Worker[d] = Inputs[c][k].from /\ Id[d] = Inputs[c][k].path[1]
  /\ GoTo(c, "download")
  /\ UNCHANGED <<file, locks, input, deferred, result>>

\* Locate and Read of an input first download its bucket, if it is not there;
\* whether it has the file plays no part.
Download(c) ==
  LET w == Worker[c]
      b == Inputs[c][input[c]].path[1]
      from == Inputs[c][input[c]].from
  IN
  /\ pc[c] = "download"
  /\ \/ /\ Present(w, b)
        /\ GoTo(c, "getFile") /\ UNCHANGED <<file, locks, input, deferred, result>>
     \/ /\ Absent(w, b) /\ Sends(from, b)
        /\ SetBucket(w, b, Sent(from))
        /\ GoTo(c, "getFile") /\ UNCHANGED <<locks, input, deferred, result>>
     \/ /\ \/ ~ Present(w, b) /\ ~ Absent(w, b)
           \/ Absent(w, b) /\ ~ Sends(from, b)
           \/ "storage" \in Faults
        /\ Return(c, "error") /\ UNCHANGED file

\* Run jobs read their second input; all other inputs are only located.
Reads(c, k) == Type[c] \in RunTypes /\ k = 2

\* Variant: the file is unlocked as soon as its path is known.
TakesLockNever(c, k) == UNCHANGED locks

\* GetFile locks the bucket.
TakesLock(c, k) == locks' = locks \cup {<<c, k>>}

GetFile(c) ==
  LET k == input[c] IN
  /\ pc[c] = "getFile"
  /\ \/ /\ Visible(Worker[c], Path(c, k))
        /\ TakesLock(c, k)
        /\ deferred' = [deferred EXCEPT ![c] = @ \cup {k}]
        /\ IF k < Len(Inputs[c])
             THEN GoTo(c, "download") /\ input' = [input EXCEPT ![c] = k + 1]
             ELSE GoTo(c, "create") /\ UNCHANGED input
        /\ UNCHANGED <<file, result>>
     \/ /\ ~ Visible(Worker[c], Path(c, k)) \/ "storage" \in Faults
        /\ Return(c, "error") /\ UNCHANGED file

\* Read has the lock but cannot open the file: nobody gets to call unlock.
OpenFails(c) ==
  LET k == input[c] IN
  /\ "open" \in Faults
  /\ pc[c] = "getFile" /\ Reads(c, k) /\ Visible(Worker[c], Path(c, k))
  /\ locks' = (locks \cup {<<c, k>>}) \ {<<c, i>> : i \in deferred[c]}
  /\ deferred' = [deferred EXCEPT ![c] = {}]
  /\ result' = [result EXCEPT ![c] = "error"]
  /\ GoTo(c, "answered")
  /\ UNCHANGED <<file, input>>

\* The compiler is given a path: its output must be visible before it runs.
AfterCreate(c) == IF Type[c] = "compile_cpp" THEN "commit" ELSE "command"

\* Create: CreateBucket, and CreateFile if the bucket exists, which fails if the
\* file exists, too, or the bucket is being created.  If the file cannot be opened
\* the creation is aborted.
Create(c) ==
  LET creatable == Absent(Worker[c], Id[c]) \/ (Present(Worker[c], Id[c]) /\ Output(c) = "absent")
  IN
  /\ pc[c] = "create"
  /\ \/ /\ creatable
        /\ SetOutput(c, "reserved") /\ GoTo(c, AfterCreate(c))
        /\ UNCHANGED <<locks, input, deferred, result>>
     \/ /\ ~ creatable \/ Faults # {}
        /\ Return(c, "error") /\ UNCHANGED file

\* A commit that fails is followed by abort.
CommitFails(c) ==
  /\ "storage" \in Faults
  /\ pc[c] = "commit"
  /\ SetOutput(c, "absent") /\ Return(c, "error")

WholeInputs(c) ==
  \A k \in DOMAIN Inputs[c] : file[Worker[c]][Path(c, k)] = "whole"

TakeInputs(c) == Begin(c) \/ Download(c) \/ GetFile(c) \/ OpenFails(c)

-----------------------------------------------------------------------------
(***************************************************************************)
(* The executors.  A command that reads what is not whole does not end     *)
(* well; otherwise it may end in any way.                                  *)
(***************************************************************************)

\* The empty output becomes visible, and is located and locked for g++.
CommitEmpty(c) ==
  /\ pc[c] = "commit"
  /\ SetOutput(c, "unfinished") /\ GoTo(c, "output")
  /\ UNCHANGED <<locks, input, deferred, result>>

LocateOutput(c) ==
  /\ pc[c] = "output"
  /\ \/ /\ Visible(Worker[c], OutputPath(c))
        /\ locks' = locks \cup {<<c, 0>>}
        /\ deferred' = [deferred EXCEPT ![c] = @ \cup {0}]
        /\ GoTo(c, "command")
        /\ UNCHANGED <<file, input, result>>
     \/ /\ ~ Visible(Worker[c], OutputPath(c)) \/ "storage" \in Faults
        /\ Return(c, "error") /\ UNCHANGED file

\* Variant: the outcome of the command is not looked at.
CompileErrorsUnseen == {"OK"}

CompileErrors == {"CE", "error"}

\* g++ writes the output, or exits with an error, or cannot be run.
RunCompiler(c) ==
  /\ pc[c] = "command"
  /\ \/ WholeInputs(c) /\ SetOutput(c, "whole") /\ Return(c, "OK")
     \/ \E answer \in CompileErrors : Return(c, answer) /\ UNCHANGED file

CompileCpp(c) ==
  /\ Type[c] = "compile_cpp"
  /\ \/ TakeInputs(c) \/ Create(c) \/ CommitEmpty(c) \/ CommitFails(c)
     \/ LocateOutput(c) \/ RunCompiler(c)

\* Variant: the creation is not aborted.
FailedOutputStays(c) == UNCHANGED file

\* What becomes of the output of a command that fails: a run aborts its
\* creation, a check just returns.
FailedOutput(c) == IF Type[c] = "check_cpp" THEN UNCHANGED file ELSE SetOutput(c, "absent")

\* The program writes to the output that is not visible yet.
RunProgram(c) ==
  /\ pc[c] = "command"
  /\ \/ /\ WholeInputs(c) /\ GoTo(c, "commit")
        /\ UNCHANGED <<file, locks, input, deferred, result>>
     \/ /\ FailedOutput(c)
        /\ \E answer \in (IF Type[c] = "check_cpp" THEN {"error"} ELSE {"RE", "error"}) :
             Return(c, answer)

\* The output of a run is read again if it is to be shown, a verdict always.
ReadsBack(c) == Type[c] = "check_cpp" \/ (Type[c] \in RunTypes /\ ShowOutput[c])

CommitWritten(c) ==
  /\ pc[c] = "commit"
  /\ SetOutput(c, "whole")
  /\ IF ReadsBack(c) THEN GoTo(c, "readBack") /\ UNCHANGED <<locks, input, deferred, result>>
                     ELSE Return(c, "OK")

\* The unlock that Read returns with the output is never called.
ReadBack(c) ==
  /\ pc[c] = "readBack"
  /\ \/ /\ Visible(Worker[c], OutputPath(c))
        /\ locks' = (locks \cup {<<c, 0>>}) \ {<<c, k>> : k \in deferred[c]}
        /\ deferred' = [deferred EXCEPT ![c] = {}]
        /\ \E answer \in {"OK", "error"} \cup (IF Type[c] = "check_cpp" THEN {"WA"} ELSE {}) :
             result' = [result EXCEPT ![c] = answer]
        /\ GoTo(c, "answered") /\ UNCHANGED <<file, input>>
     \/ /\ ~ Visible(Worker[c], OutputPath(c)) \/ "storage" \in Faults
        /\ Return(c, "error") /\ UNCHANGED file

Run(c) ==
  \/ TakeInputs(c) \/ Create(c) \/ RunProgram(c) \/ CommitWritten(c) \/ CommitFails(c)
  \/ ReadBack(c)

RunCpp(c) == Type[c] = "run_cpp" /\ Run(c)
RunPy(c) == Type[c] = "run_py" /\ Run(c)
RunGo(c) == Type[c] = "run_go" /\ Run(c)
CheckCpp(c) == Type[c] = "check_cpp" /\ Run(c)

\* JobExecutor.Execute: the executor that supports the type of the job.
Execute(c) == CompileCpp(c) \/ RunCpp(c) \/ RunPy(c) \/ RunGo(c) \/ CheckCpp(c)

Next ==
  \/ \E c \in Calls : Execute(c)
  \/ \E w \in Workers, b \in Buckets : Expire(w, b)

Spec == Init /\ [][Next]_vars

-----------------------------------------------------------------------------
(***************************************************************************)
(* What the executors promise, and what they leave behind.                 *)
(***************************************************************************)

\* While a command runs, every file it was given is there, and is whole unless
\* it was made by a compiler: neither expiry nor another call, on this worker
\* or on the one it was downloaded from, takes it away or shows it half done.
InputsStay ==
  \A c \in Calls : pc[c] = "command" =>
    \A k \in DOMAIN Inputs[c] :
      \/ file[Worker[c]][Path(c, k)] = "whole"
      \/ /\ file[Worker[c]][Path(c, k)] = "unfinished"
         /\ \E d \in Calls : Type[d] = "compile_cpp" /\ OutputPath(d) = Path(c, k)

\* A call that has answered holds no lock, except on an output it has read back
\* or an input it could not open.  (A bucket that stays locked never expires.)
OnlyReadsLeaveLocks ==
  \A t \in locks : LET c == t[1]  k == t[2] IN
    \/ pc[c] # "answered"
    \/ k = 0 /\ ReadsBack(c)
    \/ Reads(c, k) /\ result[c] = "error"

\* A file that was reserved is committed or aborted in the end, except by a
\* check whose command failed.  (Nobody can make that artifact on this worker
\* any more.)
ReservationsEnd ==
  \A w \in Workers, p \in Paths : file[w][p] = "reserved" =>
    \E c \in Calls : /\ Worker[c] = w /\ OutputPath(c) = p
                     /\ \/ pc[c] \in {"commit", "command"}
                        \/ Type[c] = "check_cpp" /\ result[c] = "error"

\* A call reports success only if its artifact is there to be used, whoever else
\* was asked for the same id at the same time, for the same file or another one
\* of the bucket.
OkMeansWhole ==
  [][\A c \in Calls : result'[c] # result[c] /\ result'[c] \in {"OK", "WA"} =>
       file'[Worker[c]][OutputPath(c)] = "whole"]_vars
=============================================================================
