------------------------------- MODULE JobFactory -------------------------------
(***************************************************************************)
(* JobFactory.Create: the coordinator turns a step into a job.  Each       *)
(* source of the step becomes an input (an inline source is written to a   *)
(* file of the execution's bucket first), and then the inputs are read     *)
(* once more, since the job's id is a hash of their contents.  (What they  *)
(* hold and the id are left out; jobs that share an id meet in Workers.)   *)
(*                                                                         *)
(* Several calls run at the same time, for steps of one execution (its     *)
(* callbacks) and of others, over the coordinator's file storage (an       *)
(* external library, modelled from how the providers use it).  Workers     *)
(* download the buckets of the jobs that were made from there.             *)
(***************************************************************************)
EXTENDS Integers, Sequences

CONSTANTS
  Calls,            \* calls of JobFactory.Create
  Type,             \* Type[c]: the type of the step
  Sources,          \* Sources[c]: its sources in order, each [type, bucket, file]
  Buckets,          \* bucket ids: of executions (inline sources), tasks and artifacts
  Files,            \* names of the files in tasks' and artifacts' buckets
  Stored,           \* Stored[b]: the files bucket b has where it comes from
  Workers,          \* workers, each with its copies of buckets
  Faults            \* Faults[c]: the kinds of failure call c may meet, a subset of FaultKinds

FaultKinds == {"lookup", "storage", "open"}

RunTypes == {"run_cpp", "run_py", "run_go"}
StepTypes == {"compile_cpp", "check_cpp"} \cup RunTypes
SourceTypes == {"other_step", "inline", "filestorage_bucket"}

\* The inputs that Create makes of a step, in the order in which it does.
InputCount(type) ==
  CASE type = "compile_cpp" -> 1
    [] type \in RunTypes -> 2
    [] type = "check_cpp" -> 3

\* A new file name per call and source: uuid.New().
Uuids == Calls \X (1 .. 3)

AllFiles == Files \cup Uuids

ASSUME CallsAssumption ==
  /\ Type \in [Calls -> StepTypes]
  /\ Faults \in [Calls -> SUBSET FaultKinds]
  /\ Stored \in [Buckets -> SUBSET Files]
  /\ Files \cap Uuids = {}
  /\ \A c \in Calls :
       /\ Sources[c] \in Seq([type : SourceTypes, bucket : Buckets, file : Files])
       /\ Len(Sources[c]) = InputCount(Type[c])
       \* An execution's bucket, named by a hash of its id, is filled by createInput only.
       /\ \A k \in DOMAIN Sources[c] :
            Sources[c][k].type = "inline" => Stored[Sources[c][k].bucket] = {}

VARIABLES
  bucket,           \* bucket[b]: whether the coordinator's storage has bucket b
  files,            \* files[b]: the files in it that can be seen
  locks,            \* the unlock functions <<c, k>> nobody has called yet
  pc,               \* pc[c]: what call c does next
  input,            \* input[c]: the number of the source or input it is at
  reserved,         \* reserved[c]: what it has reserved and not committed yet
  copy,             \* copy[w]: the files <<b, f>> that worker w has downloaded
  held,             \* held[w]: the buckets that w has downloaded
  missed,           \* inputs <<w, c, k>> that worker w could not find
  expired           \* history: buckets whose trash time has come somewhere

storage == <<bucket, files, locks, reserved>>
calls == <<pc, input>>
workers == <<copy, held, missed>>
vars == <<storage, calls, workers, expired>>

Places == {"waiting", "input", "write", "commit", "getFile", "unlock",
           "read", "open", "content", "made", "failed", "unopened"}

TypeOK ==
  /\ bucket \in [Buckets -> {"absent", "reserved", "present"}]
  /\ files \in [Buckets -> SUBSET AllFiles]
  /\ \A b \in Buckets : bucket[b] # "present" => files[b] = {}
  /\ locks \subseteq Uuids
  /\ pc \in [Calls -> Places]
  /\ input \in [Calls -> 1 .. 3]
  /\ \A c \in Calls : input[c] <= Len(Sources[c])
  /\ reserved \in [Calls -> {"nothing", "bucket", "file"}]
  /\ copy \in [Workers -> SUBSET (Buckets \X AllFiles)]
  /\ held \in [Workers -> SUBSET Buckets]
  /\ missed \subseteq Workers \X Calls \X (1 .. 3)
  /\ expired \subseteq Buckets

Init ==
  /\ bucket = [b \in Buckets |-> "absent"]
  /\ files = [b \in Buckets |-> {}]
  /\ locks = {}
  /\ pc = [c \in Calls |-> "waiting"]
  /\ input = [c \in Calls |-> 1]
  /\ reserved = [c \in Calls |-> "nothing"]
  /\ copy = [w \in Workers |-> {}]
  /\ held = [w \in Workers |-> {}]
  /\ missed = {}
  /\ expired = {}

-----------------------------------------------------------------------------
(***************************************************************************)
(* Names.                                                                  *)
(***************************************************************************)

Source(c) == Sources[c][input[c]]
Here(c) == Source(c).bucket

\* The file of an input: a fresh one of the execution's bucket for an inline
\* source, the one the source or the other job's output names otherwise.
FileOf(c, k) == IF Sources[c][k].type = "inline" THEN <<c, k>> ELSE Sources[c][k].file

\* Where an input's bucket can be downloaded from.  Once it is made the input of
\* an inline or bucket source names the coordinator itself.
FromElsewhere(c) == Source(c).type = "other_step" /\ FileOf(c, input[c]) \in Stored[Here(c)]

Locked(b) == \E t \in locks : Sources[t[1]][t[2]].bucket = b

-----------------------------------------------------------------------------
(***************************************************************************)
(* createInput.                                                            *)
(***************************************************************************)

GoTo(c, place) == pc' = [pc EXCEPT ![c] = place]

Fail(c) == GoTo(c, "failed") /\ UNCHANGED input

Begin(c) ==
  /\ pc[c] = "waiting"
  /\ GoTo(c, "input")
  /\ UNCHANGED <<storage, input, workers, expired>>

\* Variant: one input too many.
LastPastEnd(c) == input[c] > Len(Sources[c])

Last(c) == input[c] = Len(Sources[c])

\* The next source; after the last one, calculateID reads all inputs.
NextInput(c) ==
  IF Last(c) THEN input' = [input EXCEPT ![c] = 1] /\ GoTo(c, "read")
             ELSE input' = [input EXCEPT ![c] = @ + 1] /\ GoTo(c, "input")

\* The job of the other step, its output and its worker are looked up.
OtherStep(c) ==
  /\ pc[c] = "input" /\ Source(c).type = "other_step"
  /\ NextInput(c) \/ ("lookup" \in Faults[c] /\ Fail(c))
  /\ UNCHANGED <<storage, workers, expired>>

\* A bucket source is downloaded to the coordinator and located...
BucketSource(c) ==
  /\ pc[c] = "input" /\ Source(c).type = "filestorage_bucket"
  /\ \/ /\ bucket[Here(c)] = "absent"
        /\ bucket' = [bucket EXCEPT ![Here(c)] = "present"]
        /\ files' = [files EXCEPT ![Here(c)] = Stored[Here(c)]]
        /\ GoTo(c, "getFile") /\ UNCHANGED <<locks, reserved, input>>
     \/ /\ bucket[Here(c)] = "present"
        /\ GoTo(c, "getFile") /\ UNCHANGED <<storage, input>>
     \/ /\ bucket[Here(c)] = "reserved" \/ "storage" \in Faults[c]
        /\ Fail(c) /\ UNCHANGED storage
  /\ UNCHANGED <<workers, expired>>

LocateFile(c) ==
  /\ pc[c] = "getFile"
  /\ \/ /\ FileOf(c, input[c]) \in files[Here(c)]
        /\ locks' = locks \cup {<<c, input[c]>>}
        /\ GoTo(c, "unlock") /\ UNCHANGED <<bucket, files, reserved, input>>
     \/ /\ FileOf(c, input[c]) \notin files[Here(c)] \/ "storage" \in Faults[c]
        /\ Fail(c) /\ UNCHANGED storage
  /\ UNCHANGED <<workers, expired>>

\* ... and unlocked at once.
Unlock(c) ==
  /\ pc[c] = "unlock"
  /\ locks' = locks \ {<<c, input[c]>>}
  /\ NextInput(c)
  /\ UNCHANGED <<bucket, files, reserved, workers, expired>>

\* Create of an inline source's file: CreateBucket, or CreateFile if the bucket
\* exists.  While another call creates the bucket neither can be had.
Create(c) ==
  /\ pc[c] = "input" /\ Source(c).type = "inline"
  /\ \/ /\ bucket[Here(c)] = "absent"
        /\ bucket' = [bucket EXCEPT ![Here(c)] = "reserved"]
        /\ reserved' = [reserved EXCEPT ![c] = "bucket"]
        /\ GoTo(c, "write") /\ UNCHANGED <<files, locks, input>>
     \/ /\ bucket[Here(c)] = "present"
        /\ reserved' = [reserved EXCEPT ![c] = "file"]
        /\ GoTo(c, "write") /\ UNCHANGED <<bucket, files, locks, input>>
     \/ /\ bucket[Here(c)] = "reserved" \/ Faults[c] \cap {"storage", "open"} # {}
        /\ Fail(c) /\ UNCHANGED storage
  /\ UNCHANGED <<workers, expired>>

\* Variants: nobody aborts; a failed file takes the whole bucket with it.
AbortNever(c) == UNCHANGED <<bucket, files>> /\ reserved' = [reserved EXCEPT ![c] = "nothing"]
AbortBucket(c) ==
  /\ reserved' = [reserved EXCEPT ![c] = "nothing"]
  /\ bucket' = [bucket EXCEPT ![Here(c)] = "absent"]
  /\ files' = [files EXCEPT ![Here(c)] = {}]

\* The abort function is CreateBucket's or CreateFile's.
Abort(c) ==
  /\ reserved' = [reserved EXCEPT ![c] = "nothing"]
  /\ bucket' = [bucket EXCEPT ![Here(c)] = IF reserved[c] = "bucket" THEN "absent" ELSE @]
  /\ UNCHANGED files

Write(c) ==
  /\ pc[c] = "write"
  /\ \/ GoTo(c, "commit") /\ UNCHANGED <<storage, input>>
     \/ "storage" \in Faults[c] /\ Abort(c) /\ Fail(c) /\ UNCHANGED locks
  /\ UNCHANGED <<workers, expired>>

Commit(c) ==
  /\ pc[c] = "commit"
  /\ \/ /\ reserved' = [reserved EXCEPT ![c] = "nothing"]
        /\ bucket' = [bucket EXCEPT ![Here(c)] = "present"]
        /\ files' = [files EXCEPT ![Here(c)] = @ \cup {FileOf(c, input[c])}]
        /\ NextInput(c)
     \/ "storage" \in Faults[c] /\ Abort(c) /\ Fail(c)
  /\ UNCHANGED <<locks, workers, expired>>

CreateInput(c) ==
  OtherStep(c) \/ BucketSource(c) \/ LocateFile(c) \/ Unlock(c) \/ Create(c)
    \/ Write(c) \/ Commit(c)

-----------------------------------------------------------------------------
(***************************************************************************)
(* calculateID.                                                            *)
(***************************************************************************)

\* Read downloads the bucket if it is not there.  The coordinator cannot
\* download from itself what it has no longer.
Read(c) ==
  /\ pc[c] = "read"
  /\ \/ /\ bucket[Here(c)] = "present"
        /\ GoTo(c, "open") /\ UNCHANGED <<storage, input>>
     \/ /\ bucket[Here(c)] = "absent" /\ FromElsewhere(c)
        /\ bucket' = [bucket EXCEPT ![Here(c)] = "present"]
        /\ files' = [files EXCEPT ![Here(c)] = Stored[Here(c)]]
        /\ GoTo(c, "open") /\ UNCHANGED <<locks, reserved, input>>
     \/ /\ \/ bucket[Here(c)] = "reserved"
           \/ bucket[Here(c)] = "absent" /\ ~ FromElsewhere(c)
           \/ "storage" \in Faults[c]
        /\ Fail(c) /\ UNCHANGED storage
  /\ UNCHANGED <<workers, expired>>

\* The file is locked and opened; if it cannot be opened the lock stays.
Open(c) ==
  /\ pc[c] = "open"
  /\ \/ /\ FileOf(c, input[c]) \in files[Here(c)]
        /\ locks' = locks \cup {<<c, input[c]>>}
        /\ \/ GoTo(c, "content")
           \/ "open" \in Faults[c] /\ GoTo(c, "unopened")
        /\ UNCHANGED <<bucket, files, reserved, input>>
     \/ /\ FileOf(c, input[c]) \notin files[Here(c)] \/ "storage" \in Faults[c]
        /\ Fail(c) /\ UNCHANGED storage
  /\ UNCHANGED <<workers, expired>>

\* Variant: a read error keeps the lock.
UnlockIfRead(c) == locks' = IF pc'[c] = "failed" THEN locks ELSE locks \ {<<c, input[c]>>}

\* Either way the file is unlocked.
UnlockRead(c) == locks' = locks \ {<<c, input[c]>>}

ReadAll(c) ==
  /\ pc[c] = "content"
  /\ \/ Last(c) /\ GoTo(c, "made") /\ UNCHANGED input
     \/ ~ Last(c) /\ input' = [input EXCEPT ![c] = @ + 1] /\ GoTo(c, "read")
     \/ "storage" \in Faults[c] /\ Fail(c)
  /\ UnlockRead(c)
  /\ UNCHANGED <<bucket, files, reserved, workers, expired>>

CalculateID(c) == Read(c) \/ Open(c) \/ ReadAll(c)

-----------------------------------------------------------------------------
(***************************************************************************)
(* The environment: trash times, and the workers that are given the jobs.  *)
(***************************************************************************)

\* A bucket goes when its trash time comes, unless a file of it is locked or
\* being created.
Expire(b) ==
  /\ bucket[b] = "present" /\ ~ Locked(b)
  /\ \A c \in Calls : reserved[c] # "nothing" => Here(c) # b
  /\ bucket' = [bucket EXCEPT ![b] = "absent"]
  /\ files' = [files EXCEPT ![b] = {}]
  /\ expired' = expired \cup {b}
  /\ UNCHANGED <<locks, reserved, calls, workers>>

\* A worker locates input k of a job: it downloads the bucket from the
\* coordinator unless it has a copy already, and looks for the file in it.
Fetch(w, c, k) ==
  LET b == Sources[c][k].bucket IN
  /\ pc[c] = "made" /\ Sources[c][k].type # "other_step"
  /\ \/ /\ b \in held[w] \/ bucket[b] = "present"
        /\ held' = [held EXCEPT ![w] = @ \cup {b}]
        /\ copy' = IF b \in held[w] THEN copy
                   ELSE [copy EXCEPT ![w] = @ \cup {<<b, f>> : f \in files[b]}]
        /\ missed' = IF <<b, FileOf(c, k)>> \in copy'[w] THEN missed
                                                        ELSE missed \cup {<<w, c, k>>}
     \/ /\ b \notin held[w] /\ bucket[b] # "present"
        /\ missed' = missed \cup {<<w, c, k>>}
        /\ UNCHANGED <<copy, held>>
  /\ UNCHANGED <<storage, calls, expired>>

ExpireCopy(w, b) ==
  /\ b \in held[w]
  /\ held' = [held EXCEPT ![w] = @ \ {b}]
  /\ copy' = [copy EXCEPT ![w] = {t \in @ : t[1] # b}]
  /\ UNCHANGED <<storage, calls, missed, expired>>

-----------------------------------------------------------------------------
CreateJob(c) == Begin(c) \/ CreateInput(c) \/ CalculateID(c)

Next ==
  \/ \E c \in Calls : CreateJob(c)
  \/ \E b \in Buckets : Expire(b)
  \/ \E w \in Workers, c \in Calls : \E k \in DOMAIN Sources[c] : Fetch(w, c, k)
  \/ \E w \in Workers, b \in Buckets : ExpireCopy(w, b)

Spec == Init /\ [][Next]_vars

-----------------------------------------------------------------------------
(***************************************************************************)
(* What the job factory promises.                                          *)
(***************************************************************************)

Ended(c) == pc[c] \in {"made", "failed", "unopened"}

\* What is reserved is committed or aborted on every path: a bucket in creation
\* has exactly one creator at work, and a call that has ended reserves nothing.
\* (Else no step of the execution with an inline source could be scheduled.)
CreationsEnd ==
  /\ \A b \in Buckets : bucket[b] = "reserved" =>
       \E c \in Calls : /\ pc[c] \in {"write", "commit"} /\ reserved[c] = "bucket"
                        /\ Here(c) = b
  /\ \A c \in Calls : Ended(c) => reserved[c] = "nothing"
  /\ \A c, d \in Calls :
       c # d /\ Here(c) = Here(d) /\ reserved[c] = "bucket" => reserved[d] = "nothing"

\* A call that has ended holds no lock but on an input it could not open.
OnlyUnopenedStayLocked ==
  \A t \in locks : Ended(t[1]) => pc[t[1]] = "unopened" /\ t[2] = input[t[1]]

\* A file that was written stays until the trash time of its whole bucket comes
\* while nobody reads it or adds to it: a creation that fails beside it, in the
\* bucket that all inline sources of an execution share, does not take it away.
WrittenStay ==
  [][\A b \in Buckets : ~ files[b] \subseteq files'[b] =>
       /\ UNCHANGED calls /\ ~ Locked(b) /\ files'[b] = {} /\ bucket'[b] = "absent"
       /\ \A c \in Calls : reserved[c] # "nothing" => Here(c) # b]_vars

\* A call that meets no failure of its own makes its job, unless another call is
\* creating the bucket at that moment, the bucket's trash time has come, or the
\* source names a file that is not there: what the other calls make, fail to make
\* or download beside it, and everything else that happens between the creation of
\* an input and its being read, does not get in its way.
FailsForAReason ==
  [][\A c \in Calls : Faults[c] = {} /\ pc[c] # "failed" /\ pc'[c] = "failed" =>
       \/ bucket[Here(c)] = "reserved"
       \/ Here(c) \in expired
       \/ Source(c).type # "inline" /\ Source(c).file \notin Stored[Here(c)]]_vars

\* A worker that has no copy of a bucket yet finds in it the inputs of every job
\* that was made, unless the coordinator's own copy has expired.  (With an older
\* copy it may not: it is not downloaded again when files have been added.)
MissedForAReason ==
  [][\A w \in Workers, c \in Calls, k \in 1 .. 3 :
       <<w, c, k>> \in missed' \ missed =>
         \/ Sources[c][k].bucket \in held[w]
         \/ Sources[c][k].bucket \in expired]_vars
=============================================================================
