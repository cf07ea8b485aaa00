---------------------------- MODULE WorkersProofs ----------------------------
(***************************************************************************)
(* Proofs about the workers.                                               *)
(***************************************************************************)
EXTENDS Workers, SequenceTheorems, TLAPS

\* What a call knows of itself, whatever happens to the files.  It has the
\* locks of the inputs it is past, and of the output the compiler writes to.
Holding(c) ==
  /\ result[c] # "none" => pc[c] = "answered"
  /\ pc[c] = "answered" => deferred[c] = {}
  /\ pc[c] = "waiting" => input[c] = 1
  /\ pc[c] \in {"download", "getFile"} => 1 .. (input[c] - 1) \subseteq deferred[c]
  /\ pc[c] \in {"create", "commit", "output", "command", "readBack"} =>
       DOMAIN Inputs[c] \subseteq deferred[c]
  /\ pc[c] = "command" /\ Type[c] = "compile_cpp" => 0 \in deferred[c]
  /\ pc[c] = "readBack" => ReadsBack(c)

\* A lock is one that will be given back, or one of the two kinds that are not.
Accounted(c) ==
  \A k \in Tokens : <<c, k>> \in locks =>
    \/ k \in deferred[c]
    \/ /\ pc[c] = "answered"
       /\ \/ k = 0 /\ ReadsBack(c)
          \/ Reads(c, k) /\ result[c] = "error"

CallInv == TypeOK /\ \A c \in Calls : Holding(c) /\ Accounted(c)

\* A path is a file of a bucket.
LEMMA PathForm ==
  /\ \A p \in Paths : p[1] \in Buckets /\ p[2] \in Names /\ p = <<p[1], p[2]>>
  /\ \A b \in Buckets, n \in Names :
       <<b, n>> \in Paths /\ <<b, n>>[1] = b /\ <<b, n>>[2] = n
BY DEF Paths

\* Every input has a path and a place it comes from; a worker is no endpoint.
LEMMA InputFacts ==
  ASSUME NEW c \in Calls
  PROVE  /\ Len(Inputs[c]) \in 1 .. 3
         /\ DOMAIN Inputs[c] = 1 .. Len(Inputs[c])
         /\ \A k \in DOMAIN Inputs[c] : /\ Inputs[c][k].path \in Paths
                                        /\ Inputs[c][k].from \in Workers \cup {Endpoint}
         /\ OutputPath(c) \in Paths /\ Worker[c] \in Workers /\ Worker[c] # Endpoint
<1>1. /\ Len(Inputs[c]) \in 1 .. 3
      /\ Inputs[c] \in Seq([path : Paths, from : Workers \cup {Endpoint}])
  BY CallsAssumption
<1>2. DOMAIN Inputs[c] = 1 .. Len(Inputs[c])
  BY <1>1
<1>3. \A k \in DOMAIN Inputs[c] : Inputs[c][k] \in [path : Paths, from : Workers \cup {Endpoint}]
  BY <1>1, <1>2, ElementOfSeq
<1>4. Id[c] \in Buckets /\ Type[c] \in JobTypes /\ Worker[c] \in Workers /\ Worker[c] # Endpoint
  BY CallsAssumption
<1>5. OutputName(Type[c]) \in Names
  BY <1>4 DEF OutputName, JobTypes, Names
<1>6. OutputPath(c) \in Paths
  BY <1>4, <1>5, PathForm DEF OutputPath
<1> QED
  BY <1>1, <1>2, <1>3, <1>4, <1>6

\* An action of one call leaves the others alone.
Others(c) ==
  /\ \A d \in Calls \ {c} : /\ pc'[d] = pc[d] /\ input'[d] = input[d]
                            /\ deferred'[d] = deferred[d] /\ result'[d] = result[d]
  /\ \A t \in Calls \X Tokens : t[1] # c => (t \in locks' <=> t \in locks)

\* A call that another one leaves alone knows the same of itself as before.
LEMMA OthersStay ==
  ASSUME CallInv, NEW c \in Calls, Others(c), NEW d \in Calls, d # c
  PROVE  Holding(d)' /\ Accounted(d)'
<1>1. Holding(d)'
  BY DEF CallInv, Holding, Others
<1>2. \A k \in Tokens : <<d, k>> \in locks' <=> <<d, k>> \in locks
  BY DEF Others
<1>3. Accounted(d)'
  BY <1>2 DEF CallInv, Accounted, Others, Reads, ReadsBack
<1> QED
  BY <1>1, <1>3

\* Execute returns: the deferred unlocks of the call run.
LEMMA ReturnStep ==
  ASSUME CallInv, NEW c \in Calls, NEW answer \in {"OK", "CE", "RE", "WA", "error"},
         Return(c, answer), pc[c] # "answered",
         file' \in [Workers -> [Paths -> FileStates]]
  PROVE  CallInv' /\ Others(c)
<1>1. Others(c)
  BY DEF Return, GoTo, Others, CallInv, TypeOK
<1>2. /\ pc'[c] = "answered" /\ result'[c] = answer /\ deferred'[c] = {}
      /\ \A k \in Tokens : <<c, k>> \notin locks'
  BY DEF Return, GoTo, CallInv, TypeOK, Accounted
<1>3. TypeOK'
  <2>1. /\ locks' \subseteq locks /\ pc' \in [Calls -> Places]
        /\ deferred' \in [Calls -> SUBSET Tokens]
        /\ result' \in [Calls -> {"none", "OK", "CE", "RE", "WA", "error"}] /\ input' = input
    BY DEF Return, GoTo, CallInv, TypeOK, Places
  <2>2. ASSUME NEW d \in Calls PROVE {<<d, k>> : k \in deferred'[d]} \subseteq locks'
    <3>1. CASE d = c
      BY <3>1, <1>2
    <3>2. CASE d # c
      BY <3>2, <1>1 DEF Others, CallInv, TypeOK
    <3> QED
      BY <3>1, <3>2
  <2> QED
    BY <2>1, <2>2 DEF CallInv, TypeOK
<1>4. Holding(c)' /\ Accounted(c)'
  BY <1>2 DEF Holding, Accounted
<1> QED
  BY <1>1, <1>3, <1>4, OthersStay DEF CallInv

\* The way to the command, and the commands: where a call goes on, it keeps
\* its locks, and may take one more.
GoesOn(c) ==
  \E place \in Places \ {"waiting", "answered"}, held \in SUBSET Tokens :
    /\ pc' = [pc EXCEPT ![c] = place]
    /\ locks' = locks \cup {<<c, k>> : k \in held}
    /\ deferred' = [deferred EXCEPT ![c] = @ \cup held]
    /\ result' = result
    /\ \A k \in held : k <= Len(Inputs[c])

\* A call that takes a lock and defers its unlock can account for it.
LEMMA GoesOnStep ==
  ASSUME CallInv, NEW c \in Calls, pc[c] # "answered", GoesOn(c), Holding(c)',
         file' \in [Workers -> [Paths -> FileStates]],
         input' \in [Calls -> 1 .. 3], input'[c] <= Len(Inputs[c]),
         \A d \in Calls \ {c} : input'[d] = input[d]
  PROVE  CallInv' /\ Others(c)
<1>1. PICK place \in Places \ {"waiting", "answered"}, held \in SUBSET Tokens :
        /\ pc' = [pc EXCEPT ![c] = place]
        /\ locks' = locks \cup {<<c, k>> : k \in held}
        /\ deferred' = [deferred EXCEPT ![c] = @ \cup held]
        /\ result' = result
        /\ \A k \in held : k <= Len(Inputs[c])
  BY DEF GoesOn
<1>2. Others(c)
  BY <1>1 DEF Others, CallInv, TypeOK
<1>3. TypeOK'
  <2>1. /\ locks' \subseteq Calls \X Tokens /\ pc' \in [Calls -> Places]
        /\ deferred' \in [Calls -> SUBSET Tokens]
        /\ \A t \in locks' : t[2] <= Len(Inputs[t[1]])
    BY <1>1 DEF CallInv, TypeOK
  <2>2. ASSUME NEW d \in Calls PROVE {<<d, k>> : k \in deferred'[d]} \subseteq locks'
    BY <1>1 DEF CallInv, TypeOK
  <2>3. \A d \in Calls : input'[d] <= Len(Inputs[d])
    BY DEF CallInv, TypeOK
  <2> QED
    BY <1>1, <2>1, <2>2, <2>3 DEF CallInv, TypeOK
<1>4. Accounted(c)'
  <2>1. deferred'[c] = deferred[c] \cup held
    BY <1>1 DEF CallInv, TypeOK
  <2> QED
    BY <1>1, <2>1 DEF CallInv, Accounted
<1> QED
  BY <1>2, <1>3, <1>4, OthersStay DEF CallInv

\* A call goes on without touching a lock.
LEMMA MoveStep ==
  ASSUME CallInv, NEW c \in Calls, NEW place \in Places \ {"waiting", "answered"},
         pc[c] # "answered", GoTo(c, place), UNCHANGED <<locks, input, deferred, result>>,
         Holding(c)', file' \in [Workers -> [Paths -> FileStates]]
  PROVE  CallInv' /\ Others(c)
<1>1. Others(c)
  BY DEF Others, GoTo, CallInv, TypeOK
<1>2. TypeOK'
  BY DEF GoTo, CallInv, TypeOK
<1>3. Accounted(c)'
  BY DEF CallInv, Accounted
<1> QED
  BY <1>1, <1>2, <1>3, OthersStay DEF CallInv

\* A provider's commit or abort leaves every file in one of its states.
LEMMA SetOutputTyped ==
  ASSUME TypeOK, NEW c \in Calls, NEW state \in FileStates, SetOutput(c, state)
  PROVE  file' \in [Workers -> [Paths -> FileStates]]
BY InputFacts DEF TypeOK, SetOutput

\* Absence is a state of a file, and what is sent consists of files in their states.
LEMMA SentTyped ==
  ASSUME TypeOK, NEW from \in Workers \cup {Endpoint}
  PROVE  Sent(from) \in [Paths -> FileStates]
BY DEF TypeOK, Sent, FileStates

\* So a bucket that is downloaded, or that goes, leaves every file in one of its states.
LEMMA SetBucketTyped ==
  ASSUME TypeOK, NEW w \in Workers, NEW b, NEW copy \in [Paths -> FileStates],
         SetBucket(w, b, copy)
  PROVE  /\ file' \in [Workers -> [Paths -> FileStates]]
         /\ \A v \in Workers, p \in Paths :
              file'[v][p] = IF v = w /\ p[1] = b THEN copy[p] ELSE file[v][p]
<1>1. file' = [file EXCEPT ![w] = [p \in Paths |-> IF p[1] = b THEN copy[p] ELSE file[w][p]]]
  BY DEF SetBucket
<1>2. [p \in Paths |-> IF p[1] = b THEN copy[p] ELSE file[w][p]] \in [Paths -> FileStates]
  BY DEF TypeOK
<1> QED
  BY <1>1, <1>2 DEF TypeOK

\* A job that begins has no lock.
LEMMA CallBegin ==
  ASSUME CallInv, NEW c \in Calls, Begin(c)
  PROVE  CallInv' /\ Others(c)
<1>1. /\ pc[c] = "waiting" /\ GoTo(c, "download") /\ UNCHANGED <<file, locks, input, deferred, result>>
      /\ pc'[c] = "download"
  BY DEF Begin, GoTo, CallInv, TypeOK
<1>2. Holding(c)'
  BY <1>1 DEF Holding, CallInv
<1> QED
  BY <1>1, <1>2, MoveStep DEF CallInv, TypeOK, Places

\* The input a call is at is one of its inputs.
LEMMA InputAt ==
  ASSUME CallInv, NEW c \in Calls
  PROVE  /\ Inputs[c][input[c]].path \in Paths
         /\ Inputs[c][input[c]].from \in Workers \cup {Endpoint}
<1>1. input[c] \in 1 .. 3 /\ input[c] <= Len(Inputs[c])
  BY DEF CallInv, TypeOK
<1>2. Len(Inputs[c]) \in 1 .. 3 /\ DOMAIN Inputs[c] = 1 .. Len(Inputs[c])
  BY InputFacts
<1>3. \A l \in 1 .. 3, n \in 1 .. 3 : n <= l => n \in 1 .. l
  OBVIOUS
<1>4. input[c] \in DOMAIN Inputs[c]
  BY <1>1, <1>2, <1>3
<1> QED
  BY <1>4, InputFacts

\* Downloading the bucket of an input takes no lock.
LEMMA CallDownload ==
  ASSUME CallInv, NEW c \in Calls, Download(c)
  PROVE  CallInv' /\ Others(c)
<1> DEFINE in == Inputs[c][input[c]]
<1>1. pc[c] = "download" /\ in.from \in Workers \cup {Endpoint} /\ Worker[c] \in Workers
  BY InputAt, InputFacts DEF Download
<1>2. file' \in [Workers -> [Paths -> FileStates]]
  <2>1. CASE file' = file
    BY <2>1 DEF CallInv, TypeOK
  <2>2. CASE SetBucket(Worker[c], in.path[1], Sent(in.from))
    BY <1>1, <2>2, SentTyped, SetBucketTyped DEF CallInv
  <2> QED
    BY <2>1, <2>2 DEF Download
<1>3. CASE Return(c, "error")
  BY <1>1, <1>2, <1>3, ReturnStep
<1>4. CASE GoTo(c, "getFile") /\ UNCHANGED <<locks, input, deferred, result>>
  <2>1. pc'[c] = "getFile"
    BY <1>4 DEF GoTo, CallInv, TypeOK
  <2>2. Holding(c)'
    BY <1>1, <1>4, <2>1 DEF Holding, CallInv
  <2> QED
    BY <1>1, <1>2, <1>4, <2>2, MoveStep DEF Places
<1> QED
  BY <1>3, <1>4 DEF Download

\* GetFile locks the input the call is at, and its unlock is deferred.
LEMMA CallGetFile ==
  ASSUME CallInv, NEW c \in Calls, GetFile(c)
  PROVE  CallInv' /\ Others(c)
<1> DEFINE n == input[c]
<1>1. pc[c] = "getFile" /\ n \in 1 .. Len(Inputs[c]) /\ n \in Tokens /\ Len(Inputs[c]) \in 1 .. 3
  BY InputFacts DEF GetFile, CallInv, TypeOK, Tokens
<1>2. file' = file
  BY DEF GetFile
<1>3. CASE Return(c, "error")
  BY <1>1, <1>2, <1>3, ReturnStep DEF CallInv, TypeOK
<1>4. CASE /\ TakesLock(c, n)
           /\ deferred' = [deferred EXCEPT ![c] = @ \cup {n}]
           /\ IF n < Len(Inputs[c])
                THEN GoTo(c, "download") /\ input' = [input EXCEPT ![c] = n + 1]
                ELSE GoTo(c, "create") /\ UNCHANGED input
           /\ result' = result
  <2>1. \E place \in {"download", "create"} : pc' = [pc EXCEPT ![c] = place]
    BY <1>4 DEF GoTo
  <2>2. locks' = locks \cup {<<c, k>> : k \in {n}}
    BY <1>4 DEF TakesLock
  <2>3. GoesOn(c)
    <3>1. {n} \in SUBSET Tokens /\ \A k \in {n} : k <= Len(Inputs[c])
      BY <1>1
    <3> QED
      BY <1>4, <2>1, <2>2, <3>1 DEF GoesOn, Places
  <2>4. 1 .. n \subseteq deferred'[c]
    <3>1. 1 .. (n - 1) \subseteq deferred[c]
      BY <1>1 DEF CallInv, Holding
    <3>2. deferred'[c] = deferred[c] \cup {n}
      BY <1>4 DEF CallInv, TypeOK
    <3> QED
      BY <1>1, <3>1, <3>2
  <2>5. Holding(c)' /\ input' \in [Calls -> 1 .. 3] /\ input'[c] <= Len(Inputs[c])
        /\ \A d \in Calls \ {c} : input'[d] = input[d]
    <3>1. result[c] = "none"
      BY <1>1 DEF CallInv, Holding, TypeOK
    <3>2. CASE n < Len(Inputs[c])
      <4>1. /\ pc'[c] = "download" /\ result'[c] = "none"
            /\ input' = [input EXCEPT ![c] = n + 1]
        BY <1>4, <3>1, <3>2 DEF CallInv, TypeOK, GoTo
      <4>2. n + 1 \in 1 .. 3 /\ n + 1 <= Len(Inputs[c]) /\ (n + 1) - 1 = n
        <5>1. \A l \in 1 .. 3, m \in 1 .. 3 :
                m < l => m + 1 \in 1 .. 3 /\ m + 1 <= l /\ (m + 1) - 1 = m
          OBVIOUS
        <5>2. n \in 1 .. 3
          BY DEF CallInv, TypeOK
        <5> QED
          BY <1>1, <3>2, <5>1, <5>2
      <4>3. /\ input' \in [Calls -> 1 .. 3] /\ input'[c] = n + 1 /\ input'[c] - 1 = n
            /\ \A d \in Calls \ {c} : input'[d] = input[d]
        BY <4>1, <4>2 DEF CallInv, TypeOK
      <4>4. Holding(c)'
        BY <2>4, <4>1, <4>2, <4>3 DEF Holding
      <4> QED
        BY <4>2, <4>3, <4>4
    <3>3. CASE ~ (n < Len(Inputs[c]))
      <4>1. n = Len(Inputs[c])
        BY <1>1, <3>3
      <4>2. DOMAIN Inputs[c] \subseteq deferred'[c]
        BY <2>4, <4>1, InputFacts
      <4> QED
        BY <1>1, <1>4, <3>1, <3>3, <4>2 DEF Holding, CallInv, TypeOK, GoTo
    <3> QED
      BY <3>2, <3>3
  <2> QED
    BY <1>1, <1>2, <2>3, <2>5, GoesOnStep DEF CallInv, TypeOK
<1> QED
  BY <1>3, <1>4 DEF GetFile

\* Read fails after GetFile: the lock that stays is on the input that was to be read.
LEMMA CallOpenFails ==
  ASSUME CallInv, NEW c \in Calls, OpenFails(c)
  PROVE  CallInv' /\ Others(c)
<1> DEFINE n == input[c]
<1>1. pc[c] = "getFile" /\ n \in 1 .. Len(Inputs[c]) /\ n \in Tokens /\ Reads(c, n)
  BY InputFacts DEF OpenFails, CallInv, TypeOK, Tokens
<1>2. /\ pc' = [pc EXCEPT ![c] = "answered"] /\ result' = [result EXCEPT ![c] = "error"]
      /\ deferred' = [deferred EXCEPT ![c] = {}] /\ UNCHANGED <<file, input>>
      /\ locks' = (locks \cup {<<c, n>>}) \ {<<c, i>> : i \in deferred[c]}
  BY DEF OpenFails, GoTo
<1>3. Others(c)
  BY <1>2 DEF Others, CallInv, TypeOK
<1>4. /\ pc'[c] = "answered" /\ result'[c] = "error" /\ deferred'[c] = {}
      /\ \A k \in Tokens : <<c, k>> \in locks' => k = n
  BY <1>1, <1>2 DEF CallInv, TypeOK, Accounted
<1>5. TypeOK'
  <2>1. /\ locks' \subseteq Calls \X Tokens /\ \A t \in locks' : t[2] <= Len(Inputs[t[1]])
    BY <1>1, <1>2 DEF CallInv, TypeOK
  <2>2. /\ pc' \in [Calls -> Places] /\ deferred' \in [Calls -> SUBSET Tokens]
        /\ result' \in [Calls -> {"none", "OK", "CE", "RE", "WA", "error"}]
    BY <1>2 DEF CallInv, TypeOK, Places
  <2>3. ASSUME NEW d \in Calls PROVE {<<d, k>> : k \in deferred'[d]} \subseteq locks'
    <3>1. CASE d = c
      BY <3>1, <1>4
    <3>2. CASE d # c
      BY <3>2, <1>3 DEF Others, CallInv, TypeOK
    <3> QED
      BY <3>1, <3>2
  <2> QED
    BY <1>2, <2>1, <2>2, <2>3 DEF CallInv, TypeOK
<1>6. Holding(c)' /\ Accounted(c)'
  <2>1. \A k \in Tokens : <<c, k>> \in locks' => Type[c] \in RunTypes /\ k = 2
    BY <1>1, <1>4 DEF Reads
  <2>2. Accounted(c)'
    BY <1>4, <2>1 DEF Accounted, Reads
  <2>3. Holding(c)'
    BY <1>4 DEF Holding
  <2> QED
    BY <2>2, <2>3
<1> QED
  BY <1>3, <1>5, <1>6, OthersStay DEF CallInv

\* Creating the output takes no lock.
LEMMA CallCreate ==
  ASSUME CallInv, NEW c \in Calls, Create(c)
  PROVE  CallInv' /\ Others(c)
<1>1. pc[c] = "create"
  BY DEF Create
<1>2. CASE Return(c, "error") /\ UNCHANGED file
  BY <1>1, <1>2, ReturnStep DEF CallInv, TypeOK
<1>3. CASE /\ SetOutput(c, "reserved") /\ GoTo(c, AfterCreate(c))
           /\ UNCHANGED <<locks, input, deferred, result>>
  <2>1. file' \in [Workers -> [Paths -> FileStates]]
    BY <1>3, SetOutputTyped DEF FileStates, CallInv
  <2>2. pc'[c] = AfterCreate(c)
    BY <1>3 DEF GoTo, CallInv, TypeOK
  <2>3. Holding(c)'
    BY <1>1, <1>3, <2>2 DEF Holding, CallInv, AfterCreate
  <2> QED
    BY <1>1, <1>3, <2>1, <2>3, MoveStep DEF AfterCreate, Places
<1> QED
  BY <1>2, <1>3 DEF Create

\* Committing the compiler's empty output takes no lock.
LEMMA CallCommitEmpty ==
  ASSUME CallInv, NEW c \in Calls, CommitEmpty(c)
  PROVE  CallInv' /\ Others(c)
<1>1. pc[c] = "commit" /\ pc'[c] = "output"
  BY DEF CommitEmpty, GoTo, CallInv, TypeOK
<1>2. file' \in [Workers -> [Paths -> FileStates]]
  BY SetOutputTyped DEF CommitEmpty, FileStates, CallInv
<1>3. Holding(c)'
  BY <1>1 DEF Holding, CallInv, CommitEmpty
<1> QED
  BY <1>1, <1>2, <1>3, MoveStep DEF CommitEmpty, Places

\* A commit that fails gives every lock back.
LEMMA CallCommitFails ==
  ASSUME CallInv, NEW c \in Calls, CommitFails(c)
  PROVE  CallInv' /\ Others(c)
<1>1. file' \in [Workers -> [Paths -> FileStates]]
  BY SetOutputTyped DEF CommitFails, FileStates, CallInv
<1> QED
  BY <1>1, ReturnStep DEF CommitFails

\* The compiler's output is locked and its unlock deferred.
LEMMA CallLocateOutput ==
  ASSUME CallInv, NEW c \in Calls, LocateOutput(c)
  PROVE  CallInv' /\ Others(c)
<1>1. pc[c] = "output" /\ file' = file
  BY DEF LocateOutput
<1>2. CASE Return(c, "error")
  BY <1>1, <1>2, ReturnStep DEF CallInv, TypeOK
<1>3. CASE /\ locks' = locks \cup {<<c, 0>>}
           /\ deferred' = [deferred EXCEPT ![c] = @ \cup {0}]
           /\ GoTo(c, "command") /\ UNCHANGED <<input, result>>
  <2>1. GoesOn(c)
    <3>1. locks' = locks \cup {<<c, k>> : k \in {0}}
      BY <1>3
    <3>2. {0} \in SUBSET Tokens /\ \A k \in {0} : k <= Len(Inputs[c])
      BY InputFacts DEF Tokens
    <3> QED
      BY <1>3, <3>1, <3>2 DEF GoesOn, GoTo, Places
  <2>2. /\ pc'[c] = "command" /\ deferred'[c] = deferred[c] \cup {0}
        /\ UNCHANGED <<input, result>>
    BY <1>3 DEF GoTo, CallInv, TypeOK
  <2>3. Holding(c)'
    BY <1>1, <2>2 DEF Holding, CallInv
  <2> QED
    BY <1>1, <2>1, <2>2, <2>3, GoesOnStep DEF CallInv, TypeOK
<1> QED
  BY <1>2, <1>3 DEF LocateOutput

\* After g++ every lock is given back.
LEMMA CallRunCompiler ==
  ASSUME CallInv, NEW c \in Calls, RunCompiler(c)
  PROVE  CallInv' /\ Others(c)
<1>1. pc[c] = "command" /\ \E answer \in {"OK", "CE", "error"} : Return(c, answer)
  BY DEF RunCompiler, CompileErrors
<1>2. file' \in [Workers -> [Paths -> FileStates]]
  BY SetOutputTyped DEF RunCompiler, FileStates, CallInv, TypeOK
<1> QED
  BY <1>1, <1>2, ReturnStep

\* After a program or a checker every lock is given back, or the call goes on.
LEMMA CallRunProgram ==
  ASSUME CallInv, NEW c \in Calls, RunProgram(c)
  PROVE  CallInv' /\ Others(c)
<1>1. pc[c] = "command"
  BY DEF RunProgram
<1>2. file' \in [Workers -> [Paths -> FileStates]]
  BY SetOutputTyped DEF RunProgram, FailedOutput, FileStates, CallInv, TypeOK
<1>3. CASE \E answer \in {"RE", "error"} : Return(c, answer)
  BY <1>1, <1>2, <1>3, ReturnStep
<1>4. CASE GoTo(c, "commit") /\ UNCHANGED <<locks, input, deferred, result>>
  <2>1. pc'[c] = "commit"
    BY <1>4 DEF GoTo, CallInv, TypeOK
  <2>2. Holding(c)'
    BY <1>1, <1>4, <2>1 DEF Holding, CallInv
  <2> QED
    BY <1>1, <1>2, <1>4, <2>2, MoveStep DEF Places
<1> QED
  BY <1>3, <1>4 DEF RunProgram

\* After the commit every lock is given back, unless the output is read.
LEMMA CallCommitWritten ==
  ASSUME CallInv, NEW c \in Calls, CommitWritten(c)
  PROVE  CallInv' /\ Others(c)
<1>1. pc[c] = "commit"
  BY DEF CommitWritten
<1>2. file' \in [Workers -> [Paths -> FileStates]]
  BY SetOutputTyped DEF CommitWritten, FileStates, CallInv
<1>3. CASE Return(c, "OK")
  BY <1>1, <1>2, <1>3, ReturnStep
<1>4. CASE ReadsBack(c) /\ GoTo(c, "readBack") /\ UNCHANGED <<locks, input, deferred, result>>
  <2>1. pc'[c] = "readBack"
    BY <1>4 DEF GoTo, CallInv, TypeOK
  <2>2. Holding(c)'
    BY <1>1, <1>4, <2>1 DEF Holding, CallInv, ReadsBack
  <2> QED
    BY <1>1, <1>2, <1>4, <2>2, MoveStep DEF Places
<1> QED
  BY <1>3, <1>4 DEF CommitWritten

\* The one lock that stays after reading back is on the output.
LEMMA CallReadBack ==
  ASSUME CallInv, NEW c \in Calls, ReadBack(c)
  PROVE  CallInv' /\ Others(c)
<1>1. pc[c] = "readBack" /\ ReadsBack(c) /\ file' = file
  BY DEF ReadBack, CallInv, Holding
<1>2. CASE Return(c, "error")
  BY <1>1, <1>2, ReturnStep DEF CallInv, TypeOK
<1>3. CASE /\ locks' = (locks \cup {<<c, 0>>}) \ {<<c, k>> : k \in deferred[c]}
           /\ deferred' = [deferred EXCEPT ![c] = {}]
           /\ \E answer \in {"OK", "WA", "error"} : result' = [result EXCEPT ![c] = answer]
           /\ GoTo(c, "answered") /\ UNCHANGED input
  <2>1. Others(c)
    BY <1>3 DEF Others, GoTo, CallInv, TypeOK
  <2>2. /\ pc'[c] = "answered" /\ deferred'[c] = {}
        /\ \A k \in Tokens : <<c, k>> \in locks' => k = 0
    BY <1>1, <1>3 DEF GoTo, CallInv, TypeOK, Accounted
  <2>3. TypeOK'
    <3>1. /\ locks' \subseteq Calls \X Tokens /\ \A t \in locks' : t[2] <= Len(Inputs[t[1]])
      BY <1>3, InputFacts DEF CallInv, TypeOK, Tokens
    <3>2. /\ pc' \in [Calls -> Places] /\ deferred' \in [Calls -> SUBSET Tokens]
          /\ result' \in [Calls -> {"none", "OK", "CE", "RE", "WA", "error"}]
      BY <1>3 DEF GoTo, CallInv, TypeOK, Places
    <3>3. ASSUME NEW d \in Calls PROVE {<<d, k>> : k \in deferred'[d]} \subseteq locks'
      <4>1. CASE d = c
        BY <4>1, <2>2
      <4>2. CASE d # c
        BY <4>2, <2>1 DEF Others, CallInv, TypeOK
      <4> QED
        BY <4>1, <4>2
    <3> QED
      BY <1>1, <1>3, <3>1, <3>2, <3>3 DEF CallInv, TypeOK
  <2>4. Holding(c)' /\ Accounted(c)'
    BY <1>1, <2>2 DEF Holding, Accounted, ReadsBack
  <2> QED
    BY <2>1, <2>3, <2>4, OthersStay DEF CallInv
<1> QED
  BY <1>2, <1>3 DEF ReadBack

\* The actions of a call, by what they do to its own file.
LEMMA CallSteps ==
  ASSUME CallInv, NEW c \in Calls, Execute(c)
  PROVE  \/ Begin(c) \/ Download(c) \/ GetFile(c) \/ OpenFails(c) \/ Create(c) \/ CommitFails(c)
         \/ Type[c] = "compile_cpp" /\ (CommitEmpty(c) \/ LocateOutput(c) \/ RunCompiler(c))
         \/ Type[c] # "compile_cpp" /\ (RunProgram(c) \/ CommitWritten(c) \/ ReadBack(c))
BY DEF Execute, CompileCpp, RunCpp, RunPy, RunGo, CheckCpp, Run, TakeInputs, RunTypes

\* Every step of Execute keeps the account of its call and leaves the other calls alone.
LEMMA CallInvStep ==
  ASSUME CallInv, NEW c \in Calls, Execute(c)
  PROVE  CallInv' /\ Others(c)
BY CallSteps, CallBegin, CallDownload, CallGetFile, CallOpenFails, CallCreate, CallCommitFails,
   CallCommitEmpty, CallLocateOutput, CallRunCompiler, CallRunProgram, CallCommitWritten,
   CallReadBack

\* The workers' variables keep their types; a call has as many locks as it has
\* to give back, for every set of jobs, workers and failures.
THEOREM CallInvariant == Spec => []CallInv
<1>1. Init => CallInv
  <2> SUFFICES ASSUME Init PROVE CallInv
    OBVIOUS
  <2>1. TypeOK
    <3>1. /\ file \in [Workers -> [Paths -> FileStates]] /\ pc \in [Calls -> Places]
          /\ result \in [Calls -> {"none", "OK", "CE", "RE", "WA", "error"}]
      BY DEF Init, FileStates, Places
    <3>2. /\ input \in [Calls -> 1 .. 3] /\ deferred \in [Calls -> SUBSET Tokens]
          /\ \A c \in Calls : {<<c, k>> : k \in deferred[c]} \subseteq locks
          /\ locks \subseteq Calls \X Tokens /\ \A t \in locks : t[2] <= Len(Inputs[t[1]])
      BY DEF Init
    <3>3. ASSUME NEW c \in Calls PROVE input[c] <= Len(Inputs[c])
      <4>1. input[c] = 1
        BY DEF Init
      <4>2. \A n \in 1 .. 3 : 1 <= n
        OBVIOUS
      <4> QED
        BY <4>1, <4>2, InputFacts
    <3> QED
      BY <3>1, <3>2, <3>3 DEF TypeOK
  <2>2. ASSUME NEW c \in Calls PROVE Holding(c) /\ Accounted(c)
    BY DEF Init, Holding, Accounted
  <2> QED
    BY <2>1, <2>2 DEF CallInv
<1>2. CallInv /\ [Next]_vars => CallInv'
  <2> SUFFICES ASSUME CallInv, [Next]_vars PROVE CallInv'
    OBVIOUS
  <2>1. CASE \E c \in Calls : Execute(c)
    BY <2>1, CallInvStep
  <2>2. ASSUME NEW w \in Workers, NEW b \in Buckets, Expire(w, b) PROVE CallInv'
    <3>1. file' \in [Workers -> [Paths -> FileStates]]
      <4>1. [p \in Paths |-> "absent"] \in [Paths -> FileStates]
        BY DEF FileStates
      <4> QED
        BY <2>2, <4>1, SetBucketTyped DEF Expire, CallInv
    <3>2. UNCHANGED <<locks, pc, input, deferred, result>>
      BY <2>2 DEF Expire
    <3> QED
      BY <3>1, <3>2 DEF CallInv, TypeOK, Holding, Accounted
  <2>3. CASE UNCHANGED vars
    BY <2>3 DEF vars, CallInv, TypeOK, Holding, Accounted
  <2> QED
    BY <2>1, <2>2, <2>3 DEF Next
<1> QED
  BY <1>1, <1>2, PTL DEF Spec

\* The variables of executors, providers and file storage keep their types.
THEOREM TypeCorrect == Spec => []TypeOK
<1>1. CallInv => TypeOK
  BY DEF CallInv
<1> QED
  BY <1>1, CallInvariant, PTL

\* A call that has answered holds no lock but those on what it has read back
\* or could not open.
THEOREM LocksReturned == Spec => []OnlyReadsLeaveLocks
<1>1. CallInv => OnlyReadsLeaveLocks
  <2> SUFFICES ASSUME CallInv, NEW t \in locks, pc[t[1]] = "answered"
               PROVE  \/ t[2] = 0 /\ ReadsBack(t[1])
                      \/ Reads(t[1], t[2]) /\ result[t[1]] = "error"
    BY DEF OnlyReadsLeaveLocks
  <2>1. PICK c \in Calls, k \in Tokens : t = <<c, k>>
    BY DEF CallInv, TypeOK
  <2>2. Holding(c) /\ Accounted(c) /\ <<c, k>> \in locks /\ pc[c] = "answered"
    BY <2>1 DEF CallInv
  <2> QED
    BY <2>1, <2>2 DEF Holding, Accounted
<1> QED
  BY <1>1, CallInvariant, PTL

-----------------------------------------------------------------------------
(***************************************************************************)
(* The files.                                                              *)
(***************************************************************************)

\* The call that has created its output and not committed it yet.
Owns(c) == pc[c] = "commit" \/ (pc[c] = "command" /\ Type[c] # "compile_cpp")

FailedCheck(c) == Type[c] = "check_cpp" /\ result[c] = "error"

LockedAreSeen ==
  \A c \in Calls, k \in Tokens : <<c, k>> \in locks => file[Worker[c]][Path(c, k)] \in Seen

OneOwner ==
  /\ \A c \in Calls : Owns(c) => Output(c) = "reserved"
  /\ \A c, d \in Calls :
       Owns(c) /\ Owns(d) /\ Worker[c] = Worker[d] /\ OutputPath(c) = OutputPath(d)
         => c = d

ReservedBySome ==
  \A w \in Workers, p \in Paths : file[w][p] = "reserved" =>
    \E c \in Calls : Worker[c] = w /\ OutputPath(c) = p /\ (Owns(c) \/ FailedCheck(c))

OnlyCompilersUnfinished ==
  \A w \in Workers, p \in Paths : file[w][p] = "unfinished" =>
    \E c \in Calls : Type[c] = "compile_cpp" /\ OutputPath(c) = p

FileInv == LockedAreSeen /\ OneOwner /\ ReservedBySome /\ OnlyCompilersUnfinished

\* What a step of a call does to the files: nobody else's reservation ends, only
\* an absent file is reserved, and what can be seen stays.
FileEffect(c) ==
  /\ \A w \in Workers, p \in Paths :
       /\ file[w][p] \in Seen => file'[w][p] \in Seen
       /\ file[w][p] = "reserved" /\ file'[w][p] # "reserved" =>
            Owns(c) /\ w = Worker[c] /\ p = OutputPath(c)
       /\ file[w][p] # "reserved" /\ file'[w][p] = "reserved" =>
            Owns(c)' /\ w = Worker[c] /\ p = OutputPath(c)
       /\ file'[w][p] = "unfinished" =>
            \/ \E v \in Workers : file[v][p] = "unfinished"
            \/ Type[c] = "compile_cpp" /\ OutputPath(c) = p
  /\ Owns(c)' => Output(c)' = "reserved" /\ (Owns(c) \/ Output(c) = "absent")
  /\ Owns(c) /\ ~ Owns(c)' => Output(c)' # "reserved" \/ FailedCheck(c)'
  /\ \A k \in Tokens : <<c, k>> \in locks' =>
       <<c, k>> \in locks \/ file'[Worker[c]][Path(c, k)] \in Seen

\* What is locked is a path.
LEMMA PathFacts ==
  ASSUME CallInv, NEW c \in Calls, NEW k \in Tokens, <<c, k>> \in locks
  PROVE  Path(c, k) \in Paths
<1>1. k <= Len(Inputs[c])
  BY DEF CallInv, TypeOK
<1>2. CASE k = 0
  BY <1>2, InputFacts DEF Path
<1>3. CASE k # 0
  <2>1. k \in 1 .. Len(Inputs[c])
    BY <1>1, <1>3, InputFacts DEF Tokens
  <2> QED
    BY <1>3, <2>1, InputFacts DEF Path
<1> QED
  BY <1>2, <1>3

\* A step with such an effect keeps what is known of the files.
LEMMA FileEffectKeeps ==
  ASSUME CallInv, FileInv, NEW c \in Calls, pc[c] # "answered", Others(c), FileEffect(c)
  PROVE  FileInv'
<1>1. \A d \in Calls \ {c} : (Owns(d)' <=> Owns(d)) /\ (FailedCheck(d)' <=> FailedCheck(d))
  BY DEF Others, Owns, FailedCheck
<1>2. LockedAreSeen'
  <2> SUFFICES ASSUME NEW d \in Calls, NEW k \in Tokens, <<d, k>> \in locks'
               PROVE  file'[Worker[d]][Path(d, k)] \in Seen
    BY DEF LockedAreSeen, Path, OutputPath
  <2>1. CASE <<d, k>> \in locks
    BY <2>1, PathFacts, InputFacts DEF FileEffect, FileInv, LockedAreSeen
  <2>2. CASE <<d, k>> \notin locks
    BY <2>2 DEF FileEffect, Others
  <2> QED
    BY <2>1, <2>2
<1>3. OneOwner'
  <2>1. ASSUME NEW d \in Calls, Owns(d)' PROVE Output(d)' = "reserved"
    <3>1. CASE d = c
      BY <2>1, <3>1 DEF FileEffect
    <3>2. CASE d # c
      <4>1. Owns(d) /\ file[Worker[d]][OutputPath(d)] = "reserved"
        BY <1>1, <2>1, <3>2 DEF FileInv, OneOwner, Output
      <4>2. ~ (Owns(c) /\ Worker[d] = Worker[c] /\ OutputPath(d) = OutputPath(c))
        BY <3>2, <4>1 DEF FileInv, OneOwner
      <4> QED
        BY <4>1, <4>2, InputFacts DEF FileEffect, Output, OutputPath
    <3> QED
      BY <3>1, <3>2
  <2>2. ASSUME NEW d \in Calls, d # c, Owns(c)', Owns(d)', Worker[c] = Worker[d],
               OutputPath(c) = OutputPath(d)
        PROVE  FALSE
    <3>1. Owns(d) /\ Output(d) = "reserved" /\ Output(d) = Output(c)
      BY <1>1, <2>2 DEF FileInv, OneOwner, Output
    <3>2. Owns(c)
      BY <2>2, <3>1 DEF FileEffect
    <3> QED
      BY <2>2, <3>1, <3>2 DEF FileInv, OneOwner
  <2>3. ASSUME NEW d \in Calls, NEW e \in Calls, d # c, e # c, Owns(d)', Owns(e)',
               Worker[d] = Worker[e], OutputPath(d) = OutputPath(e)
        PROVE  d = e
    BY <1>1, <2>3 DEF FileInv, OneOwner
  <2> QED
    BY <2>1, <2>2, <2>3 DEF OneOwner
<1>4. ReservedBySome'
  <2> SUFFICES ASSUME NEW w \in Workers, NEW p \in Paths, file'[w][p] = "reserved"
               PROVE  \E d \in Calls : /\ Worker[d] = w /\ OutputPath(d) = p
                                       /\ Owns(d)' \/ FailedCheck(d)'
    BY DEF ReservedBySome, OutputPath
  <2>1. CASE file[w][p] # "reserved"
    BY <2>1 DEF FileEffect
  <2>2. CASE file[w][p] = "reserved"
    <3>1. PICK d \in Calls : Worker[d] = w /\ OutputPath(d) = p /\ (Owns(d) \/ FailedCheck(d))
      BY <2>2 DEF FileInv, ReservedBySome
    <3>2. CASE d # c
      BY <1>1, <3>1, <3>2
    <3>3. CASE d = c
      <4>1. Owns(c)
        BY <3>1, <3>3 DEF CallInv, Holding, FailedCheck
      <4> QED
        BY <3>1, <3>3, <4>1 DEF FileEffect, Output
    <3> QED
      BY <3>2, <3>3
  <2> QED
    BY <2>1, <2>2
<1>5. OnlyCompilersUnfinished'
  BY DEF FileEffect, FileInv, OnlyCompilersUnfinished, OutputPath
<1> QED
  BY <1>2, <1>3, <1>4, <1>5 DEF FileInv

\* A step that leaves the files alone, and locks only what can be seen.
LEMMA EffectNone ==
  ASSUME CallInv, FileInv, NEW c \in Calls, file' = file, ~ Owns(c), ~ Owns(c)',
         \A k \in Tokens : <<c, k>> \in locks' =>
           <<c, k>> \in locks \/ file[Worker[c]][Path(c, k)] \in Seen
  PROVE  FileEffect(c)
BY DEF FileEffect

\* A call that has returned owns nothing and has taken no lock.
LEMMA ReturnFacts ==
  ASSUME CallInv, NEW c \in Calls, NEW answer, Return(c, answer)
  PROVE  /\ ~ Owns(c)' /\ result'[c] = answer
         /\ \A k \in Tokens : <<c, k>> \in locks' => <<c, k>> \in locks
BY DEF Return, GoTo, CallInv, TypeOK, Owns

\* Beginning a job leaves the files alone.
LEMMA FileBegin ==
  ASSUME CallInv, FileInv, NEW c \in Calls, Begin(c)
  PROVE  FileEffect(c)
<1>1. ~ Owns(c) /\ ~ Owns(c)' /\ file' = file /\ locks' = locks
  BY DEF Begin, GoTo, Owns, CallInv, TypeOK
<1> QED
  BY <1>1, EffectNone

\* A download adds a file that was absent, and is unfinished only where the source was.
LEMMA FileDownload ==
  ASSUME CallInv, FileInv, NEW c \in Calls, Download(c)
  PROVE  FileEffect(c)
<1> DEFINE in == Inputs[c][input[c]]
           w == Worker[c]
<1>1. /\ pc[c] = "download" /\ in.path \in Paths /\ in.from \in Workers \cup {Endpoint}
      /\ w \in Workers /\ ~ Owns(c)
  BY InputAt, InputFacts DEF Download, Owns
<1>2. ~ Owns(c)' /\ \A k \in Tokens : <<c, k>> \in locks' => <<c, k>> \in locks
  <2>1. CASE Return(c, "error")
    BY <2>1, ReturnFacts
  <2>2. CASE GoTo(c, "getFile") /\ locks' = locks
    BY <2>2 DEF GoTo, Owns, CallInv, TypeOK
  <2> QED
    BY <2>1, <2>2 DEF Download
<1>3. CASE file' = file
  BY <1>1, <1>2, <1>3, EffectNone
<1>4. CASE Absent(w, in.path[1]) /\ SetBucket(w, in.path[1], Sent(in.from))
  <2>1. \A v \in Workers, p \in Paths :
          file'[v][p] = IF v = w /\ p[1] = in.path[1] THEN Sent(in.from)[p] ELSE file[v][p]
    BY <1>1, <1>4, SentTyped, SetBucketTyped DEF CallInv
  <2>2. \A p \in Paths : p[1] = in.path[1] => file[w][p] = "absent"
    BY <1>4, PathForm DEF Absent
  <2>3. \A p \in Paths :
          /\ Sent(in.from)[p] # "reserved"
          /\ Sent(in.from)[p] = "unfinished" => \E v \in Workers : file[v][p] = "unfinished"
    <3>1. CASE in.from = Endpoint
      BY <3>1 DEF Sent
    <3>2. CASE in.from # Endpoint
      BY <1>1, <3>2 DEF Sent, Visible, Seen
    <3> QED
      BY <3>1, <3>2
  <2>4. \A v \in Workers, p \in Paths :
          \/ file'[v][p] = file[v][p]
          \/ file[v][p] = "absent" /\ file'[v][p] = Sent(in.from)[p]
    BY <2>1, <2>2
  <2>5. \A v \in Workers, p \in Paths :
          /\ file[v][p] \in Seen => file'[v][p] \in Seen
          /\ file[v][p] = "reserved" => file'[v][p] = "reserved"
          /\ file'[v][p] = "reserved" => file[v][p] = "reserved"
          /\ file'[v][p] = "unfinished" => \E u \in Workers : file[u][p] = "unfinished"
    BY <2>3, <2>4 DEF Seen
  <2> QED
    BY <1>1, <1>2, <2>5 DEF FileEffect
<1> QED
  BY <1>3, <1>4 DEF Download

\* GetFile locks only what is visible.
LEMMA FileGetFile ==
  ASSUME CallInv, FileInv, NEW c \in Calls, GetFile(c) \/ OpenFails(c)
  PROVE  FileEffect(c)
<1> DEFINE n == input[c]
<1>1. pc[c] = "getFile" /\ file' = file /\ ~ Owns(c) /\ n \in 1 .. 3
      /\ Path(c, n) \in Paths
  BY InputFacts DEF GetFile, OpenFails, Owns, CallInv, TypeOK, Path
<1>2. CASE Return(c, "error")
  BY <1>1, <1>2, ReturnFacts, EffectNone
<1>3. CASE /\ Visible(Worker[c], Path(c, n)) /\ locks' \subseteq locks \cup {<<c, n>>}
           /\ \E place \in {"download", "create", "answered"} : pc' = [pc EXCEPT ![c] = place]
  <2>1. file[Worker[c]][Path(c, n)] \in Seen
    BY <1>1, <1>3 DEF Visible
  <2>2. ~ Owns(c)'
    BY <1>3 DEF Owns, CallInv, TypeOK
  <2> QED
    BY <1>1, <1>3, <2>1, <2>2, EffectNone
<1>4. CASE OpenFails(c)
  BY <1>3, <1>4 DEF OpenFails, GoTo
<1> QED
  BY <1>2, <1>3, <1>4 DEF GetFile, TakesLock, GoTo

\* A step that changes the state of the call's own output.
LEMMA EffectOutput ==
  ASSUME CallInv, FileInv, NEW c \in Calls, NEW state \in FileStates, SetOutput(c, state),
         Output(c) \in Seen => state \in Seen,
         Owns(c) \/ Output(c) # "reserved",
         state = "reserved" <=> Owns(c)',
         state = "reserved" => Output(c) = "absent",
         state = "unfinished" => Type[c] = "compile_cpp",
         \A k \in Tokens : <<c, k>> \in locks' => <<c, k>> \in locks
  PROVE  FileEffect(c)
<1>1. \A w \in Workers, p \in Paths :
        file'[w][p] = IF w = Worker[c] /\ p = OutputPath(c) THEN state ELSE file[w][p]
  BY InputFacts DEF SetOutput, CallInv, TypeOK
<1>2. Output(c)' = state
  BY <1>1, InputFacts DEF Output
<1> QED
  BY <1>1, <1>2 DEF FileEffect, Output

\* Create reserves only what is absent.
LEMMA FileCreate ==
  ASSUME CallInv, FileInv, NEW c \in Calls, Create(c)
  PROVE  FileEffect(c)
<1>1. pc[c] = "create" /\ ~ Owns(c)
  BY DEF Create, Owns
<1>2. CASE Return(c, "error") /\ file' = file
  BY <1>1, <1>2, ReturnFacts, EffectNone
<1>3. CASE /\ Output(c) = "absent" /\ SetOutput(c, "reserved") /\ GoTo(c, AfterCreate(c))
           /\ locks' = locks
  <2>1. Owns(c)'
    BY <1>3 DEF Owns, GoTo, AfterCreate, CallInv, TypeOK
  <2> QED
    BY <1>3, <2>1, EffectOutput DEF Seen, FileStates
<1>4. Absent(Worker[c], Id[c]) => Output(c) = "absent"
  <2>1. OutputName(Type[c]) \in Names
    BY InputFacts, PathForm DEF OutputPath
  <2> QED
    BY <2>1 DEF Absent, Output, OutputPath
<1> QED
  BY <1>2, <1>3, <1>4 DEF Create

\* A failed commit takes away the call's own reservation.
LEMMA FileCommitFails ==
  ASSUME CallInv, FileInv, NEW c \in Calls, CommitFails(c)
  PROVE  FileEffect(c)
<1>1. Owns(c) /\ Output(c) = "reserved" /\ SetOutput(c, "absent")
  BY DEF CommitFails, Owns, FileInv, OneOwner
<1> QED
  BY <1>1, ReturnFacts, EffectOutput DEF CommitFails, Seen, FileStates

\* Only the compiler's commit shows an unfinished file.
LEMMA FileCommitEmpty ==
  ASSUME CallInv, FileInv, NEW c \in Calls, CommitEmpty(c), Type[c] = "compile_cpp"
  PROVE  FileEffect(c)
<1>1. Owns(c) /\ SetOutput(c, "unfinished") /\ ~ Owns(c)' /\ locks' = locks
  BY DEF CommitEmpty, GoTo, Owns, CallInv, TypeOK
<1> QED
  BY <1>1, EffectOutput DEF Seen, FileStates

\* The output is locked only if it is visible.
LEMMA FileLocateOutput ==
  ASSUME CallInv, FileInv, NEW c \in Calls, LocateOutput(c), Type[c] = "compile_cpp"
  PROVE  FileEffect(c)
<1>1. file' = file /\ ~ Owns(c) /\ Path(c, 0) = OutputPath(c) /\ OutputPath(c) \in Paths
  BY InputFacts DEF LocateOutput, Owns, Path
<1>2. CASE Return(c, "error")
  BY <1>1, <1>2, ReturnFacts, EffectNone
<1>3. CASE /\ Visible(Worker[c], OutputPath(c)) /\ locks' = locks \cup {<<c, 0>>} /\ GoTo(c, "command")
  <2>1. ~ Owns(c)'
    BY <1>3 DEF Owns, GoTo, CallInv, TypeOK
  <2>2. file[Worker[c]][Path(c, 0)] \in Seen
    BY <1>1, <1>3 DEF Visible
  <2> QED
    BY <1>1, <1>3, <2>1, <2>2, EffectNone
<1> QED
  BY <1>2, <1>3 DEF LocateOutput

\* g++ writes to an output that its call has locked, so nobody has reserved it anew.
LEMMA FileRunCompiler ==
  ASSUME CallInv, FileInv, NEW c \in Calls, RunCompiler(c), Type[c] = "compile_cpp"
  PROVE  FileEffect(c)
<1>1. pc[c] = "command" /\ ~ Owns(c) /\ \E answer : Return(c, answer)
  BY DEF RunCompiler, Owns
<1>2. ~ Owns(c)' /\ \A k \in Tokens : <<c, k>> \in locks' => <<c, k>> \in locks
  BY <1>1, ReturnFacts
<1>3. CASE file' = file
  BY <1>1, <1>2, <1>3, EffectNone
<1>4. CASE SetOutput(c, "whole")
  <2>1. <<c, 0>> \in locks /\ 0 \in Tokens
    BY <1>1 DEF CallInv, Holding, TypeOK, Tokens
  <2>2. Output(c) \in Seen
    BY <2>1 DEF FileInv, LockedAreSeen, Path, Output
  <2> QED
    BY <1>2, <1>4, <2>2, EffectOutput DEF Seen, FileStates
<1> QED
  BY <1>3, <1>4 DEF RunCompiler

\* A failed run aborts its own reservation; a failed check leaves it.
LEMMA FileRunProgram ==
  ASSUME CallInv, FileInv, NEW c \in Calls, RunProgram(c), Type[c] # "compile_cpp"
  PROVE  FileEffect(c)
<1>1. Owns(c) /\ Output(c) = "reserved"
  BY DEF RunProgram, Owns, FileInv, OneOwner
<1>2. CASE GoTo(c, "commit") /\ file' = file /\ locks' = locks
  <2>1. Owns(c)' /\ Output(c)' = "reserved"
    BY <1>1, <1>2 DEF GoTo, Owns, Output, CallInv, TypeOK
  <2> QED
    BY <1>1, <1>2, <2>1 DEF FileEffect
<1>3. CASE /\ Type[c] # "check_cpp" /\ SetOutput(c, "absent")
           /\ \E answer : Return(c, answer)
  <2>1. ~ Owns(c)' /\ \A k \in Tokens : <<c, k>> \in locks' => <<c, k>> \in locks
    BY <1>3, ReturnFacts
  <2> QED
    BY <1>1, <1>3, <2>1, EffectOutput DEF Seen, FileStates
<1>4. CASE Type[c] = "check_cpp" /\ file' = file /\ Return(c, "error")
  <2>1. /\ ~ Owns(c)' /\ result'[c] = "error"
        /\ \A k \in Tokens : <<c, k>> \in locks' => <<c, k>> \in locks
    BY <1>4, ReturnFacts
  <2>2. FailedCheck(c)'
    BY <1>4, <2>1 DEF FailedCheck
  <2> QED
    BY <1>1, <1>4, <2>1, <2>2 DEF FileEffect
<1> QED
  BY <1>2, <1>3, <1>4 DEF RunProgram, FailedOutput

\* The commit shows a whole file in place of the call's own reservation.
LEMMA FileCommitWritten ==
  ASSUME CallInv, FileInv, NEW c \in Calls, CommitWritten(c)
  PROVE  FileEffect(c)
<1>1. Owns(c) /\ Output(c) = "reserved" /\ SetOutput(c, "whole")
  BY DEF CommitWritten, Owns, FileInv, OneOwner
<1>2. ~ Owns(c)' /\ \A k \in Tokens : <<c, k>> \in locks' => <<c, k>> \in locks
  <2>1. CASE Return(c, "OK")
    BY <2>1, ReturnFacts
  <2>2. CASE GoTo(c, "readBack") /\ locks' = locks
    BY <2>2 DEF GoTo, Owns, CallInv, TypeOK
  <2> QED
    BY <2>1, <2>2 DEF CommitWritten
<1> QED
  BY <1>1, <1>2, EffectOutput DEF Seen, FileStates

\* Reading back locks only what is visible.
LEMMA FileReadBack ==
  ASSUME CallInv, FileInv, NEW c \in Calls, ReadBack(c)
  PROVE  FileEffect(c)
<1>1. file' = file /\ ~ Owns(c) /\ Path(c, 0) = OutputPath(c) /\ OutputPath(c) \in Paths
  BY InputFacts DEF ReadBack, Owns, Path
<1>2. CASE Return(c, "error")
  BY <1>1, <1>2, ReturnFacts, EffectNone
<1>3. CASE /\ Visible(Worker[c], OutputPath(c)) /\ locks' \subseteq locks \cup {<<c, 0>>}
           /\ GoTo(c, "answered")
  <2>1. ~ Owns(c)'
    BY <1>3 DEF Owns, GoTo, CallInv, TypeOK
  <2>2. file[Worker[c]][Path(c, 0)] \in Seen
    BY <1>1, <1>3 DEF Visible
  <2> QED
    BY <1>1, <1>3, <2>1, <2>2, EffectNone
<1> QED
  BY <1>2, <1>3 DEF ReadBack

\* Every step of Execute keeps what is known of the files.
LEMMA FileStep ==
  ASSUME CallInv, FileInv, NEW c \in Calls, Execute(c)
  PROVE  FileInv'
<1>1. pc[c] # "answered"
  BY CallSteps DEF Begin, Download, GetFile, OpenFails, Create, CommitFails, CommitEmpty,
     LocateOutput, RunCompiler, RunProgram, CommitWritten, ReadBack
<1>2. FileEffect(c)
  BY CallSteps, FileBegin, FileDownload, FileGetFile, FileCreate, FileCommitFails, FileCommitEmpty,
     FileLocateOutput, FileRunCompiler, FileRunProgram, FileCommitWritten, FileReadBack
<1> QED
  BY <1>1, <1>2, CallInvStep, FileEffectKeeps

\* Expiry takes away only what can be seen and is not locked.
LEMMA FileExpire ==
  ASSUME CallInv, FileInv, NEW w \in Workers, NEW b \in Buckets, Expire(w, b)
  PROVE  FileInv'
<1>1. /\ ~ Locked(w, b) /\ UNCHANGED <<locks, pc, input, deferred, result>>
      /\ \A p \in Paths : p[1] = b => file[w][p] # "reserved"
  BY PathForm DEF Expire
<1>2. \A v \in Workers, p \in Paths :
         file'[v][p] = IF v = w /\ p[1] = b THEN "absent" ELSE file[v][p]
  <2>1. [p \in Paths |-> "absent"] \in [Paths -> FileStates]
    BY DEF FileStates
  <2> QED
    BY <2>1, SetBucketTyped DEF Expire, CallInv
<1>3. LockedAreSeen'
  <2> SUFFICES ASSUME NEW c \in Calls, NEW k \in Tokens, <<c, k>> \in locks
               PROVE  file'[Worker[c]][Path(c, k)] \in Seen
    BY <1>1 DEF LockedAreSeen, Path, OutputPath
  <2>1. ~ (Worker[c] = w /\ Path(c, k)[1] = b)
    BY <1>1 DEF Locked
  <2> QED
    BY <1>1, <1>2, <2>1, PathFacts, InputFacts DEF FileInv, LockedAreSeen
<1>4. \A c \in Calls : (Owns(c)' <=> Owns(c)) /\ (FailedCheck(c)' <=> FailedCheck(c))
  BY <1>1 DEF Owns, FailedCheck
<1>5. OneOwner'
  <2>1. ASSUME NEW c \in Calls, Owns(c)' PROVE Output(c)' = "reserved"
    <3>1. file[Worker[c]][OutputPath(c)] = "reserved"
      BY <1>4, <2>1 DEF FileInv, OneOwner, Output
    <3>2. file'[Worker[c]][OutputPath(c)] = "reserved"
      BY <1>1, <1>2, <3>1, InputFacts
    <3> QED
      BY <3>2 DEF Output, OutputPath
  <2> QED
    BY <1>4, <2>1 DEF FileInv, OneOwner
<1>6. ReservedBySome' /\ OnlyCompilersUnfinished'
  <2>1. \A v \in Workers, p \in Paths :
          /\ file'[v][p] = "reserved" => file[v][p] = "reserved"
          /\ file'[v][p] = "unfinished" => file[v][p] = "unfinished"
    BY <1>2
  <2> QED
    BY <1>4, <2>1 DEF FileInv, ReservedBySome, OnlyCompilersUnfinished
<1> QED
  BY <1>3, <1>5, <1>6 DEF FileInv

\* Locks are on files that can be seen, a reservation has one owner or a check
\* that failed, and only compilers show a file half done.
THEOREM FileInvariant == Spec => [](CallInv /\ FileInv)
<1>1. Init => FileInv
  <2> SUFFICES ASSUME Init PROVE FileInv
    OBVIOUS
  <2>1. /\ \A w \in Workers, p \in Paths : file[w][p] = "absent"
        /\ locks = {} /\ \A c \in Calls : ~ Owns(c)
    BY DEF Init, Owns
  <2> QED
    BY <2>1 DEF FileInv, LockedAreSeen, OneOwner, ReservedBySome, OnlyCompilersUnfinished
<1>2. CallInv /\ FileInv /\ [Next]_vars => FileInv'
  <2> SUFFICES ASSUME CallInv, FileInv, [Next]_vars PROVE FileInv'
    OBVIOUS
  <2>1. CASE UNCHANGED vars
    BY <2>1 DEF vars, FileInv, LockedAreSeen, OneOwner, ReservedBySome, OnlyCompilersUnfinished,
       Owns, FailedCheck, Output, Path, OutputPath
  <2> QED
    BY <2>1, FileStep, FileExpire DEF Next
<1> QED
  BY <1>1, <1>2, CallInvariant, PTL DEF Spec

\* While a command runs its inputs are there, and whole unless compiled.
THEOREM InputsStayAlways == Spec => []InputsStay
<1>1. CallInv /\ FileInv => InputsStay
  <2> SUFFICES ASSUME CallInv, FileInv, NEW c \in Calls, pc[c] = "command",
                      NEW k \in DOMAIN Inputs[c], file[Worker[c]][Path(c, k)] # "whole"
               PROVE  /\ file[Worker[c]][Path(c, k)] = "unfinished"
                      /\ \E d \in Calls : Type[d] = "compile_cpp" /\ OutputPath(d) = Path(c, k)
    BY DEF InputsStay
  <2>1. k \in deferred[c] /\ k \in Tokens
    BY DEF CallInv, Holding, TypeOK
  <2>2. <<c, k>> \in locks
    BY <2>1 DEF CallInv, TypeOK
  <2>3. file[Worker[c]][Path(c, k)] = "unfinished"
    BY <2>1, <2>2 DEF FileInv, LockedAreSeen, Seen
  <2> QED
    BY <2>1, <2>2, <2>3, PathFacts, InputFacts DEF FileInv, OnlyCompilersUnfinished
<1> QED
  BY <1>1, FileInvariant, PTL

\* What is reserved has a call that will commit or abort it, or is what a failed
\* check left.
THEOREM ReservationsEndAlways == Spec => []ReservationsEnd
<1>1. FileInv => ReservationsEnd
  BY DEF FileInv, ReservedBySome, ReservationsEnd, Owns, FailedCheck
<1> QED
  BY <1>1, FileInvariant, PTL

\* Success is reported only with the artifact there.
THEOREM OkMeansWholeAlways == Spec => OkMeansWhole
<1> DEFINE Success == \A c \in Calls : result'[c] # result[c] /\ result'[c] \in {"OK", "WA"} =>
                        file'[Worker[c]][OutputPath(c)] = "whole"
<1>1. CallInv /\ FileInv /\ [Next]_vars => [Success]_vars
  <2> SUFFICES ASSUME CallInv, FileInv, Next, NEW c \in Calls, result'[c] # result[c],
                      result'[c] \in {"OK", "WA"}
               PROVE  file'[Worker[c]][OutputPath(c)] = "whole"
    BY DEF vars
  <2>1. PICK d \in Calls : Execute(d)
    BY DEF Next, Expire
  <2>2. d = c
    BY <2>1, CallInvStep DEF Others
  <2>3. CASE SetOutput(c, "whole")
    BY <2>3, InputFacts DEF SetOutput, CallInv, TypeOK
  <2>4. CASE ReadBack(c) /\ ~ Return(c, "error")
    <3>1. Type[c] # "compile_cpp" /\ file' = file /\ file[Worker[c]][OutputPath(c)] \in Seen
      <4>1. ReadsBack(c)
        BY <2>4 DEF ReadBack, CallInv, Holding
      <4> QED
        BY <2>4, <4>1, InputFacts DEF ReadBack, ReadsBack, RunTypes, Visible
    <3>2. file[Worker[c]][OutputPath(c)] # "unfinished"
      <4>1. OutputName("compile_cpp") = "bin"
        BY DEF OutputName, RunTypes
      <4>2. OutputName(Type[c]) # "bin"
        BY <3>1, CallsAssumption DEF OutputName, JobTypes, RunTypes
      <4>3. \A o \in Calls : Type[o] = "compile_cpp" => OutputPath(o) # OutputPath(c)
        BY <4>1, <4>2 DEF OutputPath
      <4> QED
        BY <4>3, InputFacts DEF FileInv, OnlyCompilersUnfinished
    <3> QED
      BY <3>1, <3>2 DEF Seen
  <2>5. ~ \E answer \in {"CE", "RE", "error"} : Return(c, answer)
    BY ReturnFacts
  <2>6. ~ (Begin(c) \/ Download(c) \/ GetFile(c) \/ OpenFails(c) \/ Create(c) \/ CommitFails(c)
           \/ CommitEmpty(c) \/ LocateOutput(c) \/ RunProgram(c))
    BY <2>5 DEF Begin, Download, GetFile, OpenFails, Create, CommitFails, CommitEmpty,
       LocateOutput, RunProgram, CallInv, TypeOK
  <2>7. RunCompiler(c) \/ CommitWritten(c) => SetOutput(c, "whole")
    BY <2>5 DEF RunCompiler, CompileErrors, CommitWritten
  <2> QED
    BY <2>1, <2>2, <2>3, <2>4, <2>5, <2>6, <2>7, CallSteps
<1> QED
  BY <1>1, FileInvariant, PTL DEF Spec, OkMeansWhole
=============================================================================
