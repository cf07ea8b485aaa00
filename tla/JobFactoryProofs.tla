--------------------------- MODULE JobFactoryProofs ---------------------------
(***************************************************************************)
(* Proofs about the job factory.                                           *)
(***************************************************************************)
EXTENDS JobFactory, SequenceTheorems, TLAPS

\* Every source has a bucket and its input a file.
LEMMA SourceFacts ==
  ASSUME NEW c \in Calls
  PROVE  /\ Len(Sources[c]) \in {1, 2, 3}
         /\ \A k \in 1 .. Len(Sources[c]) :
              /\ Sources[c][k].bucket \in Buckets
              /\ Sources[c][k].type \in SourceTypes
              /\ FileOf(c, k) \in AllFiles
<1>1. Type[c] \in StepTypes
  BY CallsAssumption
<1>2. InputCount(Type[c]) \in {1, 2, 3}
  BY <1>1 DEF InputCount, StepTypes, RunTypes
<1>3. /\ Sources[c] \in Seq([type : SourceTypes, bucket : Buckets, file : Files])
      /\ Len(Sources[c]) = InputCount(Type[c])
  BY CallsAssumption
<1>4. ASSUME NEW k \in 1 .. Len(Sources[c])
      PROVE  Sources[c][k] \in [type : SourceTypes, bucket : Buckets, file : Files]
  BY <1>3, <1>4, ElementOfSeq
<1>5. \A k \in 1 .. Len(Sources[c]) : FileOf(c, k) \in AllFiles
  <2> SUFFICES ASSUME NEW k \in 1 .. Len(Sources[c]) PROVE FileOf(c, k) \in AllFiles
    OBVIOUS
  <2>1. k \in 1 .. 3
    BY <1>2, <1>3
  <2>2. Sources[c][k].file \in Files
    BY <1>4
  <2> QED
    BY <2>1, <2>2 DEF FileOf, AllFiles, Uuids
<1> QED
  BY <1>2, <1>3, <1>4, <1>5

-----------------------------------------------------------------------------
(***************************************************************************)
(* Reservations: a call has reserved something exactly while it writes to  *)
(* it, and the bucket shows whether it was the bucket or a file of it.     *)
(***************************************************************************)

Reserves(c) ==
  /\ reserved[c] # "nothing" <=> pc[c] \in {"write", "commit"}
  /\ reserved[c] = "bucket" => bucket[Here(c)] = "reserved"
  /\ reserved[c] = "file" => bucket[Here(c)] = "present"

Owned(b) == bucket[b] = "reserved" => \E c \in Calls : reserved[c] = "bucket" /\ Here(c) = b

OneOwner ==
  \A c, d \in Calls :
    c # d /\ Here(c) = Here(d) /\ reserved[c] = "bucket" => reserved[d] # "bucket"

StorageInv ==
  /\ TypeOK
  /\ \A c \in Calls : Reserves(c)
  /\ \A b \in Buckets : Owned(b)
  /\ OneOwner

LEMMA HereFacts ==
  ASSUME TypeOK, NEW c \in Calls
  PROVE  /\ Here(c) \in Buckets /\ FileOf(c, input[c]) \in AllFiles
         /\ input[c] \in 1 .. 3 /\ input[c] <= Len(Sources[c])
         /\ <<c, input[c]>> \in Uuids
  BY SourceFacts DEF TypeOK, Here, Source, Uuids

\* A call that reserves nothing before and after its step leaves the buckets in
\* creation alone, but may go on to its next source.
Quiet(c) ==
  /\ pc[c] \notin {"write", "commit"} /\ pc'[c] \notin {"write", "commit"}
  /\ pc' \in [Calls -> Places] /\ input' \in [Calls -> 1 .. 3]
  /\ input'[c] <= Len(Sources[c])
  /\ \A d \in Calls \ {c} : pc'[d] = pc[d] /\ input'[d] = input[d]
  /\ reserved' = reserved

\* Nor does it take away a bucket.
Undisturbed ==
  /\ bucket' \in [Buckets -> {"absent", "reserved", "present"}]
  /\ files' \in [Buckets -> SUBSET AllFiles]
  /\ \A b \in Buckets : bucket'[b] # "present" => files'[b] = {}
  /\ \A b \in Buckets :
       bucket'[b] # bucket[b] => bucket[b] = "absent" /\ bucket'[b] = "present"
  /\ locks' \subseteq Uuids /\ reserved' = reserved

LEMMA QuietStep ==
  ASSUME StorageInv, NEW c \in Calls, Quiet(c), Undisturbed,
         UNCHANGED <<workers, expired>>
  PROVE  StorageInv'
<1> DEFINE Same(d) == Here(d)' = Here(d) /\ reserved'[d] = reserved[d] /\ pc'[d] = pc[d]
<1>1. \A d \in Calls \ {c} : Same(d)
  BY DEF Quiet, Here, Source
<1>2. reserved[c] = "nothing" /\ reserved'[c] = "nothing"
  BY DEF Quiet, StorageInv, Reserves
<1>3. TypeOK'
  BY DEF StorageInv, TypeOK, Quiet, Undisturbed, workers
<1>4. ASSUME NEW d \in Calls PROVE Reserves(d)'
  <2>1. CASE d = c
    BY <2>1, <1>2 DEF Reserves, Quiet
  <2>2. CASE d # c
    <3>1. Here(d) \in Buckets /\ Reserves(d) /\ Same(d)
      BY <2>2, <1>1, HereFacts DEF StorageInv
    <3>2. reserved[d] \in {"bucket", "file"} => bucket'[Here(d)] = bucket[Here(d)]
      BY <3>1 DEF Reserves, Undisturbed
    <3> QED
      BY <3>1, <3>2 DEF Reserves
  <2> QED
    BY <2>1, <2>2
<1>5. ASSUME NEW b \in Buckets PROVE Owned(b)'
  BY <1>1, <1>2 DEF Owned, StorageInv, Undisturbed
<1>6. OneOwner'
  BY <1>1, <1>2 DEF OneOwner, StorageInv
<1> QED
  BY <1>3, <1>4, <1>5, <1>6 DEF StorageInv

LEMMA StorageInit == Init => StorageInv
<1> SUFFICES ASSUME Init PROVE StorageInv
  OBVIOUS
<1>1. TypeOK
  <2>1. ASSUME NEW c \in Calls PROVE 1 <= Len(Sources[c])
    <3>1. Len(Sources[c]) \in {1, 2, 3}
      BY SourceFacts
    <3> QED
      BY <3>1
  <2> QED
    BY <2>1 DEF Init, TypeOK, Places
<1>2. /\ \A c \in Calls : Reserves(c)
      /\ \A b \in Buckets : Owned(b)
      /\ OneOwner
  BY DEF Init, Reserves, Owned, OneOwner
<1> QED
  BY <1>1, <1>2 DEF StorageInv

\* NextInput and Fail, as seen from outside.
LEMMA NextInputFacts ==
  ASSUME TypeOK, NEW c \in Calls, NextInput(c)
  PROVE  /\ pc' \in [Calls -> Places] /\ pc'[c] \in {"input", "read"}
         /\ input' \in [Calls -> 1 .. 3] /\ input'[c] <= Len(Sources[c])
         /\ \A d \in Calls \ {c} : pc'[d] = pc[d] /\ input'[d] = input[d]
<1>1. Len(Sources[c]) \in {1, 2, 3} /\ input[c] \in 1 .. 3 /\ input[c] <= Len(Sources[c])
  BY SourceFacts, HereFacts
<1>2. pc \in [Calls -> Places] /\ input \in [Calls -> 1 .. 3]
  BY DEF TypeOK
<1>3. CASE Last(c)
  BY <1>1, <1>2, <1>3 DEF NextInput, GoTo, Places
<1>4. CASE ~ Last(c)
  <2>1. input[c] + 1 \in 1 .. 3 /\ input[c] + 1 <= Len(Sources[c])
    <3>1. input[c] # Len(Sources[c])
      BY <1>4 DEF Last
    <3>2. ASSUME NEW i \in 1 .. 3, NEW n \in {1, 2, 3}, i <= n, i # n
          PROVE  i + 1 \in 1 .. 3 /\ i + 1 <= n
      BY <3>2
    <3> QED
      BY <1>1, <3>1, <3>2
  <2> QED
    BY <1>2, <1>4, <2>1 DEF NextInput, GoTo, Places
<1> QED
  BY <1>3, <1>4

LEMMA GoToFacts ==
  ASSUME TypeOK, NEW c \in Calls, NEW place \in Places, GoTo(c, place), input' = input
  PROVE  /\ pc' \in [Calls -> Places] /\ pc'[c] = place
         /\ input' \in [Calls -> 1 .. 3] /\ input'[c] <= Len(Sources[c])
         /\ \A d \in Calls \ {c} : pc'[d] = pc[d] /\ input'[d] = input[d]
<1> QED
  BY DEF GoTo, TypeOK

LEMMA UndisturbedStep ==
  ASSUME StorageInv, NEW c \in Calls,
         BucketSource(c) \/ LocateFile(c) \/ Unlock(c) \/ Read(c) \/ Open(c) \/ ReadAll(c)
           \/ Begin(c) \/ OtherStep(c)
  PROVE  Undisturbed
<1>1. TypeOK /\ Here(c) \in Buckets /\ <<c, input[c]>> \in Uuids
  BY HereFacts DEF StorageInv
<1>2. Stored[Here(c)] \subseteq AllFiles
  BY <1>1, CallsAssumption DEF AllFiles
<1>3. CASE UNCHANGED storage
  BY <1>1, <1>3 DEF Undisturbed, TypeOK, storage
<1>4. CASE /\ bucket[Here(c)] = "absent"
           /\ bucket' = [bucket EXCEPT ![Here(c)] = "present"]
           /\ files' = [files EXCEPT ![Here(c)] = Stored[Here(c)]]
           /\ UNCHANGED <<locks, reserved>>
  BY <1>1, <1>2, <1>4 DEF Undisturbed, TypeOK
<1>5. CASE /\ locks' \in {locks \cup {<<c, input[c]>>}, locks \ {<<c, input[c]>>}}
           /\ UNCHANGED <<bucket, files, reserved>>
  BY <1>1, <1>5 DEF Undisturbed, TypeOK
<1> QED
  BY <1>3, <1>4, <1>5
  DEF BucketSource, LocateFile, Unlock, Read, Open, ReadAll, Begin, OtherStep, UnlockRead, storage

\* A quiet step goes to one of the places where nothing is reserved.
LEMMA QuietAction ==
  ASSUME StorageInv, NEW c \in Calls,
         BucketSource(c) \/ LocateFile(c) \/ Unlock(c) \/ Read(c) \/ Open(c) \/ ReadAll(c)
           \/ Begin(c) \/ OtherStep(c)
  PROVE  StorageInv'
<1>1. TypeOK /\ Undisturbed
  BY UndisturbedStep DEF StorageInv
<1>2. UNCHANGED <<workers, expired>>
  BY DEF BucketSource, LocateFile, Unlock, Read, Open, ReadAll, Begin, OtherStep
<1>3. pc[c] \notin {"write", "commit"}
  BY DEF BucketSource, LocateFile, Unlock, Read, Open, ReadAll, Begin, OtherStep
<1>4. CASE NextInput(c)
  <2>1. Quiet(c)
    BY <1>1, <1>3, <1>4, NextInputFacts DEF Quiet, Undisturbed
  <2> QED
    BY <1>1, <1>2, <2>1, QuietStep DEF TypeOK
<1>5. CASE \E place \in Places \ {"write", "commit"} :
             GoTo(c, place) /\ UNCHANGED input
  <2>1. PICK place \in Places \ {"write", "commit"} :
             GoTo(c, place) /\ UNCHANGED input
    BY <1>5
  <2>2. Quiet(c)
    BY <1>1, <1>3, <2>1, GoToFacts DEF Quiet, Undisturbed
  <2> QED
    BY <1>1, <1>2, <2>1, <2>2, QuietStep
<1>7. CASE BucketSource(c) \/ LocateFile(c) \/ Read(c) \/ Open(c) \/ Begin(c)
  BY <1>5, <1>7 DEF BucketSource, LocateFile, Read, Open, Begin, Fail, Places
<1>8. CASE Unlock(c) \/ OtherStep(c)
  BY <1>4, <1>5, <1>8 DEF Unlock, OtherStep, Fail, Places
<1>9. CASE ReadAll(c)
  <2>1. CASE Fail(c)
    BY <1>5, <2>1 DEF Fail, Places
  <2>2. CASE GoTo(c, "made") /\ UNCHANGED input
    BY <1>5, <2>2 DEF Places
  <2>3. CASE ~ Last(c) /\ input' = [input EXCEPT ![c] = @ + 1] /\ GoTo(c, "read")
    <3>1. /\ input[c] \in 1 .. 3 /\ Len(Sources[c]) \in {1, 2, 3}
          /\ input[c] <= Len(Sources[c]) /\ input[c] # Len(Sources[c])
      BY <1>1, <2>3, HereFacts, SourceFacts DEF Last
    <3>2. input[c] + 1 \in 1 .. 3 /\ input[c] + 1 <= Len(Sources[c])
      <4>1. ASSUME NEW k \in 1 .. 3, NEW n \in {1, 2, 3}, k <= n, k # n
            PROVE  k + 1 \in 1 .. 3 /\ k + 1 <= n
        BY <4>1
      <4> QED
        BY <3>1, <4>1
    <3>3. Quiet(c)
      BY <1>1, <1>3, <2>3, <3>2 DEF Quiet, GoTo, TypeOK, Undisturbed, Places
    <3> QED
      BY <1>1, <1>2, <3>3, QuietStep
  <2> QED
    BY <1>9, <2>1, <2>2, <2>3 DEF ReadAll
<1> QED
  BY <1>7, <1>8, <1>9

\* A step of a creation: the other calls and the other buckets stay as they are,
\* the bucket changes only if nobody else has reserved something of it, and it is
\* in creation only while its creator has reserved it.
LEMMA CreatorStep ==
  ASSUME StorageInv, TypeOK', NEW c \in Calls, Reserves(c)',
         \A d \in Calls \ {c} :
           pc'[d] = pc[d] /\ input'[d] = input[d] /\ reserved'[d] = reserved[d],
         \A b \in Buckets \ {Here(c)} : bucket'[b] = bucket[b],
         \A d \in Calls \ {c} :
           Here(d) = Here(c) /\ reserved[d] # "nothing" => bucket'[Here(c)] = bucket[Here(c)],
         bucket'[Here(c)] = "reserved" =>
           \/ reserved'[c] = "bucket" /\ Here(c)' = Here(c)
           \/ bucket[Here(c)] = "reserved" /\ reserved[c] # "bucket",
         reserved'[c] = "bucket" =>
           /\ Here(c)' = Here(c)
           /\ reserved[c] = "bucket" \/ bucket[Here(c)] = "absent"
  PROVE  StorageInv'
<1>1. ASSUME NEW d \in Calls \ {c}
      PROVE  /\ Here(d)' = Here(d) /\ pc'[d] = pc[d] /\ reserved'[d] = reserved[d]
             /\ Here(d) \in Buckets /\ Reserves(d) /\ reserved[d] \in {"nothing", "bucket", "file"}
  BY <1>1, HereFacts DEF StorageInv, TypeOK, Here, Source
<1>2. ASSUME NEW d \in Calls PROVE Reserves(d)'
  <2>1. CASE d = c
    BY <2>1
  <2>2. CASE d # c
    <3>1. reserved[d] # "nothing" => bucket'[Here(d)] = bucket[Here(d)]
      BY <2>2, <1>1
    <3> QED
      BY <2>2, <1>1, <3>1 DEF Reserves
  <2> QED
    BY <2>1, <2>2
<1>3. ASSUME NEW b \in Buckets PROVE Owned(b)'
  <2> SUFFICES ASSUME bucket'[b] = "reserved"
               PROVE  \E d \in Calls : reserved'[d] = "bucket" /\ Here(d)' = b
    BY DEF Owned
  <2>1. CASE reserved'[c] = "bucket" /\ Here(c)' = b
    BY <2>1
  <2>2. CASE bucket[b] = "reserved" /\ (b = Here(c) => reserved[c] # "bucket")
    <3>1. PICK d \in Calls : reserved[d] = "bucket" /\ Here(d) = b
      BY <2>2 DEF StorageInv, Owned
    <3>2. d # c
      BY <2>2, <3>1
    <3> QED
      BY <1>1, <3>1, <3>2
  <2> QED
    BY <2>1, <2>2
<1>4. OneOwner'
  <2>1. ASSUME NEW d \in Calls \ {c}, Here(d)' = Here(c)', reserved'[c] = "bucket"
        PROVE  reserved'[d] # "bucket"
    BY <1>1, <2>1 DEF StorageInv, OneOwner, Reserves
  <2>2. ASSUME NEW d \in Calls \ {c}, NEW e \in Calls \ {c}, d # e,
               Here(d)' = Here(e)', reserved'[d] = "bucket"
        PROVE  reserved'[e] # "bucket"
    BY <1>1, <2>2 DEF StorageInv, OneOwner
  <2> QED
    BY <2>1, <2>2 DEF OneOwner
<1> QED
  BY <1>2, <1>3, <1>4 DEF StorageInv

\* The abort function takes back what was reserved.
LEMMA AbortStep ==
  ASSUME StorageInv, NEW c \in Calls, Abort(c), Fail(c), reserved[c] # "nothing",
         UNCHANGED <<locks, workers, expired>>
  PROVE  StorageInv'
<1>1. TypeOK /\ Here(c) \in Buckets /\ Reserves(c)
  BY HereFacts DEF StorageInv
<1>2. /\ pc' = [pc EXCEPT ![c] = "failed"] /\ UNCHANGED input
      /\ reserved' = [reserved EXCEPT ![c] = "nothing"] /\ UNCHANGED files
  BY DEF Abort, Fail, GoTo
<1>3. CASE reserved[c] = "bucket"
  <2>1. bucket' = [bucket EXCEPT ![Here(c)] = "absent"] /\ files[Here(c)] = {}
    BY <1>1, <1>3 DEF Abort, Reserves, TypeOK
  <2>2. TypeOK'
    BY <1>1, <1>2, <2>1 DEF TypeOK, Places, workers
  <2>3. Reserves(c)'
    BY <1>1, <1>2 DEF Reserves, TypeOK
  <2>4. ASSUME NEW d \in Calls \ {c}, Here(d) = Here(c) PROVE reserved[d] = "nothing"
    <3>1. Reserves(d) /\ reserved[d] # "bucket"
      BY <1>3, <2>4 DEF StorageInv, OneOwner
    <3>2. bucket[Here(d)] = "reserved" /\ reserved[d] \in {"nothing", "bucket", "file"}
      BY <1>1, <1>3, <2>4 DEF Reserves, TypeOK
    <3> QED
      BY <3>1, <3>2 DEF Reserves
  <2>5. bucket'[Here(c)] = "absent" /\ reserved'[c] = "nothing"
    BY <1>1, <1>2, <2>1 DEF TypeOK
  <2> QED
    BY <1>1, <1>2, <2>1, <2>2, <2>3, <2>4, <2>5, CreatorStep DEF TypeOK
<1>4. CASE reserved[c] = "file"
  <2>1. bucket' = bucket
    BY <1>1, <1>4 DEF Abort, TypeOK
  <2>2. TypeOK'
    BY <1>1, <1>2, <2>1 DEF TypeOK, Places, workers
  <2>3. Reserves(c)'
    BY <1>1, <1>2 DEF Reserves, TypeOK
  <2>4. bucket'[Here(c)] = "present" /\ reserved'[c] = "nothing"
    BY <1>1, <1>2, <1>4, <2>1 DEF TypeOK, Reserves
  <2> QED
    BY <1>1, <1>2, <2>1, <2>2, <2>3, <2>4, CreatorStep DEF TypeOK
<1> QED
  BY <1>1, <1>3, <1>4 DEF TypeOK

LEMMA CreateStep ==
  ASSUME StorageInv, NEW c \in Calls, Create(c)
  PROVE  StorageInv'
<1>1. TypeOK /\ Here(c) \in Buckets /\ Reserves(c) /\ reserved[c] = "nothing"
  BY HereFacts DEF StorageInv, Create, Reserves
<1>2. UNCHANGED <<workers, expired, locks>> /\ UNCHANGED <<files, input>>
  BY DEF Create, Fail, storage
<1>3. CASE /\ bucket[Here(c)] = "absent"
           /\ bucket' = [bucket EXCEPT ![Here(c)] = "reserved"]
           /\ reserved' = [reserved EXCEPT ![c] = "bucket"] /\ GoTo(c, "write")
  <2>1. TypeOK'
    BY <1>1, <1>2, <1>3 DEF TypeOK, GoTo, Places, workers
  <2>2. Here(c)' = Here(c) /\ bucket'[Here(c)] = "reserved" /\ reserved'[c] = "bucket"
    BY <1>1, <1>2, <1>3 DEF TypeOK, Here, Source
  <2>3. Reserves(c)'
    BY <1>1, <1>3, <2>2 DEF Reserves, TypeOK, GoTo
  <2>4. ASSUME NEW d \in Calls \ {c}, Here(d) = Here(c) PROVE reserved[d] = "nothing"
    BY <1>1, <1>3, <2>4 DEF StorageInv, Reserves, TypeOK
  <2> QED
    BY <1>1, <1>2, <1>3, <2>1, <2>2, <2>3, <2>4, CreatorStep DEF TypeOK, GoTo
<1>4. CASE /\ bucket[Here(c)] = "present" /\ UNCHANGED bucket
           /\ reserved' = [reserved EXCEPT ![c] = "file"] /\ GoTo(c, "write")
  <2>1. TypeOK'
    BY <1>1, <1>2, <1>4 DEF TypeOK, GoTo, Places, workers
  <2>2. Here(c)' = Here(c) /\ bucket'[Here(c)] = "present" /\ reserved'[c] = "file"
    BY <1>1, <1>2, <1>4 DEF TypeOK, Here, Source
  <2>3. Reserves(c)'
    BY <1>1, <1>4, <2>2 DEF Reserves, TypeOK, GoTo
  <2> QED
    BY <1>1, <1>2, <1>4, <2>1, <2>2, <2>3, CreatorStep DEF TypeOK, GoTo
<1>5. CASE Fail(c) /\ UNCHANGED storage
  <2>1. TypeOK'
    BY <1>1, <1>2, <1>5 DEF TypeOK, Fail, GoTo, Places, workers, storage
  <2>2. Reserves(c)' /\ reserved'[c] = "nothing"
    BY <1>1, <1>5 DEF Reserves, TypeOK, Fail, GoTo, storage
  <2>3. /\ \A d \in Calls \ {c} : pc'[d] = pc[d] /\ input'[d] = input[d]
        /\ UNCHANGED <<bucket, reserved>>
    BY <1>1, <1>5 DEF TypeOK, Fail, GoTo, storage
  <2> QED
    BY <1>1, <2>1, <2>2, <2>3, CreatorStep
<1> QED
  BY <1>3, <1>4, <1>5 DEF Create

LEMMA WriteStep ==
  ASSUME StorageInv, NEW c \in Calls, Write(c)
  PROVE  StorageInv'
<1>1. TypeOK /\ Here(c) \in Buckets /\ Reserves(c) /\ reserved[c] # "nothing"
  BY HereFacts DEF StorageInv, Write, Reserves
<1>2. CASE Abort(c) /\ Fail(c) /\ UNCHANGED locks
  BY <1>1, <1>2, AbortStep DEF Write
<1>3. CASE GoTo(c, "commit") /\ UNCHANGED <<storage, input>>
  <2>1. TypeOK'
    BY <1>1, <1>3 DEF TypeOK, GoTo, Places, workers, storage, Write
  <2>2. Here(c)' = Here(c) /\ UNCHANGED <<bucket, reserved>>
    BY <1>3 DEF Here, Source, storage
  <2>3. Reserves(c)'
    BY <1>1, <1>3, <2>2 DEF Reserves, TypeOK, GoTo
  <2>4. \A d \in Calls \ {c} : pc'[d] = pc[d] /\ input'[d] = input[d]
    BY <1>1, <1>3 DEF TypeOK, GoTo
  <2>5. bucket[Here(c)] = "reserved" => reserved[c] = "bucket"
    BY <1>1 DEF Reserves, TypeOK
  <2>6. reserved'[c] = "bucket" => reserved[c] = "bucket"
    BY <2>2
  <2> QED
    BY <1>1, <2>1, <2>2, <2>3, <2>4, <2>5, <2>6, CreatorStep
<1> QED
  BY <1>2, <1>3 DEF Write

LEMMA CommitStep ==
  ASSUME StorageInv, NEW c \in Calls, Commit(c)
  PROVE  StorageInv'
<1>1. /\ TypeOK /\ Here(c) \in Buckets /\ FileOf(c, input[c]) \in AllFiles
      /\ Reserves(c) /\ reserved[c] # "nothing"
  BY HereFacts DEF StorageInv, Commit, Reserves
<1>2. CASE Abort(c) /\ Fail(c)
  BY <1>1, <1>2, AbortStep DEF Commit
<1>3. CASE /\ reserved' = [reserved EXCEPT ![c] = "nothing"]
           /\ bucket' = [bucket EXCEPT ![Here(c)] = "present"]
           /\ files' = [files EXCEPT ![Here(c)] = @ \cup {FileOf(c, input[c])}]
           /\ NextInput(c)
  <2>1. /\ pc' \in [Calls -> Places] /\ pc'[c] \in {"input", "read"}
        /\ input' \in [Calls -> 1 .. 3] /\ input'[c] <= Len(Sources[c])
        /\ \A d \in Calls \ {c} : pc'[d] = pc[d] /\ input'[d] = input[d]
    BY <1>1, <1>3, NextInputFacts
  <2>2. TypeOK'
    <3>1. files' \in [Buckets -> SUBSET AllFiles]
      BY <1>1, <1>3 DEF TypeOK
    <3>2. /\ bucket' \in [Buckets -> {"absent", "reserved", "present"}]
          /\ \A b \in Buckets : bucket'[b] # "present" => files'[b] = {}
      BY <1>1, <1>3 DEF TypeOK
    <3> QED
      BY <1>1, <1>3, <2>1, <3>1, <3>2 DEF TypeOK, Commit, workers
  <2>3. Reserves(c)' /\ reserved'[c] = "nothing" /\ bucket'[Here(c)] = "present"
    BY <1>1, <1>3, <2>1 DEF Reserves, TypeOK
  <2>4. ASSUME NEW d \in Calls \ {c}, Here(d) = Here(c), reserved[d] # "nothing"
        PROVE  bucket[Here(c)] = "present"
    <3>1. Reserves(d) /\ (reserved[c] = "bucket" => reserved[d] # "bucket")
            /\ (reserved[d] = "bucket" => reserved[c] # "bucket")
      BY <2>4 DEF StorageInv, OneOwner
    <3>2. reserved[c] \in {"bucket", "file"} /\ reserved[d] \in {"bucket", "file"}
      BY <1>1, <2>4 DEF TypeOK
    <3> QED
      BY <1>1, <2>4, <3>1, <3>2 DEF Reserves
  <2> QED
    BY <1>1, <1>3, <2>1, <2>2, <2>3, <2>4, CreatorStep DEF TypeOK
<1> QED
  BY <1>2, <1>3 DEF Commit

LEMMA ExpireStep ==
  ASSUME StorageInv, NEW b \in Buckets, Expire(b)
  PROVE  StorageInv'
<1>1. TypeOK /\ UNCHANGED <<pc, input, reserved, locks, workers>>
  BY DEF StorageInv, Expire, calls
<1>2. TypeOK'
  BY <1>1 DEF TypeOK, Expire, workers
<1>3. \A c \in Calls : Here(c)' = Here(c) /\ Here(c) \in Buckets
  BY <1>1, HereFacts DEF Here, Source
<1>4. ASSUME NEW c \in Calls PROVE Reserves(c)'
  <2>1. reserved[c] # "nothing" => bucket'[Here(c)] = bucket[Here(c)]
    BY <1>1, <1>3 DEF Expire, TypeOK
  <2> QED
    BY <1>1, <1>3, <2>1 DEF StorageInv, Reserves
<1>5. ASSUME NEW d \in Buckets PROVE Owned(d)'
  <2>1. bucket'[d] = "reserved" => bucket[d] = "reserved"
    BY <1>1 DEF Expire, TypeOK
  <2> QED
    BY <1>1, <1>3, <2>1 DEF StorageInv, Owned
<1>6. OneOwner'
  BY <1>1, <1>3 DEF StorageInv, OneOwner
<1> QED
  BY <1>2, <1>4, <1>5, <1>6 DEF StorageInv

\* What workers do leaves the coordinator's storage and the calls alone.
LEMMA WorkerStep ==
  ASSUME StorageInv, UNCHANGED <<storage, calls, expired>>,
         copy' \in [Workers -> SUBSET (Buckets \X AllFiles)],
         held' \in [Workers -> SUBSET Buckets],
         missed' \subseteq Workers \X Calls \X (1 .. 3)
  PROVE  StorageInv'
<1>1. UNCHANGED <<bucket, files, locks, reserved, pc, input, expired>>
  BY DEF storage, calls
<1>2. TypeOK'
  BY <1>1 DEF StorageInv, TypeOK
<1>3. \A c \in Calls : Here(c)' = Here(c)
  BY <1>1 DEF Here, Source
<1>4. /\ \A c \in Calls : Reserves(c)'
      /\ \A b \in Buckets : Owned(b)'
      /\ OneOwner'
  BY <1>1, <1>3 DEF StorageInv, Reserves, Owned, OneOwner
<1> QED
  BY <1>2, <1>4 DEF StorageInv

LEMMA FetchStep ==
  ASSUME StorageInv, NEW w \in Workers, NEW c \in Calls, NEW k \in DOMAIN Sources[c],
         Fetch(w, c, k)
  PROVE  StorageInv'
<1> DEFINE b == Sources[c][k].bucket
<1>1. TypeOK /\ k \in 1 .. 3 /\ b \in Buckets
  <2>1. Len(Sources[c]) \in {1, 2, 3} /\ DOMAIN Sources[c] = 1 .. Len(Sources[c])
    BY SourceFacts, CallsAssumption
  <2>2. k \in 1 .. Len(Sources[c])
    BY <2>1
  <2> QED
    BY <2>1, <2>2, SourceFacts DEF StorageInv
<1>2. missed' \in {missed, missed \cup {<<w, c, k>>}} /\ UNCHANGED <<storage, calls, expired>>
  BY DEF Fetch
<1>3. missed' \subseteq Workers \X Calls \X (1 .. 3)
  <2>1. <<w, c, k>> \in Workers \X Calls \X (1 .. 3)
    BY <1>1
  <2> QED
    BY <1>1, <1>2, <2>1 DEF TypeOK
<1> DEFINE Found == {<<b, f>> : f \in files[b]}
<1>4. held' = held \/ held' = [held EXCEPT ![w] = held[w] \cup {b}]
  BY DEF Fetch
<1>5. copy' = copy \/ copy' = [copy EXCEPT ![w] = copy[w] \cup Found]
  BY DEF Fetch
<1>6. Found \subseteq Buckets \X AllFiles
  BY <1>1 DEF TypeOK
<1>7. held' \in [Workers -> SUBSET Buckets]
  <2>1. held[w] \cup {b} \in SUBSET Buckets /\ held \in [Workers -> SUBSET Buckets]
    BY <1>1 DEF TypeOK
  <2> HIDE DEF b
  <2> QED
    BY <1>4, <2>1
<1>8. copy' \in [Workers -> SUBSET (Buckets \X AllFiles)]
  <2>1. copy \in [Workers -> SUBSET (Buckets \X AllFiles)]
    BY <1>1 DEF TypeOK
  <2> HIDE DEF Found
  <2>2. copy[w] \cup Found \in SUBSET (Buckets \X AllFiles)
    BY <1>6, <2>1
  <2> QED
    BY <1>5, <2>1, <2>2
<1> QED
  BY <1>2, <1>3, <1>7, <1>8, WorkerStep

LEMMA ExpireCopyStep ==
  ASSUME StorageInv, NEW w \in Workers, NEW b \in Buckets, ExpireCopy(w, b)
  PROVE  StorageInv'
<1>1. /\ copy' \in [Workers -> SUBSET (Buckets \X AllFiles)]
      /\ held' \in [Workers -> SUBSET Buckets]
  BY DEF StorageInv, TypeOK, ExpireCopy
<1> QED
  BY <1>1, WorkerStep DEF ExpireCopy, StorageInv, TypeOK

LEMMA StorageNext == StorageInv /\ [Next]_vars => StorageInv'
<1> SUFFICES ASSUME StorageInv, [Next]_vars PROVE StorageInv'
  OBVIOUS
<1>1. ASSUME NEW c \in Calls, CreateJob(c) PROVE StorageInv'
  BY <1>1, QuietAction, CreateStep, WriteStep, CommitStep
  DEF CreateJob, CreateInput, CalculateID
<1>2. CASE \E b \in Buckets : Expire(b)
  BY <1>2, ExpireStep
<1>3. CASE \E w \in Workers, c \in Calls : \E k \in DOMAIN Sources[c] : Fetch(w, c, k)
  BY <1>3, FetchStep
<1>4. CASE \E w \in Workers, b \in Buckets : ExpireCopy(w, b)
  BY <1>4, ExpireCopyStep
<1>5. CASE UNCHANGED vars
  BY <1>5, WorkerStep DEF vars, storage, calls, workers, StorageInv, TypeOK
<1> QED
  BY <1>1, <1>2, <1>3, <1>4, <1>5 DEF Next

\* The buckets and the creations at work on them agree: createInput's
\* reservations and the coordinator's file storage, step by step.
THEOREM StorageInvariant == Spec => []StorageInv
  BY StorageInit, StorageNext, PTL DEF Spec

\* The variables of JobFactory.Create's calls, of the storage and of the workers'
\* copies keep their types.
THEOREM TypeCorrect == Spec => []TypeOK
<1>1. StorageInv => TypeOK
  BY DEF StorageInv
<1> QED
  BY <1>1, StorageInvariant, PTL

\* Every bucket in creation has its one creator at work (create, write and commit
\* of filestorage_bucket_input_provider.go), and a call that has returned, with a
\* job or with an error, has nothing reserved.
THEOREM CreationsEndAlways == Spec => []CreationsEnd
<1>1. StorageInv => CreationsEnd
  <2> SUFFICES ASSUME StorageInv PROVE CreationsEnd
    OBVIOUS
  <2>1. \A b \in Buckets : bucket[b] = "reserved" =>
          \E c \in Calls : /\ pc[c] \in {"write", "commit"} /\ reserved[c] = "bucket"
                           /\ Here(c) = b
    BY DEF StorageInv, Owned, Reserves
  <2>2. \A c \in Calls : Ended(c) => reserved[c] = "nothing"
    BY DEF StorageInv, Reserves, Ended
  <2>3. ASSUME NEW c \in Calls, NEW d \in Calls,
               c # d, Here(c) = Here(d), reserved[c] = "bucket"
        PROVE  reserved[d] = "nothing"
    <3>1. reserved[d] # "bucket" /\ Reserves(c) /\ Reserves(d)
      BY <2>3 DEF StorageInv, OneOwner
    <3>2. bucket[Here(d)] = "reserved" /\ reserved[d] \in {"nothing", "bucket", "file"}
      BY <2>3, <3>1 DEF Reserves, StorageInv, TypeOK
    <3> QED
      BY <3>1, <3>2 DEF Reserves
  <2> QED
    BY <2>1, <2>2, <2>3 DEF CreationsEnd
<1> QED
  BY <1>1, StorageInvariant, PTL

-----------------------------------------------------------------------------
(***************************************************************************)
(* What a call has in hand: its locks.                                     *)
(***************************************************************************)

Holding == {"unlock", "content", "unopened"}

Accounted == \A t \in locks : pc[t[1]] \in Holding /\ t[2] = input[t[1]]

Reading == {"read", "open", "content"}
Making == {"waiting", "input", "write", "commit", "getFile", "unlock"}

CallInv == StorageInv /\ Accounted

\* A call's step is its own: the others are where they were.
LEMMA OthersStay ==
  ASSUME StorageInv, NEW c \in Calls, CreateJob(c)
  PROVE  \A d \in Calls \ {c} : pc'[d] = pc[d] /\ input'[d] = input[d]
<1>1. pc \in [Calls -> Places] /\ input \in [Calls -> 1 .. 3]
  BY DEF StorageInv, TypeOK
<1>2. CASE NextInput(c)
  BY <1>1, <1>2 DEF NextInput, GoTo
<1>3. CASE (\E place \in Places : GoTo(c, place)) /\ UNCHANGED input
  BY <1>1, <1>3 DEF GoTo
<1>4. CASE ReadAll(c)
  <2>1. \E place \in Places : GoTo(c, place)
    BY <1>4 DEF ReadAll, Fail, Places
  <2>2. input' = input \/ input' = [input EXCEPT ![c] = @ + 1]
    BY <1>4 DEF ReadAll, Fail
  <2> QED
    BY <1>1, <2>1, <2>2 DEF GoTo
<1>5. CASE Begin(c) \/ OtherStep(c) \/ BucketSource(c) \/ LocateFile(c) \/ Unlock(c)
  BY <1>2, <1>3, <1>5 DEF Begin, OtherStep, BucketSource, LocateFile, Unlock, Fail, Places
<1>6. CASE Create(c) \/ Write(c) \/ Commit(c)
  BY <1>2, <1>3, <1>6 DEF Create, Write, Commit, Fail, Places
<1>7. CASE Read(c) \/ Open(c)
  BY <1>3, <1>7 DEF Read, Open, Fail, Places
<1> QED
  BY <1>4, <1>5, <1>6, <1>7 DEF CreateJob, CreateInput, CalculateID

LEMMA AccountedStep ==
  ASSUME CallInv, NEW c \in Calls, CreateJob(c)
  PROVE  Accounted'
<1>1. /\ \A d \in Calls \ {c} : pc'[d] = pc[d] /\ input'[d] = input[d]
      /\ TypeOK /\ Accounted /\ locks \subseteq Uuids
  BY OthersStay DEF CallInv, StorageInv, TypeOK
<1>2. ASSUME pc[c] \notin Holding, locks' = locks
      PROVE  Accounted'
  <2>1. ASSUME NEW t \in locks PROVE pc'[t[1]] \in Holding /\ t[2] = input'[t[1]]
    <3>1. t[1] \in Calls /\ pc[t[1]] \in Holding /\ t[2] = input[t[1]]
      BY <1>1 DEF Accounted, Uuids
    <3> QED
      BY <1>1, <1>2, <3>1
  <2> QED
    BY <1>2, <2>1 DEF Accounted
<1>3. ASSUME pc'[c] \in Holding, locks' = locks \cup {<<c, input[c]>>},
             input' = input, pc[c] \notin Holding
      PROVE  Accounted'
  <2>1. ASSUME NEW t \in locks PROVE pc'[t[1]] \in Holding /\ t[2] = input'[t[1]]
    <3>1. t[1] \in Calls /\ pc[t[1]] \in Holding /\ t[2] = input[t[1]]
      BY <1>1 DEF Accounted, Uuids
    <3> QED
      BY <1>1, <1>3, <3>1
  <2> QED
    BY <1>3, <2>1 DEF Accounted
<1>4. ASSUME locks' = locks \ {<<c, input[c]>>} PROVE Accounted'
  <2>1. ASSUME NEW t \in locks, t # <<c, input[c]>>
        PROVE  pc'[t[1]] \in Holding /\ t[2] = input'[t[1]]
    <3>1. /\ t[1] \in Calls /\ pc[t[1]] \in Holding /\ t[2] = input[t[1]]
          /\ t = <<t[1], t[2]>>
      BY <1>1 DEF Accounted, Uuids
    <3>2. t[1] # c
      BY <2>1, <3>1
    <3> QED
      BY <1>1, <3>1, <3>2
  <2> QED
    BY <1>4, <2>1 DEF Accounted
<1>5. CASE Begin(c) \/ OtherStep(c) \/ BucketSource(c) \/ Create(c) \/ Write(c) \/ Commit(c) \/ Read(c)
  <2>1. pc[c] \notin Holding
    BY <1>5 DEF Begin, OtherStep, BucketSource, Create, Write, Commit, Read, Holding
  <2>2. locks' = locks
    BY <1>5 DEF Begin, OtherStep, BucketSource, Create, Write, Commit, Read, storage
  <2> QED
    BY <1>2, <2>1, <2>2
<1>6. CASE LocateFile(c) \/ Open(c)
  <2>1. pc[c] \notin Holding
    BY <1>6 DEF LocateFile, Open, Holding
  <2>2. CASE UNCHANGED storage
    BY <1>2, <2>1, <2>2 DEF storage
  <2>3. CASE /\ locks' = locks \cup {<<c, input[c]>>} /\ UNCHANGED input
             /\ GoTo(c, "unlock") \/ GoTo(c, "content") \/ GoTo(c, "unopened")
    <3>1. pc'[c] \in Holding
      BY <1>1, <2>3 DEF GoTo, TypeOK, Holding
    <3> QED
      BY <1>3, <2>1, <2>3, <3>1
  <2> QED
    BY <1>6, <2>2, <2>3 DEF LocateFile, Open
<1>7. CASE Unlock(c) \/ ReadAll(c)
  BY <1>4, <1>7 DEF Unlock, ReadAll, UnlockRead
<1> QED
  BY <1>5, <1>6, <1>7 DEF CreateJob, CreateInput, CalculateID

\* A call's locks are on the input it is at.
THEOREM CallInvariant == Spec => []CallInv
<1>1. Init => CallInv
  BY StorageInit DEF CallInv, Init, Accounted
<1>2. CallInv /\ [Next]_vars => CallInv'
  <2> SUFFICES ASSUME CallInv, [Next]_vars PROVE CallInv'
    OBVIOUS
  <2>1. StorageInv'
    BY StorageNext DEF CallInv
  <2>2. CASE \E c \in Calls : CreateJob(c)
    BY <2>1, <2>2, AccountedStep DEF CallInv
  <2>3. CASE UNCHANGED <<locks, calls>>
    BY <2>1, <2>3 DEF CallInv, Accounted, calls
  <2> QED
    BY <2>2, <2>3 DEF Next, vars, storage, Expire, Fetch, ExpireCopy
<1> QED
  BY <1>1, <1>2, PTL DEF Spec

\* JobFactory.Create unlocks what it has located or read on every path but the
\* one where the locked file cannot be opened.
THEOREM LocksReturned == Spec => []OnlyUnopenedStayLocked
<1>1. CallInv => OnlyUnopenedStayLocked
  BY DEF CallInv, Accounted, OnlyUnopenedStayLocked, Holding, Ended
<1> QED
  BY <1>1, CallInvariant, PTL

-----------------------------------------------------------------------------
(***************************************************************************)
(* Files: what was written or downloaded is there until the bucket goes.   *)
(***************************************************************************)

\* What takes a file away is the trash time of a bucket nobody uses.
Goes(b) ==
  /\ UNCHANGED calls /\ ~ Locked(b) /\ files'[b] = {} /\ bucket'[b] = "absent"
  /\ \A c \in Calls : reserved[c] # "nothing" => Here(c) # b
  /\ b \in expired'

LEMMA FilesStep ==
  ASSUME StorageInv, [Next]_vars, NEW b \in Buckets
  PROVE  files[b] \subseteq files'[b] \/ Goes(b)
<1>1. /\ files \in [Buckets -> SUBSET AllFiles]
      /\ bucket \in [Buckets -> {"absent", "reserved", "present"}]
      /\ bucket[b] # "present" => files[b] = {}
  BY DEF StorageInv, TypeOK
<1>2. CASE files' = files
  BY <1>2
<1>3. CASE \E d \in Buckets : Expire(d)
  BY <1>1, <1>3 DEF Expire, Goes
<1>4. ASSUME NEW c \in Calls, CreateJob(c) PROVE files[b] \subseteq files'[b]
  <2>1. Here(c) \in Buckets
    BY HereFacts DEF StorageInv
  <2>2. CASE Begin(c) \/ OtherStep(c) \/ LocateFile(c) \/ Unlock(c) \/ Create(c) \/ Write(c)
               \/ Open(c) \/ ReadAll(c)
    BY <2>2 DEF Begin, OtherStep, LocateFile, Unlock, Create, Write, Abort, Open, ReadAll, storage
  <2>3. CASE BucketSource(c) \/ Read(c)
    <3>1. \/ files' = files
          \/ /\ bucket[Here(c)] = "absent"
             /\ files' = [files EXCEPT ![Here(c)] = Stored[Here(c)]]
      BY <2>3 DEF BucketSource, Read, storage
    <3> QED
      BY <1>1, <2>1, <3>1
  <2>4. CASE Commit(c)
    <3>1. \/ files' = files
          \/ files' = [files EXCEPT ![Here(c)] = @ \cup {FileOf(c, input[c])}]
      BY <2>4 DEF Commit, Abort
    <3> QED
      BY <1>1, <2>1, <3>1
  <2> QED
    BY <1>4, <2>2, <2>3, <2>4 DEF CreateJob, CreateInput, CalculateID
<1> QED
  BY <1>2, <1>3, <1>4 DEF Next, vars, storage, Fetch, ExpireCopy

\* Abort takes away what its call reserved and nothing else, though the inline
\* sources of an execution share a bucket.
THEOREM WrittenStayAlways == Spec => WrittenStay
<1>1. StorageInv /\ [Next]_vars =>
        [\A b \in Buckets : ~ files[b] \subseteq files'[b] =>
           /\ UNCHANGED calls /\ ~ Locked(b) /\ files'[b] = {} /\ bucket'[b] = "absent"
           /\ \A c \in Calls : reserved[c] # "nothing" => Here(c) # b]_vars
  BY FilesStep DEF Goes
<1> QED
  BY <1>1, StorageInvariant, PTL DEF Spec, WrittenStay

\* The inputs a call has made: those before the one it is at, then all.
Passed(c, k) ==
  \/ pc[c] \in Making /\ k < input[c]
  \/ pc[c] = "unlock" /\ k = input[c]
  \/ pc[c] \in Reading \cup {"made"}

Available(c, k) ==
  \/ FileOf(c, k) \in files[Sources[c][k].bucket]
  \/ Sources[c][k].bucket \in expired

MadeInv ==
  /\ StorageInv
  /\ \A c \in Calls : \A k \in 1 .. 3 :
       k <= Len(Sources[c]) /\ Sources[c][k].type # "other_step" /\ Passed(c, k) =>
         Available(c, k)

LEMMA AvailableStays ==
  ASSUME StorageInv, [Next]_vars, NEW c \in Calls, NEW k \in 1 .. 3,
         k <= Len(Sources[c]), Available(c, k)
  PROVE  Available(c, k)'
<1>1. Sources[c][k].bucket \in Buckets
  <2>1. k \in 1 .. Len(Sources[c])
    <3>1. Len(Sources[c]) \in {1, 2, 3}
      BY SourceFacts
    <3> QED
      BY <3>1
  <2> QED
    BY <2>1, SourceFacts
<1>2. expired \subseteq expired'
  BY DEF Next, vars, CreateJob, CreateInput, CalculateID, Begin, OtherStep, BucketSource,
         LocateFile, Unlock, Create, Write, Commit, Read, Open, ReadAll, Expire, Fetch, ExpireCopy
<1>3. FileOf(c, k)' = FileOf(c, k)
  BY DEF FileOf
<1> QED
  BY <1>1, <1>2, <1>3, FilesStep DEF Available, Goes

\* What a call has passed after its step it had passed before, or the step has
\* made it.
LEMMA PassedStep ==
  ASSUME StorageInv, NEW c \in Calls, CreateJob(c), NEW k \in 1 .. 3,
         k <= Len(Sources[c]), Sources[c][k].type # "other_step", Passed(c, k)'
  PROVE  Passed(c, k) \/ FileOf(c, k) \in files'[Sources[c][k].bucket]
<1>1. /\ TypeOK /\ Here(c) \in Buckets
      /\ input[c] \in 1 .. 3 /\ input[c] <= Len(Sources[c]) /\ Len(Sources[c]) \in {1, 2, 3}
      /\ pc \in [Calls -> Places] /\ input \in [Calls -> 1 .. 3]
      /\ files \in [Buckets -> SUBSET AllFiles]
  BY HereFacts, SourceFacts DEF StorageInv, TypeOK
<1>2. ASSUME NextInput(c), pc[c] \in Making PROVE k <= input[c]
  <2>1. CASE Last(c)
    BY <1>1, <2>1 DEF Last
  <2>2. CASE ~ Last(c)
    <3>1. pc'[c] = "input" /\ input'[c] = input[c] + 1
      BY <1>1, <1>2, <2>2 DEF NextInput, GoTo
    <3>2. k < input[c] + 1
      BY <3>1 DEF Passed, Reading
    <3> QED
      BY <1>1, <3>2
  <2> QED
    BY <2>1, <2>2
<1>3. ASSUME pc[c] \in Making, k < input[c] PROVE Passed(c, k)
  BY <1>3 DEF Passed
<1>4. ASSUME NEW place \in Places, GoTo(c, place), UNCHANGED input,
             place \in Making => pc[c] \in Making,
             place \in Reading \cup {"made"} => pc[c] \in Reading \cup {"made"},
             place # "unlock"
      PROVE  Passed(c, k)
  <2>1. pc'[c] = place /\ input'[c] = input[c]
    BY <1>1, <1>4 DEF GoTo
  <2> QED
    BY <1>4, <2>1 DEF Passed
<1>5. ASSUME Fail(c) PROVE Passed(c, k)
  BY <1>4, <1>5 DEF Fail, Places, Making, Reading
<1>6. CASE Begin(c) \/ BucketSource(c) \/ Create(c)
  BY <1>4, <1>5, <1>6 DEF Begin, BucketSource, Create, Places, Making, Reading
<1>7. CASE Write(c)
  BY <1>4, <1>5, <1>7 DEF Write, Places, Making, Reading
<1>8. CASE Read(c) \/ Open(c)
  BY <1>4, <1>5, <1>8 DEF Read, Open, Places, Making, Reading
<1>9. CASE ReadAll(c)
  BY <1>9 DEF ReadAll, Passed, Reading
<1>10. CASE LocateFile(c)
  <2>1. CASE FileOf(c, input[c]) \in files[Here(c)] /\ GoTo(c, "unlock")
               /\ UNCHANGED <<files, input>>
    <3>1. pc'[c] = "unlock" /\ input'[c] = input[c] /\ pc[c] \in Making
      BY <1>1, <1>10, <2>1 DEF LocateFile, GoTo, Making
    <3>2. k < input[c] \/ k = input[c]
      BY <3>1 DEF Passed, Reading
    <3>3. CASE k = input[c]
      BY <2>1, <3>3 DEF Here, Source
    <3> QED
      BY <1>3, <3>1, <3>2, <3>3
  <2> QED
    BY <1>5, <1>10, <2>1 DEF LocateFile
<1>11. CASE OtherStep(c)
  <2>1. CASE NextInput(c)
    <3>1. pc[c] \in Making /\ k # input[c]
      BY <1>11 DEF OtherStep, Making, Source
    <3>2. k <= input[c]
      BY <1>2, <2>1, <3>1
    <3>3. k < input[c]
      BY <1>1, <3>1, <3>2
    <3> QED
      BY <1>3, <3>1, <3>3
  <2> QED
    BY <1>5, <1>11, <2>1 DEF OtherStep
<1>12. CASE Unlock(c)
  <2>1. pc[c] = "unlock" /\ pc[c] \in Making /\ NextInput(c)
    BY <1>12 DEF Unlock, Making
  <2>2. k < input[c] \/ k = input[c]
    BY <1>1, <1>2, <2>1
  <2> QED
    BY <1>3, <2>1, <2>2 DEF Passed
<1>13. CASE Commit(c)
  <2>1. CASE NextInput(c) /\ files' = [files EXCEPT ![Here(c)] = @ \cup {FileOf(c, input[c])}]
    <3>1. pc[c] \in Making
      BY <1>13 DEF Commit, Making
    <3>2. k < input[c] \/ k = input[c]
      BY <1>1, <1>2, <2>1, <3>1
    <3>3. CASE k = input[c]
      BY <1>1, <2>1, <3>3 DEF Here, Source
    <3> QED
      BY <1>3, <3>1, <3>2, <3>3
  <2> QED
    BY <1>5, <1>13, <2>1 DEF Commit
<1> QED
  BY <1>6, <1>7, <1>8, <1>9, <1>10, <1>11, <1>12, <1>13
  DEF CreateJob, CreateInput, CalculateID

LEMMA MadeInit == Init => MadeInv
<1> SUFFICES ASSUME Init PROVE MadeInv
  OBVIOUS
<1>1. \A c \in Calls : \A k \in 1 .. 3 : ~ Passed(c, k)
  BY DEF Init, Passed, Reading
<1> QED
  BY <1>1, StorageInit DEF MadeInv

LEMMA MadeNext == MadeInv /\ [Next]_vars => MadeInv'
<1> SUFFICES ASSUME MadeInv, [Next]_vars PROVE MadeInv'
  OBVIOUS
<1>1. StorageInv /\ StorageInv'
  BY StorageNext DEF MadeInv
<1>2. ASSUME NEW c \in Calls, NEW k \in 1 .. 3, k <= Len(Sources[c]),
             Sources[c][k].type # "other_step", Passed(c, k)'
      PROVE  Available(c, k)'
  <2>1. CASE Passed(c, k)
    BY <1>1, <1>2, <2>1, AvailableStays DEF MadeInv
  <2>2. CASE pc'[c] = pc[c] /\ input'[c] = input[c]
    BY <1>2, <2>1, <2>2 DEF Passed
  <2>3. CASE CreateJob(c)
    <3>1. FileOf(c, k)' = FileOf(c, k)
      BY DEF FileOf
    <3> QED
      BY <1>1, <1>2, <2>1, <2>3, <3>1, PassedStep DEF Available
  <2>4. ASSUME NEW d \in Calls, CreateJob(d), d # c PROVE pc'[c] = pc[c] /\ input'[c] = input[c]
    BY <1>1, <2>4, OthersStay
  <2>5. CASE UNCHANGED calls
    BY <2>2, <2>5 DEF calls
  <2> QED
    BY <2>2, <2>3, <2>4, <2>5 DEF Next, vars, Expire, Fetch, ExpireCopy
<1> QED
  BY <1>1, <1>2 DEF MadeInv

\* What createInput has written or located is in the coordinator's storage until
\* the bucket expires there: nothing else comes between a job and its inputs.
THEOREM MadeInvariant == Spec => []MadeInv
  BY MadeInit, MadeNext, PTL DEF Spec

\* A worker misses an input of a job only if it had a copy of the bucket already
\* or the coordinator's has expired.
THEOREM MissedAlways == Spec => MissedForAReason
<1> DEFINE Reason(w, c, k) == Sources[c][k].bucket \in held[w] \/ Sources[c][k].bucket \in expired
<1>1. ASSUME MadeInv, [Next]_vars, NEW w \in Workers, NEW c \in Calls, NEW k \in 1 .. 3,
             <<w, c, k>> \in missed', <<w, c, k>> \notin missed
      PROVE  Reason(w, c, k)
  <2>1. /\ TypeOK /\ StorageInv
    BY <1>1 DEF MadeInv, StorageInv
  <2>2. Fetch(w, c, k) /\ k \in DOMAIN Sources[c]
    <3>1. missed' # missed
      BY <1>1
    <3>2. PICK v \in Workers, d \in Calls : \E j \in DOMAIN Sources[d] : Fetch(v, d, j)
      BY <1>1, <3>1 DEF Next, vars, workers, CreateJob, CreateInput, CalculateID, Begin,
         OtherStep, BucketSource, LocateFile, Unlock, Create, Write, Commit, Read, Open,
         ReadAll, Expire, ExpireCopy
    <3>3. PICK j \in DOMAIN Sources[d] : Fetch(v, d, j)
      BY <3>2
    <3>4. missed' = missed \/ missed' = missed \cup {<<v, d, j>>}
      BY <3>3 DEF Fetch
    <3>5. v = w /\ d = c /\ j = k
      BY <1>1, <3>4
    <3> QED
      BY <3>3, <3>5
  <2>3. k <= Len(Sources[c])
    <3>1. Len(Sources[c]) \in {1, 2, 3} /\ DOMAIN Sources[c] = 1 .. Len(Sources[c])
      BY SourceFacts, CallsAssumption
    <3> QED
      BY <2>2, <3>1
  <2>4. Available(c, k) /\ Sources[c][k].bucket \in Buckets
    <3>1. Passed(c, k) /\ Sources[c][k].type # "other_step"
      BY <2>2 DEF Fetch, Passed
    <3>2. k \in 1 .. Len(Sources[c])
      <4>1. Len(Sources[c]) \in {1, 2, 3}
        BY SourceFacts
      <4> QED
        BY <2>3, <4>1
    <3> QED
      BY <1>1, <2>3, <3>1, <3>2, SourceFacts DEF MadeInv
  <2>5. CASE FileOf(c, k) \in files[Sources[c][k].bucket] /\ Sources[c][k].bucket \notin held[w]
    <3> DEFINE b == Sources[c][k].bucket
    <3>1. bucket[b] = "present"
      BY <2>1, <2>4, <2>5 DEF TypeOK
    <3>2. /\ copy' = [copy EXCEPT ![w] = copy[w] \cup {<<b, f>> : f \in files[b]}]
          /\ <<b, FileOf(c, k)>> \in copy'[w] => missed' = missed
      BY <2>2, <2>5, <3>1 DEF Fetch
    <3>3. <<b, FileOf(c, k)>> \in copy'[w]
      <4>1. copy \in [Workers -> SUBSET (Buckets \X AllFiles)]
        BY <2>1 DEF TypeOK
      <4>2. <<b, FileOf(c, k)>> \in {<<b, f>> : f \in files[b]}
        BY <2>5
      <4> HIDE DEF b
      <4> QED
        BY <3>2, <4>1, <4>2
    <3> QED
      BY <1>1, <3>2, <3>3
  <2> QED
    BY <2>4, <2>5 DEF Available
<1>2. MadeInv /\ [Next]_vars =>
        [\A w \in Workers, c \in Calls, k \in 1 .. 3 :
           <<w, c, k>> \in missed' \ missed =>
             \/ Sources[c][k].bucket \in held[w]
             \/ Sources[c][k].bucket \in expired]_vars
  BY <1>1
<1> QED
  BY <1>2, MadeInvariant, PTL DEF Spec, MissedForAReason

-----------------------------------------------------------------------------
(***************************************************************************)
(* Failures: a call that fails without a failure of its own found a bucket *)
(* in creation or expired, or its source names a file that is not there.   *)
(***************************************************************************)

\* A bucket that is present has all the files it has where it comes from.
Whole(b) == bucket[b] = "present" => Stored[b] \subseteq files[b]

\* Between the steps of a provider's operation the bucket is there, or has expired.
There(c) == pc[c] \in {"getFile", "open"} => bucket[Here(c)] = "present" \/ Here(c) \in expired

KindOf(c) ==
  /\ pc[c] \in {"write", "commit"} => Source(c).type = "inline"
  /\ pc[c] = "getFile" => Source(c).type = "filestorage_bucket"

UndisturbedInv ==
  /\ MadeInv
  /\ \A b \in Buckets : Whole(b)
  /\ \A c \in Calls : There(c) /\ KindOf(c)

\* Only its trash time takes a bucket away: an abort takes back what is reserved.
LEMMA PresentStays ==
  ASSUME StorageInv, [Next]_vars, NEW b \in Buckets, bucket[b] = "present"
  PROVE  bucket'[b] = "present" \/ b \in expired'
<1>1. TypeOK /\ \A c \in Calls : Here(c) \in Buckets /\ Reserves(c)
  BY HereFacts DEF StorageInv
<1>2. CASE bucket' = bucket
  BY <1>2
<1>3. CASE \E d \in Buckets : Expire(d)
  BY <1>1, <1>3 DEF Expire, TypeOK
<1>4. ASSUME NEW c \in Calls, CreateJob(c) PROVE bucket'[b] = "present"
  <2>1. \/ bucket' = bucket
        \/ bucket' = [bucket EXCEPT ![Here(c)] = "present"]
        \/ /\ bucket[Here(c)] = "absent"
           /\ bucket' = [bucket EXCEPT ![Here(c)] = "reserved"]
        \/ Abort(c)
    BY <1>4 DEF CreateJob, CreateInput, CalculateID, Begin, OtherStep, BucketSource, LocateFile,
       Unlock, Create, Write, Commit, Read, Open, ReadAll, storage
  <2>2. CASE Abort(c)
    <3>1. bucket' = [bucket EXCEPT ![Here(c)] = IF reserved[c] = "bucket" THEN "absent" ELSE @]
      BY <2>2 DEF Abort
    <3>2. reserved[c] = "bucket" => Here(c) # b
      BY <1>1 DEF Reserves
    <3> QED
      BY <1>1, <3>1, <3>2 DEF TypeOK
  <2> QED
    BY <1>1, <2>1, <2>2 DEF TypeOK
<1> QED
  BY <1>2, <1>3, <1>4 DEF Next, vars, storage, Fetch, ExpireCopy

\* What makes a bucket present brings all its files: a download does, and the bucket
\* that createInput makes has no others.
LEMMA WholeStep ==
  ASSUME UndisturbedInv, [Next]_vars, NEW b \in Buckets
  PROVE  Whole(b)'
<1> SUFFICES ASSUME bucket'[b] = "present", bucket[b] # "present"
             PROVE  Stored[b] \subseteq files'[b]
  <2>1. CASE bucket[b] = "present"
    <3>1. files[b] \subseteq files'[b] \/ bucket'[b] = "absent"
      BY FilesStep DEF UndisturbedInv, MadeInv, Goes
    <3> QED
      BY <2>1, <3>1 DEF UndisturbedInv, Whole
  <2> QED
    BY <2>1 DEF Whole
<1>1. TypeOK /\ \A c \in Calls : Here(c) \in Buckets
  BY HereFacts DEF UndisturbedInv, MadeInv, StorageInv
<1>2. PICK c \in Calls : CreateJob(c)
  BY <1>1 DEF Next, vars, storage, Fetch, ExpireCopy, Expire, TypeOK
<1>3. CASE /\ bucket' = [bucket EXCEPT ![Here(c)] = "present"]
           /\ files' = [files EXCEPT ![Here(c)] = Stored[Here(c)]]
  BY <1>1, <1>3 DEF TypeOK
<1>4. CASE Commit(c)
  <2>1. Here(c) = b
    BY <1>1, <1>4 DEF Commit, Abort, TypeOK
  <2>2. /\ Source(c).type = "inline" /\ input[c] \in 1 .. 3 /\ input[c] <= Len(Sources[c])
        /\ Len(Sources[c]) \in {1, 2, 3}
    BY <1>1, <1>4, HereFacts, SourceFacts DEF Commit, UndisturbedInv, KindOf
  <2>3. input[c] \in DOMAIN Sources[c]
    <3>1. DOMAIN Sources[c] = 1 .. Len(Sources[c])
      BY CallsAssumption
    <3> QED
      BY <2>2, <3>1
  <2>4. Stored[b] = {}
    BY <2>1, <2>2, <2>3, CallsAssumption DEF Source, Here
  <2> QED
    BY <2>4
<1>5. bucket' # bucket
  OBVIOUS
<1>6. CASE Create(c) \/ Write(c)
  BY <1>1, <1>6 DEF Create, Write, Abort, TypeOK, storage
<1> QED
  BY <1>2, <1>3, <1>4, <1>5, <1>6 DEF CreateJob, CreateInput, CalculateID, Begin, OtherStep,
     BucketSource, LocateFile, Unlock, Read, Open, ReadAll, storage

\* A call's own step leads into an operation only with the bucket at hand.
LEMMA OwnStep ==
  ASSUME UndisturbedInv, NEW c \in Calls, CreateJob(c)
  PROVE  There(c)' /\ KindOf(c)'
<1>1. /\ pc \in [Calls -> Places] /\ Here(c) \in Buckets
      /\ bucket \in [Buckets -> {"absent", "reserved", "present"}]
  BY HereFacts DEF UndisturbedInv, MadeInv, StorageInv, TypeOK
<1>2. ASSUME NextInput(c) PROVE There(c)' /\ KindOf(c)'
  <2>1. pc'[c] \in {"read", "input"}
    BY <1>1, <1>2 DEF NextInput, GoTo
  <2> QED
    BY <2>1 DEF There, KindOf
<1>3. ASSUME NEW place \in {"input", "unlock", "content", "made", "read", "failed", "unopened"},
             GoTo(c, place)
      PROVE  There(c)' /\ KindOf(c)'
  BY <1>1, <1>3 DEF There, KindOf, GoTo
<1>4. ASSUME Fail(c) PROVE There(c)' /\ KindOf(c)'
  BY <1>3, <1>4 DEF Fail
<1>5. CASE Begin(c) \/ OtherStep(c) \/ LocateFile(c) \/ Unlock(c) \/ Commit(c) \/ Open(c)
  BY <1>2, <1>3, <1>4, <1>5 DEF Begin, OtherStep, LocateFile, Unlock, Commit, Open
<1>6. CASE ReadAll(c)
  BY <1>3, <1>4, <1>6 DEF ReadAll
<1>7. CASE BucketSource(c) \/ Read(c)
  <2>1. CASE /\ bucket'[Here(c)] = "present" /\ input' = input
             /\ \/ GoTo(c, "getFile") /\ Source(c).type = "filestorage_bucket"
                \/ GoTo(c, "open")
    <3>1. Here(c)' = Here(c) /\ Source(c)' = Source(c) /\ pc'[c] \in {"getFile", "open"}
      BY <1>1, <2>1 DEF Here, Source, GoTo
    <3> QED
      BY <1>1, <2>1, <3>1 DEF There, KindOf, GoTo
  <2> QED
    BY <1>1, <1>4, <1>7, <2>1 DEF BucketSource, Read, storage
<1>8. CASE Create(c) \/ Write(c)
  <2>1. CASE /\ Source(c).type = "inline" /\ input' = input
             /\ GoTo(c, "write") \/ GoTo(c, "commit")
    BY <1>1, <2>1 DEF There, KindOf, GoTo, Source
  <2> QED
    BY <1>4, <1>8, <2>1 DEF Create, Write, UndisturbedInv, KindOf
<1> QED
  BY <1>5, <1>6, <1>7, <1>8 DEF CreateJob, CreateInput, CalculateID

\* Nothing that the coordinator has brought together for a call's inputs is taken
\* away but by trash times.
THEOREM UndisturbedInvariant == Spec => []UndisturbedInv
<1>1. Init => UndisturbedInv
  BY MadeInit DEF Init, UndisturbedInv, Whole, There, KindOf
<1>2. UndisturbedInv /\ [Next]_vars => UndisturbedInv'
  <2> SUFFICES ASSUME UndisturbedInv, [Next]_vars PROVE UndisturbedInv'
    OBVIOUS
  <2>1. MadeInv' /\ StorageInv /\ \A b \in Buckets : Whole(b)'
    BY MadeNext, WholeStep DEF UndisturbedInv, MadeInv
  <2>2. ASSUME NEW c \in Calls PROVE There(c)' /\ KindOf(c)'
    <3>1. CASE CreateJob(c)
      BY <3>1, OwnStep
    <3>2. CASE pc'[c] = pc[c] /\ input'[c] = input[c]
      <4>1. Here(c)' = Here(c) /\ Source(c)' = Source(c) /\ Here(c) \in Buckets
        BY <2>1, <3>2, HereFacts DEF Here, Source, StorageInv
      <4>2. expired \subseteq expired'
        BY DEF Next, vars, CreateJob, CreateInput, CalculateID, Begin, OtherStep, BucketSource,
           LocateFile, Unlock, Create, Write, Commit, Read, Open, ReadAll, Expire, Fetch, ExpireCopy
      <4> QED
        BY <2>1, <3>2, <4>1, <4>2, PresentStays DEF UndisturbedInv, There, KindOf
    <3> QED
      BY <2>1, <3>1, <3>2, OthersStay DEF Next, vars, calls, Expire, Fetch, ExpireCopy
  <2> QED
    BY <2>1, <2>2 DEF UndisturbedInv
<1> QED
  BY <1>1, <1>2, PTL DEF Spec

\* createInput and calculateID fail, if nothing fails them, only over a bucket that
\* another call creates, a trash time, or a file that does not exist.
THEOREM FailsAlways == Spec => FailsForAReason
<1> DEFINE Reason(c) ==
             \/ bucket[Here(c)] = "reserved"
             \/ Here(c) \in expired
             \/ Source(c).type # "inline" /\ Source(c).file \notin Stored[Here(c)]
<1>1. ASSUME UndisturbedInv, [Next]_vars, NEW c \in Calls, Faults[c] = {},
             pc[c] # "failed", pc'[c] = "failed"
      PROVE  Reason(c)
  <2>1. StorageInv /\ TypeOK
    BY <1>1 DEF UndisturbedInv, MadeInv, StorageInv
  <2>2. CreateJob(c)
    BY <1>1, <2>1, OthersStay DEF Next, vars, calls, Expire, Fetch, ExpireCopy
  <2>3. /\ input[c] \in 1 .. 3 /\ input[c] <= Len(Sources[c]) /\ Here(c) \in Buckets
        /\ There(c) /\ KindOf(c) /\ Whole(Here(c)) /\ Source(c) = Sources[c][input[c]]
    BY <1>1, <2>1, HereFacts DEF UndisturbedInv, Source
  <2>4. ASSUME pc[c] \in Reading, Source(c).type # "other_step"
        PROVE  FileOf(c, input[c]) \in files[Here(c)] \/ Here(c) \in expired
    BY <1>1, <2>3, <2>4 DEF UndisturbedInv, MadeInv, Passed, Available, Here
  <2>5. Source(c).type # "inline" => FileOf(c, input[c]) = Source(c).file
    BY <2>3 DEF FileOf
  <2>6. CASE ~ Fail(c)
    <3>1. \E place \in Places \ {"failed"} : pc'[c] = place
      BY <1>1, <2>1, <2>2, <2>6, NextInputFacts DEF CreateJob, CreateInput, CalculateID, Begin,
         OtherStep, BucketSource, LocateFile, Unlock, Create, Write, Commit, Read, Open, ReadAll,
         GoTo, Places, TypeOK
    <3> QED
      BY <1>1, <3>1
  <2>7. CASE Fail(c) /\ pc[c] = "getFile"
    <3>1. FileOf(c, input[c]) \notin files[Here(c)] /\ Source(c).type = "filestorage_bucket"
      BY <1>1, <2>1, <2>2, <2>3, <2>7 DEF CreateJob, CreateInput, CalculateID, Begin,
         OtherStep, BucketSource, LocateFile, Unlock, Create, Write, Commit, Read, Open, ReadAll,
         GoTo, Fail, TypeOK, KindOf
    <3> QED
      BY <2>3, <2>5, <2>7, <3>1 DEF There, Whole
  <2>8. CASE Fail(c) /\ pc[c] = "open"
    <3>1. FileOf(c, input[c]) \notin files[Here(c)]
      BY <1>1, <2>1, <2>2, <2>8 DEF CreateJob, CreateInput, CalculateID, Begin,
         OtherStep, BucketSource, LocateFile, Unlock, Create, Write, Commit, Read, Open, ReadAll,
         GoTo, Fail, TypeOK
    <3> QED
      BY <2>3, <2>4, <2>5, <2>8, <3>1 DEF There, Whole, Reading
  <2>9. CASE Fail(c) /\ pc[c] = "read"
    <3>1. \/ bucket[Here(c)] = "reserved"
          \/ bucket[Here(c)] = "absent" /\ ~ FromElsewhere(c)
      BY <1>1, <2>1, <2>2, <2>9 DEF CreateJob, CreateInput, CalculateID, Begin,
         OtherStep, BucketSource, LocateFile, Unlock, Create, Write, Commit, Read, Open, ReadAll,
         GoTo, Fail, TypeOK
    <3>2. bucket[Here(c)] = "absent" => files[Here(c)] = {}
      BY <2>1, <2>3 DEF TypeOK
    <3> QED
      BY <2>3, <2>4, <2>5, <2>9, <3>1, <3>2 DEF FromElsewhere, Reading
  <2>10. CASE Fail(c) /\ pc[c] \notin {"getFile", "open", "read"}
    BY <1>1, <2>1, <2>2, <2>10 DEF CreateJob, CreateInput, CalculateID, Begin,
       OtherStep, BucketSource, LocateFile, Unlock, Create, Write, Commit, Read, Open, ReadAll,
       NextInput, GoTo, Fail, TypeOK
  <2> QED
    BY <2>6, <2>7, <2>8, <2>9, <2>10
<1>2. UndisturbedInv /\ [Next]_vars =>
        [\A c \in Calls : Faults[c] = {} /\ pc[c] # "failed" /\ pc'[c] = "failed" => Reason(c)]_vars
  BY <1>1
<1> QED
  BY <1>2, UndisturbedInvariant, PTL DEF Spec, FailsForAReason
=============================================================================
