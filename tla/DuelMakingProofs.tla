--------------------------- MODULE DuelMakingProofs ---------------------------
(***************************************************************************)
(* Proofs about Duely's waiting pool: its types, whatever calls meet at    *)
(* the queue, and what it promises as long as none do.                     *)
(***************************************************************************)
EXTENDS DuelMaking, FiniteSetTheorems, TLAPS

\* What a step does to the waiting pool.
PoolNext == (\E j \in Joins : AddUser(j)) \/ Pairing

-----------------------------------------------------------------------------
(***************************************************************************)
(* Types.                                                                  *)
(***************************************************************************)

\* A request that has written its slot remembers an index of the queue.
PoolInv ==
  /\ PoolTypeOK
  /\ \A j \in Joins : join[j].step = "tail" => join[j].value \in Slots

LEMMA PoolBegins == PoolInit => PoolInv
<1> SUFFICES ASSUME PoolInit PROVE PoolInv
  OBVIOUS
<1>1. 0 \in Slots
  BY PoolAssumption DEF Slots
<1> QED
  BY <1>1 DEF PoolInit, PoolInv, PoolTypeOK, At

LEMMA AfterInSlots ==
  ASSUME NEW i \in Slots
  PROVE  After(i) \in Slots
  BY PoolAssumption DEF After, Slots

JoinStates == [step : {"none", "enqueue", "tail", "size", "ended"}, value : Nat]

\* A request goes on; what the step does to the queue is in order.
LEMMA JoinGoesOn ==
  ASSUME PoolInv, NEW j \in Joins,
         NEW step \in {"enqueue", "tail", "size", "ended"}, NEW value \in Nat,
         JoinGoes(j, step, value), step = "tail" => value \in Slots,
         slot' \in [Slots -> Users \cup {Null}], tail' \in Slots, size' \in Nat,
         UNCHANGED <<head, job, user1, pairs>>
  PROVE  PoolInv'
<1>1. join \in [Joins -> JoinStates]
  BY DEF PoolInv, PoolTypeOK, JoinStates
<1>2. /\ join' \in [Joins -> JoinStates]
      /\ join'[j].step = step /\ join'[j].value = value
      /\ \A i \in Joins \ {j} : join'[i] = join[i]
  BY <1>1 DEF JoinGoes, JoinStates
<1>3. PoolTypeOK'
  BY <1>2 DEF PoolInv, PoolTypeOK, JoinStates, Slots, Users
<1>4. \A i \in Joins : join'[i].step = "tail" => join'[i].value \in Slots
  BY <1>2 DEF PoolInv
<1> QED
  BY <1>3, <1>4 DEF PoolInv, Slots

LEMMA JoinTypes ==
  ASSUME PoolInv, NEW j \in Joins, AddUser(j)
  PROVE  PoolInv'
<1>1. /\ slot \in [Slots -> Users \cup {Null}] /\ tail \in Slots /\ size \in Nat
      /\ join[j].value \in Nat /\ UserOf[j] \in Users /\ tail \in Nat
  BY PoolAssumption DEF PoolInv, PoolTypeOK, Users, Slots
<1>2. CASE Join(j)
  <2>1. PICK step \in {"enqueue", "ended"} : JoinGoes(j, step, 0)
    BY <1>2 DEF Join
  <2> QED
    BY <1>1, <1>2, <2>1, JoinGoesOn DEF Join, queueVars
<1>3. CASE WriteSlot(j)
  <2>1. slot' \in [Slots -> Users \cup {Null}]
    BY <1>1, <1>3 DEF WriteSlot, EnqueueSlot
  <2> QED
    BY <1>1, <1>3, <2>1, JoinGoesOn DEF WriteSlot
<1>4. CASE MoveTail(j)
  <2>1. join[j].value \in Slots
    BY <1>4 DEF MoveTail, PoolInv
  <2>2. After(join[j].value) \in Slots /\ After(tail) \in Slots
    BY <1>1, <2>1, AfterInSlots
  <2>3. tail' \in Slots
    BY <1>4, <2>2 DEF MoveTail, EnqueueTail
  <2> QED
    BY <1>1, <1>4, <2>3, JoinGoesOn DEF MoveTail
<1>5. CASE CountUp(j)
  <2>1. size' \in Nat
    BY <1>1, <1>5 DEF CountUp, EnqueueSize
  <2> QED
    BY <1>1, <1>5, <2>1, JoinGoesOn DEF CountUp
<1> QED
  BY <1>2, <1>3, <1>4, <1>5 DEF AddUser

LEMMA JobTypes ==
  ASSUME PoolInv, Pairing
  PROVE  PoolInv'
<1>1. PoolTypeOK /\ UNCHANGED <<join, tail>>
  BY DEF PoolInv, Pairing, Look, Throw, Take, MoveHead, Shrink, queueVars
<1>2. job' \in [step : {"look", "take", "head", "size", "stopped"}, value : Nat]
  BY <1>1 DEF Pairing, Look, Throw, Take, MoveHead, Shrink, At, PoolTypeOK
<1>3. slot' \in [Slots -> Users \cup {Null}]
  BY <1>1 DEF Pairing, Look, Throw, Take, MoveHead, Shrink, queueVars, PoolTypeOK
<1>4. head' \in Slots
  BY <1>1, AfterInSlots
  DEF Pairing, Look, Throw, Take, MoveHead, Shrink, queueVars, PoolTypeOK
<1>5. size' \in Nat
  <2>1. CASE Shrink
    <3>1. \A n \in Nat \ {0} : n - 1 \in Nat
      OBVIOUS
    <3>2. job.value \in Nat /\ size \in Nat
      BY <1>1 DEF PoolTypeOK
    <3> QED
      BY <2>1, <3>1, <3>2 DEF Shrink
  <2>2. CASE Look \/ Throw \/ Take \/ MoveHead
    BY <1>1, <2>2 DEF Look, Throw, Take, MoveHead, queueVars, PoolTypeOK
  <2> QED
    BY <2>1, <2>2 DEF Pairing
<1>6. /\ user1' \in Users \cup {Null, Nobody}
      /\ pairs' \subseteq (Users \cup {Null}) \X (Users \cup {Null})
  <2>1. CASE Take
    BY <1>1, <2>1 DEF Take, PoolTypeOK
  <2>2. CASE Look \/ Throw \/ MoveHead \/ Shrink
    BY <1>1, <2>2 DEF Look, Throw, MoveHead, Shrink, PoolTypeOK
  <2> QED
    BY <2>1, <2>2 DEF Pairing
<1>7. PoolTypeOK'
  BY <1>1, <1>2, <1>3, <1>4, <1>5, <1>6 DEF PoolTypeOK, Slots, Users
<1> QED
  BY <1>1, <1>7 DEF PoolInv, Slots

LEMMA PoolKept == PoolInv /\ [PoolNext]_poolVars => PoolInv'
<1> SUFFICES ASSUME PoolInv, [PoolNext]_poolVars PROVE PoolInv'
  OBVIOUS
<1>1. CASE UNCHANGED poolVars
  BY <1>1 DEF poolVars, PoolInv, PoolTypeOK, Slots, Users
<1>2. CASE \E j \in Joins : AddUser(j)
  BY <1>2, JoinTypes
<1>3. CASE Pairing
  BY <1>3, JobTypes
<1> QED
  BY <1>1, <1>2, <1>3 DEF PoolNext

-----------------------------------------------------------------------------
(***************************************************************************)
(* The queue as long as no two calls to DuelManager are made at the same   *)
(* time.                                                                   *)
(***************************************************************************)

\* The n-th slot from the head on; the n-th user from the head on is there.
Nth(n) == (head + n) % Capacity

\* The queue as it is between the accesses of a call: Take has cleared the slot at the
\* head, or MoveHead has left it behind, while the size still counts it; MoveTail has
\* gone over a slot that the size does not count yet.
First == IF job.step = "head" THEN 1 ELSE 0
Uncounted == \E j \in Joins : join[j].step = "size"
Count == IF job.step = "size" THEN size - 1 ELSE IF Uncounted THEN size + 1 ELSE size

InQueue(u) == \E n \in First .. Count - 1 : slot[Nth(n)] = u

\* A user who joined is not lost.
Paired(u) == \E p \in pairs : u \in {p[1], p[2]}
Kept(u) == u = user1 \/ InQueue(u) \/ Paired(u)

QueueInv ==
  /\ Count \in 0 .. Capacity /\ First <= Count
  /\ tail = Nth(Count)
  /\ \A n \in First .. Count - 1 : slot[Nth(n)] \in Users
  /\ \A m, n \in First .. Count - 1 : slot[Nth(m)] = slot[Nth(n)] => m = n

JobInv ==
  /\ user1 # Null /\ ~ InQueue(user1)
  /\ job.step # "stopped"
  /\ job.step = "look" => user1 = Nobody
  /\ job.step = "take" => size >= IF user1 = Nobody THEN 2 ELSE 1
  /\ job.step \in {"head", "size"} => size >= IF user1 = Nobody THEN 1 ELSE 2
  /\ job.step = "size" => job.value = size

PairsInv == \A p \in pairs : p[1] # p[2] /\ {p[1], p[2]} \subseteq Users

JoinInv(j) ==
  /\ job.step = "look"
  /\ Joining = {j}
  /\ join[j].step # "size" => size < Capacity /\ ~ InQueue(UserOf[j])
  /\ join[j].step = "tail" => join[j].value = tail
  /\ join[j].step = "size" => join[j].value = size
  /\ join[j].step \in {"tail", "size"} => slot[Nth(size)] = UserOf[j]

SerialInv ==
  /\ QueueInv /\ JobInv
  /\ \A j \in Joining : JoinInv(j)
  /\ PairsInv
  /\ \A j \in Joins : join[j].step = "ended" => Kept(UserOf[j])

\* The slots from the head on go round the array once.
LEMMA Round ==
  ASSUME NEW h \in Slots, NEW n \in 0 .. Capacity
  PROVE  (h + n) % Capacity = IF h + n < Capacity THEN h + n ELSE h + n - Capacity
<1>1. /\ Capacity \in Nat \ {0} /\ h \in Nat /\ h < Capacity
      /\ n \in Nat /\ n <= Capacity
  BY PoolAssumption DEF Slots
<1>2. CASE h + n < Capacity
  BY <1>1, <1>2
<1>3. CASE h + n >= Capacity
  BY <1>1, <1>3
<1> QED
  BY <1>1, <1>2, <1>3

LEMMA NthFacts ==
  ASSUME PoolTypeOK, NEW n \in 0 .. Capacity
  PROVE  /\ Nth(n) = IF head + n < Capacity THEN head + n ELSE head + n - Capacity
         /\ Nth(n) \in Slots
         /\ n < Capacity => n + 1 \in 0 .. Capacity /\ After(Nth(n)) = Nth(n + 1)
         /\ \A m \in 0 .. Capacity : m < n /\ n < Capacity => Nth(m) # Nth(n)
<1>1. Capacity \in Nat \ {0} /\ head \in 0 .. Capacity - 1
  BY PoolAssumption DEF PoolTypeOK, Slots
<1>2. ASSUME NEW k \in 0 .. Capacity
      PROVE  Nth(k) = IF head + k < Capacity THEN head + k ELSE head + k - Capacity
  BY Round DEF PoolTypeOK, Nth
<1>3. n < Capacity => n + 1 \in 0 .. Capacity
  BY <1>1
<1>4. Nth(n) = IF head + n < Capacity THEN head + n ELSE head + n - Capacity
  BY <1>2
<1>5. n < Capacity =>
        Nth(n + 1) = IF head + n + 1 < Capacity THEN head + n + 1 ELSE head + n + 1 - Capacity
  BY <1>1, <1>2, <1>3
<1>6. n < Capacity => After(Nth(n)) = Nth(n + 1)
  BY <1>1, <1>4, <1>5 DEF After
<1>7. ASSUME NEW m \in 0 .. Capacity, m < n, n < Capacity PROVE Nth(m) # Nth(n)
  BY <1>1, <1>2, <1>4, <1>7
<1>8. Nth(n) \in Slots
  BY <1>1, <1>4 DEF Slots
<1> QED
  BY <1>3, <1>4, <1>6, <1>7, <1>8

\* A request goes on: it alone.
LEMMA JoinMoves ==
  ASSUME PoolInv, NEW j \in Joins, Joining \subseteq {j},
         NEW step \in {"enqueue", "tail", "size", "ended"}, NEW value, JoinGoes(j, step, value)
  PROVE  /\ join'[j].step = step /\ join'[j].value = value
         /\ \A i \in Joins \ {j} : join'[i] = join[i]
         /\ Joining' = IF step = "ended" THEN {} ELSE {j}
         /\ Uncounted' <=> step = "size"
<1>1. join \in [Joins -> JoinStates]
  BY DEF PoolInv, PoolTypeOK, JoinStates
<1>2. /\ join'[j].step = step /\ join'[j].value = value
      /\ \A i \in Joins \ {j} : join'[i] = join[i]
  BY <1>1 DEF JoinGoes
<1>3. \A i \in Joins \ {j} : join'[i].step \notin {"enqueue", "tail", "size"}
  BY <1>2 DEF Joining
<1> QED
  BY <1>2, <1>3 DEF Joining, Uncounted

LEMMA SerialBegins == PoolInit => SerialInv
<1> SUFFICES ASSUME PoolInit PROVE SerialInv
  OBVIOUS
<1>1. /\ job.step = "look" /\ head = 0 /\ tail = 0 /\ size = 0 /\ pairs = {} /\ user1 = Nobody
      /\ \A j \in Joins : join[j].step = "none"
  BY DEF PoolInit, At
<1>2. Count = 0 /\ First = 0
  BY <1>1 DEF Count, First, Uncounted
<1>3. Nth(0) = 0
  BY <1>1, PoolAssumption DEF Nth
<1>4. \A n \in First .. Count - 1 : FALSE
  BY <1>2
<1>5. QueueInv
  BY <1>1, <1>2, <1>3, <1>4, PoolAssumption DEF QueueInv
<1>6. JobInv
  BY <1>1, <1>4 DEF JobInv, InQueue, Null, Nobody
<1> QED
  BY <1>1, <1>5, <1>6 DEF SerialInv, PairsInv, Joining

\* The slots and the users in them stay as they are.
LEMMA QueueStays ==
  ASSUME QueueInv, Count' = Count, First' = First, UNCHANGED <<slot, head, tail>>
  PROVE  QueueInv' /\ \A u : InQueue(u)' <=> InQueue(u)
<1>1. \A n : Nth(n)' = Nth(n)
  BY DEF Nth
<1>2. \A n : slot'[Nth(n)'] = slot[Nth(n)]
  BY <1>1
<1>3. \A u : InQueue(u)' <=> InQueue(u)
  BY <1>2 DEF InQueue
<1>4. QueueInv'
  BY <1>1, <1>2 DEF QueueInv, Users
<1> QED
  BY <1>3, <1>4

\* Nobody is lost while a request goes on, unless it is the request's own user.
LEMMA JoinKeeps ==
  ASSUME PoolInv, SerialInv, NEW j \in Joins, UNCHANGED <<user1, pairs>>,
         \A i \in Joins \ {j} : join'[i] = join[i],
         \A u : InQueue(u) => InQueue(u)',
         join'[j].step = "ended" => InQueue(UserOf[j])'
  PROVE  PairsInv' /\ \A i \in Joins : join'[i].step = "ended" => Kept(UserOf[i])'
<1>1. PairsInv'
  BY DEF SerialInv, PairsInv, Users
<1>2. \A u : Paired(u)' <=> Paired(u)
  BY DEF Paired
<1>3. \A u : Kept(u) => Kept(u)'
  BY <1>2 DEF Kept
<1>4. ASSUME NEW i \in Joins, join'[i].step = "ended" PROVE Kept(UserOf[i])'
  <2>1. CASE i = j
    BY <1>4, <2>1 DEF Kept
  <2>2. CASE i # j
    BY <1>3, <1>4, <2>2 DEF SerialInv
  <2> QED
    BY <2>1, <2>2
<1> QED
  BY <1>1, <1>4

LEMMA SerialJoin ==
  ASSUME PoolInv, SerialInv, NEW j \in Joins, Join(j), ~ overlapped'
  PROVE  SerialInv'
<1>1. /\ Joining = {} /\ ~ JobInQueue /\ UNCHANGED <<slot, head, tail, size, job, user1, pairs>>
      /\ QueueInv /\ JobInv
  BY DEF Join, queueVars, SerialInv
<1>2. job.step = "look" /\ user1 = Nobody
  BY <1>1 DEF PoolInv, PoolTypeOK, JobInQueue, JobInv
<1>3. size < Capacity /\ size \in Nat
  <2>1. Cardinality(Joining) = 0
    BY <1>1, FS_EmptySet
  <2> QED
    BY <2>1, PoolAssumption DEF Join, Spare, PoolInv, PoolTypeOK
<1>4. First = 0 /\ Count = size
  BY <1>1, <1>2 DEF First, Count, Uncounted, Joining
<1>5. \A u : IsWaiting(u) <=> InQueue(u)
  BY <1>4 DEF IsWaiting, Waiting, InQueue, Nth
<1>6. PICK step \in {"enqueue", "ended"} :
        JoinGoes(j, step, 0) /\ (step = "ended" <=> IsWaiting(UserOf[j]))
  BY DEF Join
<1>7. /\ join'[j].step = step /\ \A i \in Joins \ {j} : join'[i] = join[i]
      /\ Joining' = IF step = "ended" THEN {} ELSE {j}
      /\ ~ Uncounted'
  BY <1>1, <1>6, JoinMoves
<1>8. First' = First /\ Count' = Count
  BY <1>1, <1>2, <1>4, <1>7 DEF First, Count
<1>9. QueueInv' /\ \A u : InQueue(u)' <=> InQueue(u)
  BY <1>1, <1>8, QueueStays
<1>10. JobInv'
  BY <1>1, <1>9 DEF JobInv, Null
<1>11. PairsInv' /\ \A i \in Joins : join'[i].step = "ended" => Kept(UserOf[i])'
  BY <1>1, <1>5, <1>6, <1>7, <1>9, JoinKeeps
<1>12. ASSUME NEW i \in Joining' PROVE JoinInv(i)'
  <2>1. i = j /\ step = "enqueue" /\ Joining' = {j}
    BY <1>7, <1>12
  <2>2. ~ InQueue(UserOf[j])'
    BY <1>5, <1>6, <1>9, <2>1
  <2> QED
    BY <1>1, <1>2, <1>3, <1>7, <2>1, <2>2 DEF JoinInv
<1> QED
  BY <1>9, <1>10, <1>11, <1>12 DEF SerialInv

\* While a request is at the queue, the job is not.
LEMMA JoinAlone ==
  ASSUME PoolInv, SerialInv, NEW j \in Joining
  PROVE  /\ QueueInv /\ JobInv /\ JoinInv(j) /\ Joining = {j}
         /\ job.step = "look" /\ user1 = Nobody /\ First = 0
         /\ Count = IF join[j].step = "size" THEN size + 1 ELSE size
         /\ size \in Nat /\ tail \in Slots /\ slot \in [Slots -> Users \cup {Null}]
         /\ UserOf[j] \in Users
<1>1. QueueInv /\ JobInv /\ JoinInv(j) /\ Joining = {j} /\ job.step = "look" /\ user1 = Nobody
  BY DEF SerialInv, JoinInv, JobInv
<1>2. Uncounted <=> join[j].step = "size"
  BY <1>1 DEF Uncounted, Joining
<1>3. UserOf[j] \in Users
  BY DEF Joining, Users
<1> QED
  BY <1>1, <1>2, <1>3 DEF First, Count, PoolInv, PoolTypeOK

LEMMA SerialWriteSlot ==
  ASSUME PoolInv, PoolInv', SerialInv, NEW j \in Joins, WriteSlot(j)
  PROVE  SerialInv'
<1>1. j \in Joining /\ join[j].step = "enqueue"
  BY DEF WriteSlot, Joining
<1>2. /\ QueueInv /\ JobInv /\ JoinInv(j) /\ Joining = {j}
      /\ job.step = "look" /\ user1 = Nobody /\ First = 0 /\ Count = size
      /\ size \in Nat /\ tail \in Slots /\ slot \in [Slots -> Users \cup {Null}]
      /\ UserOf[j] \in Users
  BY <1>1, JoinAlone
<1>3. /\ UNCHANGED <<head, tail, size, job, user1, pairs>>
      /\ slot' = [slot EXCEPT ![tail] = UserOf[j]] /\ JoinGoes(j, "tail", tail)
  BY DEF WriteSlot, EnqueueSlot
<1>4. /\ join'[j].step = "tail" /\ join'[j].value = tail
      /\ \A i \in Joins \ {j} : join'[i] = join[i]
      /\ Joining' = {j} /\ ~ Uncounted'
  BY <1>2, <1>3, JoinMoves
<1>5. First' = 0 /\ Count' = size
  BY <1>2, <1>3, <1>4 DEF First, Count
<1>6. size < Capacity /\ ~ InQueue(UserOf[j]) /\ tail = Nth(size) /\ size \in 0 .. Capacity
  BY <1>1, <1>2, PoolAssumption DEF JoinInv, QueueInv
<1>7. \A n : Nth(n)' = Nth(n)
  BY <1>3 DEF Nth
<1>8. ASSUME NEW n \in 0 .. size - 1 PROVE slot'[Nth(n)] = slot[Nth(n)]
  <2>1. n \in 0 .. Capacity /\ n < size
    BY <1>2, <1>6, PoolAssumption
  <2>2. Nth(n) # Nth(size) /\ Nth(n) \in Slots
    BY <1>6, <2>1, NthFacts DEF PoolInv
  <2> QED
    BY <1>2, <1>3, <1>6, <2>2
<1>9. \A u : InQueue(u)' <=> InQueue(u)
  BY <1>2, <1>5, <1>7, <1>8 DEF InQueue
<1>10. QueueInv'
  BY <1>2, <1>3, <1>5, <1>7, <1>8 DEF QueueInv, Users
<1>11. JobInv'
  BY <1>2, <1>3, <1>9 DEF JobInv, Null
<1>12. PairsInv' /\ \A i \in Joins : join'[i].step = "ended" => Kept(UserOf[i])'
  BY <1>3, <1>4, <1>9, JoinKeeps
<1>13. JoinInv(j)'
  <2>1. slot'[Nth(size)] = UserOf[j]
    BY <1>2, <1>3, <1>6
  <2> QED
    BY <1>2, <1>3, <1>4, <1>6, <1>7, <1>9, <2>1 DEF JoinInv
<1> QED
  BY <1>4, <1>10, <1>11, <1>12, <1>13 DEF SerialInv

LEMMA SerialMoveTail ==
  ASSUME PoolInv, PoolInv', SerialInv, NEW j \in Joins, MoveTail(j)
  PROVE  SerialInv'
<1>1. j \in Joining /\ join[j].step = "tail"
  BY DEF MoveTail, Joining
<1>2. /\ QueueInv /\ JobInv /\ JoinInv(j) /\ Joining = {j}
      /\ job.step = "look" /\ user1 = Nobody /\ First = 0 /\ Count = size
      /\ size \in Nat /\ UserOf[j] \in Users
  BY <1>1, JoinAlone
<1>3. /\ UNCHANGED <<slot, head, size, job, user1, pairs>>
      /\ tail' = After(tail) /\ JoinGoes(j, "size", size)
  BY <1>1, <1>2 DEF MoveTail, EnqueueTail, JoinInv
<1>4. /\ join'[j].step = "size" /\ join'[j].value = size
      /\ \A i \in Joins \ {j} : join'[i] = join[i]
      /\ Joining' = {j} /\ Uncounted'
  BY <1>2, <1>3, JoinMoves
<1>5. First' = 0 /\ Count' = size + 1
  BY <1>2, <1>3, <1>4 DEF First, Count
<1>6. /\ size < Capacity /\ ~ InQueue(UserOf[j]) /\ tail = Nth(size) /\ size \in 0 .. Capacity
      /\ slot[Nth(size)] = UserOf[j]
  BY <1>1, <1>2, PoolAssumption DEF JoinInv, QueueInv
<1>7. \A n : Nth(n)' = Nth(n)
  BY <1>3 DEF Nth
<1>8. tail' = Nth(size + 1) /\ size + 1 \in 0 .. Capacity
  BY <1>3, <1>6, NthFacts DEF PoolInv
<1>9. \A n \in 0 .. size : n = size \/ n \in 0 .. size - 1
  BY <1>2
<1>10. \A n \in 0 .. size - 1 : slot[Nth(n)] # UserOf[j] /\ slot[Nth(n)] \in Users
  BY <1>2, <1>6 DEF InQueue, QueueInv
<1>11. \A u : InQueue(u)' <=> InQueue(u) \/ u = UserOf[j]
  <2>1. \A u : InQueue(u)' <=> \E n \in 0 .. size : slot[Nth(n)] = u
    BY <1>2, <1>3, <1>5, <1>7 DEF InQueue
  <2>2. \A u : InQueue(u) <=> \E n \in 0 .. size - 1 : slot[Nth(n)] = u
    BY <1>2 DEF InQueue
  <2>3. size \in 0 .. size /\ 0 .. size - 1 \subseteq 0 .. size
    BY <1>2
  <2> QED
    BY <1>6, <1>9, <2>1, <2>2, <2>3
<1>12. QueueInv'
  <2>1. \A m, n \in 0 .. size : slot[Nth(m)] = slot[Nth(n)] => m = n
    BY <1>2, <1>6, <1>9, <1>10 DEF QueueInv
  <2>2. \A n \in 0 .. size : slot[Nth(n)] \in Users
    BY <1>2, <1>6, <1>9, <1>10
  <2>3. Count' - 1 = size /\ First' <= Count'
    BY <1>2, <1>5
  <2> QED
    BY <1>3, <1>5, <1>7, <1>8, <2>1, <2>2, <2>3 DEF QueueInv, Users
<1>13. JobInv'
  <2>1. ~ InQueue(user1)'
    BY <1>2, <1>3, <1>11, UsersAssumption DEF JobInv
  <2> QED
    BY <1>2, <1>3, <2>1 DEF JobInv, Null
<1>14. PairsInv' /\ \A i \in Joins : join'[i].step = "ended" => Kept(UserOf[i])'
  BY <1>3, <1>4, <1>11, JoinKeeps
<1>15. JoinInv(j)'
  BY <1>2, <1>3, <1>4, <1>6, <1>7 DEF JoinInv
<1> QED
  BY <1>4, <1>12, <1>13, <1>14, <1>15 DEF SerialInv

LEMMA SerialCountUp ==
  ASSUME PoolInv, PoolInv', SerialInv, NEW j \in Joins, CountUp(j)
  PROVE  SerialInv'
<1>1. j \in Joining /\ join[j].step = "size"
  BY DEF CountUp, Joining
<1>2. /\ QueueInv /\ JobInv /\ JoinInv(j) /\ Joining = {j}
      /\ job.step = "look" /\ user1 = Nobody /\ First = 0 /\ Count = size + 1 /\ size \in Nat
  BY <1>1, JoinAlone
<1>3. /\ UNCHANGED <<slot, head, tail, job, user1, pairs>>
      /\ size' = size + 1 /\ JoinGoes(j, "ended", 0)
  BY <1>1, <1>2 DEF CountUp, EnqueueSize, JoinInv
<1>4. /\ join'[j].step = "ended" /\ \A i \in Joins \ {j} : join'[i] = join[i]
      /\ Joining' = {} /\ ~ Uncounted'
  BY <1>2, <1>3, JoinMoves
<1>5. First' = First /\ Count' = Count
  BY <1>2, <1>3, <1>4 DEF First, Count
<1>6. QueueInv' /\ \A u : InQueue(u)' <=> InQueue(u)
  BY <1>2, <1>3, <1>5, QueueStays
<1>7. InQueue(UserOf[j])
  <2>1. size \in First .. Count - 1
    BY <1>2
  <2> QED
    BY <1>1, <1>2, <2>1 DEF InQueue, JoinInv
<1>8. JobInv'
  BY <1>2, <1>3, <1>6 DEF JobInv, Null
<1>9. PairsInv' /\ \A i \in Joins : join'[i].step = "ended" => Kept(UserOf[i])'
  BY <1>3, <1>4, <1>6, <1>7, JoinKeeps
<1> QED
  BY <1>4, <1>6, <1>8, <1>9 DEF SerialInv

\* While the job is at the queue, no request is; what a step of it leaves as it was.
LEMMA JobAlone ==
  ASSUME PoolInv, SerialInv, Joining = {} \/ job.step # "look", UNCHANGED join,
         QueueInv', JobInv', PairsInv',
         \A u \in Users : Kept(u) => Kept(u)'
  PROVE  SerialInv'
<1>1. Joining' = {}
  BY DEF SerialInv, JoinInv, Joining
<1>2. \A j \in Joins : UserOf[j] \in Users
  BY DEF Users
<1> QED
  BY <1>1, <1>2 DEF SerialInv

LEMMA JobFacts ==
  ASSUME PoolInv, SerialInv, Joining = {} \/ job.step # "look"
  PROVE  /\ QueueInv /\ JobInv /\ PairsInv /\ ~ Uncounted
         /\ First = IF job.step = "head" THEN 1 ELSE 0
         /\ Count = IF job.step = "size" THEN size - 1 ELSE size
         /\ size \in Nat /\ head \in Slots /\ slot \in [Slots -> Users \cup {Null}]
         /\ user1 \in Users \cup {Nobody}
<1>1. QueueInv /\ JobInv /\ PairsInv /\ ~ Uncounted
  BY DEF SerialInv, JoinInv, Joining, Uncounted
<1> QED
  BY <1>1 DEF First, Count, PoolInv, PoolTypeOK, JobInv

LEMMA SerialLook ==
  ASSUME PoolInv, PoolInv', SerialInv, Look, ~ overlapped'
  PROVE  SerialInv'
<1>1. /\ Joining = {} /\ job.step = "look" /\ size >= 2 /\ job'.step = "take"
      /\ UNCHANGED <<slot, head, tail, size, join, user1, pairs>>
  BY DEF Look, At, PairWaits, queueVars
<1>2. QueueInv /\ JobInv /\ PairsInv /\ ~ Uncounted
  BY <1>1, JobFacts
<1>3. First' = First /\ Count' = Count
  BY <1>1 DEF First, Count, Uncounted
<1>4. QueueInv' /\ \A u : InQueue(u)' <=> InQueue(u)
  BY <1>1, <1>2, <1>3, QueueStays
<1>5. JobInv'
  BY <1>1, <1>2, <1>4 DEF JobInv, Null, Nobody
<1>6. PairsInv' /\ \A u : Kept(u) => Kept(u)'
  BY <1>1, <1>2, <1>4 DEF PairsInv, Users, Kept, Paired
<1> QED
  BY <1>1, <1>4, <1>5, <1>6, JobAlone

\* Take finds a user at the head, who is not the first one of the pair.
LEMMA SerialTake ==
  ASSUME PoolInv, PoolInv', SerialInv, Take
  PROVE  SerialInv'
<1>1. job.step = "take" /\ job'.step = "head" /\ UNCHANGED <<head, tail, size, join>>
      /\ slot' = [slot EXCEPT ![head] = Null] /\ size > 0
  BY DEF Take, At
<1>2. /\ QueueInv /\ JobInv /\ PairsInv /\ ~ Uncounted /\ First = 0 /\ Count = size
      /\ size \in Nat /\ head \in Slots /\ slot \in [Slots -> Users \cup {Null}]
      /\ user1 \in Users \cup {Nobody}
  BY <1>1, JobFacts
<1>3. First' = 1 /\ Count' = size
  BY <1>1, <1>2 DEF First, Count, Uncounted
<1>4. \A n : Nth(n)' = Nth(n)
  BY <1>1 DEF Nth
<1>5. size \in 1 .. Capacity
  BY <1>1, <1>2, PoolAssumption DEF QueueInv
<1>6. Nth(0) = head
  BY <1>2, PoolAssumption, NthFacts DEF PoolInv, Slots
<1>7. ASSUME NEW n \in 1 .. size - 1
      PROVE  slot'[Nth(n)] = slot[Nth(n)] /\ slot[Nth(n)] # slot[head] /\ n \in 0 .. size - 1
  <2>1. n \in 0 .. Capacity /\ 0 < n /\ n < Capacity /\ 0 \in 0 .. Capacity
          /\ n \in 0 .. size - 1 /\ 0 \in 0 .. size - 1
    BY <1>2, <1>5, PoolAssumption
  <2>2. Nth(n) # head /\ Nth(n) \in Slots
    BY <1>6, <2>1, NthFacts DEF PoolInv
  <2>3. slot[Nth(n)] # slot[Nth(0)]
    BY <1>2, <2>1 DEF QueueInv
  <2> QED
    BY <1>1, <1>2, <1>6, <2>1, <2>2, <2>3
<1>8. slot[head] \in Users /\ InQueue(slot[head])
  <2>1. 0 \in 0 .. size - 1
    BY <1>5
  <2> QED
    BY <1>2, <1>6, <2>1 DEF QueueInv, InQueue
<1>9. \A n \in 0 .. size - 1 : n = 0 \/ n \in 1 .. size - 1
  BY <1>2
<1>10. \A u : InQueue(u)' <=> InQueue(u) /\ u # slot[head]
  <2>1. \A u : InQueue(u)' <=> \E n \in 1 .. size - 1 : slot[Nth(n)] = u
    BY <1>1, <1>3, <1>4, <1>7 DEF InQueue
  <2>2. \A u : InQueue(u) <=> \E n \in 0 .. size - 1 : slot[Nth(n)] = u
    BY <1>2 DEF InQueue
  <2> QED
    BY <1>6, <1>7, <1>9, <2>1, <2>2
<1>11. QueueInv'
  <2>1. \A m, n \in 1 .. size - 1 : slot'[Nth(m)] = slot'[Nth(n)] => m = n
    BY <1>2, <1>7 DEF QueueInv
  <2>2. \A n \in 1 .. size - 1 : slot'[Nth(n)] \in Users
    BY <1>2, <1>7 DEF QueueInv
  <2>3. Count' \in 0 .. Capacity /\ First' <= Count'
    BY <1>3, <1>5, PoolAssumption
  <2> QED
    BY <1>1, <1>2, <1>3, <1>4, <2>1, <2>2, <2>3 DEF QueueInv, Users
<1>12. CASE user1 = Nobody
  <2>1. user1' = slot[head] /\ UNCHANGED pairs /\ size >= 2
    BY <1>1, <1>2, <1>12 DEF Take, JobInv
  <2>2. user1' # Nobody /\ user1' # Null
    BY <1>8, <2>1, UsersAssumption
  <2>3. JobInv'
    BY <1>1, <1>10, <2>1, <2>2 DEF JobInv, Null, Nobody
  <2>4. PairsInv'
    BY <1>2, <2>1 DEF PairsInv, Users
  <2>5. \A u \in Users : Kept(u) => Kept(u)'
    BY <1>10, <1>12, <2>1, UsersAssumption DEF Kept, Paired
  <2> QED
    BY <1>1, <1>11, <2>3, <2>4, <2>5, JobAlone
<1>13. CASE user1 # Nobody
  <2>1. user1' = Nobody /\ pairs' = pairs \cup {<<user1, slot[head]>>}
    BY <1>13 DEF Take
  <2>2. user1 # slot[head] /\ user1 \in Users
    BY <1>2, <1>8, <1>13 DEF JobInv
  <2>3. ~ InQueue(Nobody)
    BY <1>2, UsersAssumption DEF InQueue, QueueInv
  <2>4. JobInv'
    BY <1>1, <1>2, <1>10, <2>1, <2>3 DEF JobInv, Null, Nobody
  <2>5. PairsInv'
    BY <1>2, <1>8, <2>1, <2>2 DEF PairsInv, Users
  <2>6. \A u : Paired(u) \/ u \in {user1, slot[head]} => Paired(u)'
    <3> DEFINE p == <<user1, slot[head]>>
    <3>1. p \in pairs' /\ p[1] = user1 /\ p[2] = slot[head] /\ pairs \subseteq pairs'
      BY <2>1
    <3> QED
      BY <3>1 DEF Paired
  <2>7. \A u \in Users : Kept(u) => Kept(u)'
    BY <1>10, <2>6 DEF Kept
  <2> QED
    BY <1>1, <1>11, <2>4, <2>5, <2>7, JobAlone
<1> QED
  BY <1>12, <1>13

\* MoveHead leaves the slot behind that Take has cleared.
LEMMA SerialMoveHead ==
  ASSUME PoolInv, PoolInv', SerialInv, MoveHead
  PROVE  SerialInv'
<1>1. /\ job.step = "head" /\ head' = After(head) /\ job'.step = "size" /\ job'.value = size
      /\ UNCHANGED <<slot, tail, size, join, user1, pairs>>
  BY DEF MoveHead
<1>2. /\ QueueInv /\ JobInv /\ PairsInv /\ ~ Uncounted /\ First = 1 /\ Count = size
      /\ size \in Nat /\ head \in Slots
  BY <1>1, JobFacts
<1>3. First' = 0 /\ Count' = size - 1
  BY <1>1 DEF First, Count
<1>4. size \in 1 .. Capacity
  BY <1>2, PoolAssumption DEF QueueInv
<1>5. ASSUME NEW n \in 0 .. size - 1 PROVE Nth(n)' = Nth(n + 1)
  <2>1. n \in 0 .. Capacity /\ n + 1 \in 0 .. Capacity
    BY <1>4, PoolAssumption
  <2>2. Nth(n + 1) = IF head + n + 1 < Capacity THEN head + n + 1 ELSE head + n + 1 - Capacity
    BY <1>2, <2>1, PoolAssumption, NthFacts DEF PoolInv, Slots
  <2>3. Nth(n)' = IF head' + n < Capacity THEN head' + n ELSE head' + n - Capacity
    BY <2>1, Round DEF PoolInv, PoolTypeOK, Nth, Slots
  <2> QED
    BY <1>1, <1>2, <2>1, <2>2, <2>3, PoolAssumption DEF After, Slots
<1>6. \A n \in 0 .. size - 2 : n \in 0 .. size - 1 /\ n + 1 \in 1 .. size - 1
  BY <1>2
<1>7. \A n \in 1 .. size - 1 : n - 1 \in 0 .. size - 2 /\ (n - 1) + 1 = n
  BY <1>2
<1>8. \A u : InQueue(u)' <=> InQueue(u)
  <2>1. \A u : InQueue(u)' <=> \E n \in 0 .. size - 2 : slot[Nth(n + 1)] = u
    BY <1>1, <1>2, <1>3, <1>5, <1>6 DEF InQueue
  <2>2. \A u : InQueue(u) <=> \E n \in 1 .. size - 1 : slot[Nth(n)] = u
    BY <1>2 DEF InQueue
  <2>3. ASSUME NEW u, InQueue(u) PROVE InQueue(u)'
    BY <1>7, <2>1, <2>2, <2>3
  <2>4. ASSUME NEW u, InQueue(u)' PROVE InQueue(u)
    BY <1>6, <2>1, <2>2, <2>4
  <2> QED
    BY <2>3, <2>4
<1>9. QueueInv'
  <2>1. tail' = Nth(size - 1)'
    <3>1. size - 1 \in 0 .. size - 1 /\ (size - 1) + 1 = size
      BY <1>4
    <3> QED
      BY <1>1, <1>2, <1>5, <3>1 DEF QueueInv
  <2>2. \A n \in 0 .. size - 2 : slot'[Nth(n)'] = slot[Nth(n + 1)]
    BY <1>1, <1>5, <1>6
  <2>3. \A n \in 0 .. size - 2 : slot'[Nth(n)'] \in Users
    BY <1>2, <1>6, <2>2 DEF QueueInv
  <2>4. \A m, n \in 0 .. size - 2 : slot'[Nth(m)'] = slot'[Nth(n)'] => m = n
    BY <1>2, <1>6, <2>2 DEF QueueInv
  <2>5. Count' \in 0 .. Capacity /\ First' <= Count' /\ Count' - 1 = size - 2
    BY <1>3, <1>4, PoolAssumption
  <2> QED
    BY <1>1, <1>3, <2>1, <2>3, <2>4, <2>5 DEF QueueInv, Users
<1>10. JobInv'
  BY <1>1, <1>2, <1>8 DEF JobInv, Null, Nobody
<1>11. PairsInv' /\ \A u : Kept(u) => Kept(u)'
  BY <1>1, <1>2, <1>8 DEF PairsInv, Users, Kept, Paired
<1> QED
  BY <1>1, <1>9, <1>10, <1>11, JobAlone

LEMMA SerialShrink ==
  ASSUME PoolInv, PoolInv', SerialInv, Shrink
  PROVE  SerialInv'
<1>1. /\ job.step = "size" /\ UNCHANGED <<slot, head, tail, join, user1, pairs>>
      /\ job'.step = IF user1 = Nobody THEN "look" ELSE "take"
  BY DEF Shrink, At
<1>2. /\ QueueInv /\ JobInv /\ PairsInv /\ ~ Uncounted /\ Count = size - 1 /\ First = 0
      /\ size \in Nat
  BY <1>1, JobFacts
<1>3. size' = size - 1 /\ size >= IF user1 = Nobody THEN 1 ELSE 2
  BY <1>1, <1>2 DEF Shrink, JobInv
<1>4. First' = First /\ Count' = Count
  BY <1>1, <1>2, <1>3 DEF First, Count, Uncounted
<1>5. QueueInv' /\ \A u : InQueue(u)' <=> InQueue(u)
  BY <1>1, <1>2, <1>4, QueueStays
<1>6. JobInv'
  BY <1>1, <1>2, <1>3, <1>5 DEF JobInv, Null, Nobody
<1>7. PairsInv' /\ \A u : Kept(u) => Kept(u)'
  BY <1>1, <1>2, <1>5 DEF PairsInv, Users, Kept, Paired
<1> QED
  BY <1>1, <1>5, <1>6, <1>7, JobAlone

LEMMA SerialKept ==
  ASSUME PoolInv, PoolInv', ~ overlapped => SerialInv, [PoolNext]_poolVars, ~ overlapped'
  PROVE  SerialInv'
<1>1. ~ overlapped
  BY DEF PoolNext, poolVars, AddUser, Join, WriteSlot, MoveTail, CountUp,
         Pairing, Look, Throw, Take, MoveHead, Shrink
<1>2. SerialInv
  BY <1>1
<1>3. CASE UNCHANGED poolVars
  BY <1>2, <1>3
  DEF poolVars, SerialInv, QueueInv, JobInv, JoinInv, PairsInv, Kept, Paired, InQueue, Nth,
      First, Count, Uncounted, Joining, Users
<1>4. ASSUME NEW j \in Joins, AddUser(j) PROVE SerialInv'
  BY <1>2, <1>4, SerialJoin, SerialWriteSlot, SerialMoveTail, SerialCountUp DEF AddUser
<1>5. ~ Throw
  BY <1>2 DEF Throw, SerialInv, JobInv
<1>6. CASE Pairing
  BY <1>2, <1>5, <1>6, SerialLook, SerialTake, SerialMoveHead, SerialShrink DEF Pairing
<1> QED
  BY <1>3, <1>4, <1>6 DEF PoolNext

\* As many users wait as the queue counts, when the job is not at it.
LEMMA WaitingCounted ==
  ASSUME PoolInv, SerialInv, Joining = {}, ~ JobInQueue
  PROVE  /\ Cardinality(Waiting) = size /\ Null \notin Waiting
         /\ user1 = Nobody /\ \A u : InQueue(u) <=> u \in Waiting
<1>1. job.step = "look"
  BY DEF PoolInv, PoolTypeOK, JobInQueue, SerialInv, JobInv
<1>2. /\ QueueInv /\ JobInv /\ First = 0 /\ Count = size /\ size \in Nat /\ user1 = Nobody
  BY <1>1, JobFacts DEF JobInv
<1> DEFINE f == [k \in 1 .. size |-> slot[Nth(k - 1)]]
<1>3. \A k \in 1 .. size : k - 1 \in 0 .. size - 1
  BY <1>2
<1>4. \A n \in 0 .. size - 1 : n + 1 \in 1 .. size /\ (n + 1) - 1 = n
  BY <1>2
<1>5. Waiting = {slot[Nth(n)] : n \in 0 .. size - 1}
  BY DEF Waiting, Nth
<1>6. \A k \in 1 .. size : f[k] = slot[Nth(k - 1)] /\ f[k] \in Waiting
  BY <1>3, <1>5
<1>7. f \in [1 .. size -> Waiting]
  BY <1>6
<1>8. \A w \in Waiting : \E k \in 1 .. size : f[k] = w
  <2> SUFFICES ASSUME NEW n \in 0 .. size - 1 PROVE \E k \in 1 .. size : f[k] = slot[Nth(n)]
    BY <1>5
  <2>1. f[n + 1] = slot[Nth(n)]
    BY <1>4
  <2> QED
    BY <1>4, <2>1
<1>9. ASSUME NEW k \in 1 .. size, NEW l \in 1 .. size, f[k] = f[l] PROVE k = l
  <2>1. k - 1 = l - 1
    BY <1>2, <1>3, <1>6, <1>9 DEF QueueInv
  <2> QED
    BY <2>1
<1>10. Cardinality(Waiting) = size
  <2> HIDE DEF f
  <2>1. f \in Bijection(1 .. size, Waiting)
    BY <1>7, <1>8, <1>9 DEF Bijection, Injection, Surjection, IsInjective
  <2> QED
    BY <1>2, <2>1, FS_CountingElements DEF ExistsBijection
<1>11. \A u : InQueue(u) <=> u \in Waiting
  BY <1>2, <1>5 DEF InQueue
<1>12. Null \notin Waiting
  BY <1>2, <1>5, UsersAssumption DEF QueueInv
<1> QED
  BY <1>2, <1>10, <1>11, <1>12

LEMMA SerialPairsUp ==
  ASSUME PoolInv, ~ overlapped => SerialInv
  PROVE  SerialJoinsPairUp
<1> SUFFICES ASSUME SerialInv PROVE SerialJoinsPairUp
  BY DEF SerialJoinsPairUp
<1>1. job.step # "stopped" /\ PairsInv
  BY DEF SerialInv, JobInv
<1>2. ASSUME Joining = {}, ~ JobInQueue, NEW j \in Joins, join[j].step = "ended"
      PROVE  UserOf[j] \in Waiting \/ \E p \in pairs : UserOf[j] \in {p[1], p[2]}
  <2>1. UserOf[j] \in Users /\ Kept(UserOf[j])
    BY <1>2 DEF SerialInv, Users
  <2> QED
    BY <1>2, <2>1, WaitingCounted, UsersAssumption DEF Kept, Paired
<1> QED
  BY <1>1, <1>2, WaitingCounted DEF SerialJoinsPairUp, PairsInv
=============================================================================
