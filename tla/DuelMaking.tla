------------------------------ MODULE DuelMaking ------------------------------
(***************************************************************************)
(* Duely's waiting pool.  DuelManager, one object for the requests of all  *)
(* users and for DuelMakingJob, keeps the users in a Queue<string> without *)
(* a lock.  Queue is a circular array with a head, a tail and a size, and  *)
(* says nothing about calls at the same time: its methods are taken apart  *)
(* into the accesses that .NET makes.                                      *)
(***************************************************************************)
EXTENDS Naturals, FiniteSets

CONSTANTS
  Joins,            \* requests to join the waiting pool
  UserOf,           \* UserOf[j]: the user of request j
  Capacity          \* bound: slots of the array; nobody joins when they may be full,
                    \*   so that it never grows

ASSUME PoolAssumption == Capacity \in Nat \ {0}

VARIABLES
  slot, head, tail, size,   \* the queue; slot[i] is a user or Null
  join,             \* join[j]: where the request is, and what it remembers
  job,              \* where the job is, and what it remembers
  user1,            \* the first user taken, before the second one is
  pairs,            \* the pairs sent as CreateDuelCommand
  overlapped        \* history: two calls to DuelManager were made at the same time

queueVars == <<slot, head, tail, size>>
poolVars == <<slot, head, tail, size, join, job, user1, pairs, overlapped>>

Null == "null"        \* an empty slot
Nobody == "nobody"    \* no user taken yet
Users == {UserOf[j] : j \in Joins}

\* The id of a user is a string of .NET, and not null.
ASSUME UsersAssumption == Null \notin Users /\ Nobody \notin Users

Slots == 0 .. Capacity - 1
At(step) == [step |-> step, value |-> 0]

PoolTypeOK ==
  /\ slot \in [Slots -> Users \cup {Null}]
  /\ head \in Slots /\ tail \in Slots /\ size \in Nat
  /\ join \in [Joins -> [step : {"none", "enqueue", "tail", "size", "ended"}, value : Nat]]
  /\ job \in [step : {"look", "take", "head", "size", "stopped"}, value : Nat]
  /\ user1 \in Users \cup {Null, Nobody}
  /\ pairs \subseteq (Users \cup {Null}) \X (Users \cup {Null})

PoolInit ==
  /\ slot = [i \in Slots |-> Null] /\ head = 0 /\ tail = 0 /\ size = 0
  /\ join = [j \in Joins |-> At("none")]
  /\ job = At("look") /\ user1 = Nobody
  /\ pairs = {}
  /\ overlapped = FALSE

-----------------------------------------------------------------------------
(***************************************************************************)
(* Queue<string>                                                           *)
(***************************************************************************)

\* Variant: the index does not go round.
AfterStraight(i) == i + 1

\* MoveNext.
After(i) == IF i + 1 = Capacity THEN 0 ELSE i + 1

\* Contains looks at as many slots as the size says, from the head on.
Waiting == {slot[(head + i) % Capacity] : i \in 0 .. size - 1}
IsWaiting(u) == u \in Waiting

\* _array[_tail] = item; MoveNext(ref _tail); _size++.  A call that began with an
\* older tail or size may write over what another one has done since.
EnqueueSlot(u) == slot' = [slot EXCEPT ![tail] = u]
EnqueueTail(old) == tail' \in {After(old), After(tail)}
EnqueueSize(old) == size' \in {old + 1, size + 1}

-----------------------------------------------------------------------------
(***************************************************************************)
(* DuelManager.AddUser, of AddUserToWaitingPoolHandler                     *)
(***************************************************************************)

JobInQueue == job.step \in {"take", "head", "size"}
Joining == {j \in Joins : join[j].step \in {"enqueue", "tail", "size"}}

JoinGoes(j, step, value) == join' = [join EXCEPT ![j] = [step |-> step, value |-> value]]

\* A slot is left for the user who joins now.
Spare == size + Cardinality(Joining) < Capacity

\* Variant: nobody looks whether the user waits already.
JoinAlways(j) ==
  /\ join[j].step = "none" /\ Spare
  /\ JoinGoes(j, "enqueue", 0)
  /\ overlapped' = (overlapped \/ JobInQueue \/ Joining # {})
  /\ UNCHANGED <<queueVars, job, user1, pairs>>

Join(j) ==
  /\ join[j].step = "none" /\ Spare
  /\ JoinGoes(j, IF IsWaiting(UserOf[j]) THEN "ended" ELSE "enqueue", 0)
  /\ overlapped' = (overlapped \/ JobInQueue \/ Joining # {})
  /\ UNCHANGED <<queueVars, job, user1, pairs>>

WriteSlot(j) ==
  /\ join[j].step = "enqueue"
  /\ EnqueueSlot(UserOf[j]) /\ JoinGoes(j, "tail", tail)
  /\ UNCHANGED <<head, tail, size, job, user1, pairs, overlapped>>

MoveTail(j) ==
  /\ join[j].step = "tail"
  /\ EnqueueTail(join[j].value) /\ JoinGoes(j, "size", size)
  /\ UNCHANGED <<slot, head, size, job, user1, pairs, overlapped>>

CountUp(j) ==
  /\ join[j].step = "size"
  /\ EnqueueSize(join[j].value) /\ JoinGoes(j, "ended", 0)
  /\ UNCHANGED <<slot, head, tail, job, user1, pairs, overlapped>>

AddUser(j) == Join(j) \/ WriteSlot(j) \/ MoveTail(j) \/ CountUp(j)

-----------------------------------------------------------------------------
(***************************************************************************)
(* DuelMakingJob.ExecuteAsync: TryGetPair, CreateDuel, delay, again        *)
(***************************************************************************)

\* Variant: a pair is looked for only if a third user waits.
PairOfThree == size >= 3

PairWaits == size >= 2

Look ==
  /\ job.step = "look" /\ PairWaits
  /\ job' = At("take")
  /\ overlapped' = (overlapped \/ Joining # {})
  /\ UNCHANGED <<queueVars, join, user1, pairs>>

\* Dequeue throws on an empty queue, and nobody catches that.
Throw ==
  /\ job.step = "take" /\ size = 0
  /\ job' = At("stopped")
  /\ UNCHANGED <<queueVars, join, user1, pairs, overlapped>>

\* Dequeue reads the slot at the head and clears it.  The second user makes the
\* pair; CreateDuelHandler does nothing with it.
Take ==
  /\ job.step = "take" /\ size > 0
  /\ slot' = [slot EXCEPT ![head] = Null]
  /\ IF user1 = Nobody
       THEN user1' = slot[head] /\ UNCHANGED pairs
       ELSE user1' = Nobody /\ pairs' = pairs \cup {<<user1, slot[head]>>}
  /\ job' = At("head")
  /\ UNCHANGED <<head, tail, size, join, overlapped>>

MoveHead ==
  /\ job.step = "head"
  /\ head' = After(head) /\ job' = [step |-> "size", value |-> size]
  /\ UNCHANGED <<slot, tail, size, join, user1, pairs, overlapped>>

Shrink ==
  /\ job.step = "size"
  /\ size' \in {n - 1 : n \in {job.value, size} \ {0}}
  /\ job' = At(IF user1 = Nobody THEN "look" ELSE "take")
  /\ UNCHANGED <<slot, head, tail, join, user1, pairs, overlapped>>

Pairing == Look \/ Throw \/ Take \/ MoveHead \/ Shrink

-----------------------------------------------------------------------------
\* As long as no two calls meet, everybody who joined waits exactly once, is in
\* the job's hands or was paired, with somebody else, and the job goes on.
SerialJoinsPairUp ==
  ~ overlapped =>
    /\ job.step # "stopped"
    /\ \A p \in pairs : p[1] # p[2] /\ {p[1], p[2]} \subseteq Users
    /\ Joining = {} /\ ~ JobInQueue =>
         /\ Cardinality(Waiting) = size /\ Null \notin Waiting
         /\ \A j \in Joins : join[j].step = "ended" =>
              UserOf[j] \in Waiting \/ \E p \in pairs : UserOf[j] \in {p[1], p[2]}

\* Two users who wait do not wait forever, if no two calls meet.
WaitersPaired == (size >= 2) ~> (size < 2 \/ overlapped)
=============================================================================
