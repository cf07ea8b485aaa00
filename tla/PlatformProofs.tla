----------------------------- MODULE PlatformProofs -----------------------------
(***************************************************************************)
(* Proofs about Duely and Taski together.                                  *)
(***************************************************************************)
EXTENDS Platform, DuelMakingProofs

-----------------------------------------------------------------------------
(***************************************************************************)
(* Duely's submissions: what a row says, and what a handler has read.      *)
(***************************************************************************)

Handles(h, s) == handler[h] # Idle /\ handler[h].s = s

\* About a submission whose messages came in order: at most one of them is being
\* handled, it is the last one, it was read as the row is, and what a finish says
\* is what was reported.
InOrder(s) ==
  /\ row[s] \in {NoRow, Life!Queued, Life!Running, Life!Done(reported[s])}
  /\ row[s].status = "Done" => seen[s] = 3 /\ reported[s] \in Final
  /\ \A h \in Handlers : Handles(h, s) =>
       /\ seen[s] = Place[handler[h].message.type]
       /\ handler[h].message.type = "finish" =>
            reported[s] = VerdictOf(handler[h].message.outcome)
       /\ handler[h].step = "read" => handler[h].read = row[s] /\ row[s].status # "Done"
  /\ \A g, h \in Handlers : Handles(g, s) /\ Handles(h, s) => g = h

\* The row is there once it is sent, and before there is a message about it.
RowInv(s) ==
  /\ send[s] = "none" => row[s] = NoRow
  /\ row[s].status = "none" => row[s] = NoRow
  /\ row[s] = NoRow => s \notin disordered /\ \A h \in Handlers : ~ Handles(h, s)

DuelyInv ==
  /\ DuelyTypeOK
  /\ \A s \in Submissions : RowInv(s) /\ (s \notin disordered => InOrder(s))

\* What a step does to Duely's submissions.
DuelyNext ==
  \/ \E s \in Submissions : Submit(s) \/ SendSubmission(s) \/ \E b \in BOOLEAN : Return(s, b)
  \/ \E h \in Handlers : UpdateSubmissionStatus(h)
  \/ StopDuely

LEMMA NextIsDuely == [Next]_vars => [DuelyNext]_duelyVars
  BY DEF Next, vars, DuelyNext, TaskiClientSends, TaskiClientReturns, DuelyStep, Timeout,
         TaskiStep, TaskiStops, JoinStep, JobStep

LEMMA UpdatedFacts ==
  ASSUME NEW old \in Columns, NEW read \in Columns, NEW set \in Columns
  PROVE  /\ Updated(old, read, set) \in Columns
         /\ Updated(old, read, set).status =
              IF set.status = read.status THEN old.status ELSE set.status
         /\ Updated(old, read, set).verdict =
              IF set.verdict = read.verdict THEN old.verdict ELSE set.verdict
  BY DEF Updated, Columns

LEMMA MessageFacts ==
  ASSUME NEW m \in Messages
  PROVE  /\ m.type \in {"start", "status", "finish"} /\ m.outcome \in Outcomes
         /\ m.type # "finish" => m.outcome = "none"
         /\ VerdictOf(m.outcome) \in Final /\ "none" \notin Final /\ "null" \in Final
         /\ Place[m.type] \in 1 .. 3 /\ (m.type = "finish" <=> Place[m.type] = 3)
<1>1. /\ m.type \in {"start", "status", "finish"} /\ m.outcome \in Outcomes
      /\ m.type # "finish" => m.outcome = "none"
  BY DEF Messages, Outcomes
<1>2. VerdictOf(m.outcome) \in Final /\ "none" \notin Final /\ "null" \in Final
  BY <1>1, VerdictsAssumption DEF VerdictOf, Final, Outcomes
<1>3. Place[m.type] \in 1 .. 3 /\ (m.type = "finish" <=> Place[m.type] = 3)
  BY <1>1 DEF Place
<1> QED
  BY <1>1, <1>2, <1>3

LEMMA SetFacts ==
  ASSUME NEW m \in Messages, NEW read \in Columns
  PROVE  /\ Set(m, read) \in Columns
         /\ Set(m, read).status \in {"Running", "Done"}
         /\ Set(m, read).verdict # read.verdict =>
              /\ m.type = "finish" /\ m.outcome # "none"
              /\ Set(m, read).verdict = VerdictOf(m.outcome)
         /\ m.type # "finish" => Set(m, read).status = "Running"
         /\ m.type = "finish" => Set(m, read).status = "Done"
         /\ m.type = "finish" /\ read.verdict = "null" =>
              Set(m, read).verdict = VerdictOf(m.outcome)
<1>1. CASE m.type # "finish"
  BY <1>1 DEF Set, Columns
<1>2. CASE m.type = "finish"
  <2>1. VerdictOf(m.outcome) \in Final /\ VerdictOf("none") = "null"
    BY MessageFacts DEF VerdictOf
  <2>2. read.verdict \in Final
    BY DEF Columns
  <2>3. /\ Set(m, read).status = "Done"
        /\ Set(m, read).verdict =
             IF m.outcome = "none" THEN read.verdict ELSE VerdictOf(m.outcome)
        /\ Set(m, read) = [status |-> "Done", verdict |-> Set(m, read).verdict]
    BY <1>2 DEF Set
  <2>4. Set(m, read).verdict \in Final
    BY <2>1, <2>2, <2>3
  <2>5. Set(m, read) \in Columns
    BY <2>3, <2>4 DEF Columns
  <2> QED
    BY <1>2, <2>1, <2>3, <2>5
<1> QED
  BY <1>1, <1>2

\* Another submission's row and messages stay as they are.
LEMMA OtherSubmission ==
  ASSUME NEW s \in Submissions, RowInv(s), s \notin disordered => InOrder(s),
         send'[s] = "none" => send[s] = "none",
         row'[s] = row[s], seen'[s] = seen[s], reported'[s] = reported[s],
         s \in disordered' <=> s \in disordered,
         \A h \in Handlers : Handles(h, s)' =>
           /\ Handles(h, s) /\ handler'[h].message = handler[h].message
           /\ handler'[h].step = "read" =>
                handler[h].step = "read" /\ handler'[h].read = handler[h].read
  PROVE  RowInv(s)' /\ (s \notin disordered' => InOrder(s)')
<1>1. Life!Done(reported[s])' = Life!Done(reported[s])
  BY DEF Life!Done
<1>2. RowInv(s)'
  BY DEF RowInv
<1>3. ASSUME s \notin disordered' PROVE InOrder(s)'
  BY <1>1, <1>3 DEF InOrder, Life!Queued, Life!Running
<1> QED
  BY <1>2, <1>3

LEMMA DuelyBegins == Init => DuelyInv
<1> SUFFICES ASSUME Init PROVE DuelyInv
  OBVIOUS
<1>1. DuelyTypeOK
  BY DeliveriesAssumption DEF Init, DuelyInit, DuelyTypeOK, Columns, NoRow, Final
<1>2. ASSUME NEW s \in Submissions PROVE RowInv(s) /\ InOrder(s)
  BY DEF Init, DuelyInit, RowInv, InOrder, NoRow, Handles, Idle, DuelyTypeOK
<1> QED
  BY <1>1, <1>2 DEF DuelyInv

\* The fields of a message at work.
LEMMA HandlingFacts ==
  ASSUME DuelyTypeOK, NEW h \in Handlers, handler[h] # Idle
  PROVE  /\ handler[h].s \in Submissions /\ handler[h].message \in Messages
         /\ handler[h].read \in Columns /\ handler[h].step \in {"read", "saved"}
         /\ handler[h] = [step |-> handler[h].step, s |-> handler[h].s,
                          message |-> handler[h].message, read |-> handler[h].read]
  BY DEF DuelyTypeOK, Handling

LEMMA SubmitStep ==
  ASSUME DuelyInv, NEW s \in Submissions, Submit(s)
  PROVE  DuelyInv'
<1>1. DuelyTypeOK /\ RowInv(s) /\ (s \notin disordered => InOrder(s)) /\ row[s] = NoRow
  BY DEF DuelyInv, Submit, RowInv
<1>2. UNCHANGED <<handler, seen, reported, disordered, deliveries>>
  BY DEF Submit
<1>3. send' \in [Submissions -> {"none", "saved", "waiting", "ok", "fail"}] /\ send'[s] # "none"
      /\ \A d \in Submissions \ {s} : send'[d] = send[d]
  BY <1>1 DEF DuelyTypeOK, Submit, SendGoes
<1>4. /\ row' \in [Submissions -> Columns]
      /\ row'[s] \in {row[s], Life!Queued}
      /\ \A d \in Submissions \ {s} : row'[d] = row[d]
  <2>1. Life!Queued \in Columns
    BY DEF Columns, Final, Life!Queued
  <2>2. row' = row \/ row' = [row EXCEPT ![s] = Life!Queued]
    BY DEF Submit, Life!Queued
  <2> QED
    BY <1>1, <2>1, <2>2 DEF DuelyTypeOK
<1>5. DuelyTypeOK'
  BY <1>1, <1>2, <1>3, <1>4 DEF DuelyTypeOK
<1>6. ASSUME NEW d \in Submissions PROVE RowInv(d)' /\ (d \notin disordered' => InOrder(d)')
  <2>1. CASE d # s
    <3>1. RowInv(d) /\ (d \notin disordered => InOrder(d))
      BY DEF DuelyInv
    <3>2. \A h \in Handlers : Handles(h, d)' =>
            /\ Handles(h, d) /\ handler'[h].message = handler[h].message
            /\ handler'[h].step = "read" =>
                 handler[h].step = "read" /\ handler'[h].read = handler[h].read
      BY <1>2 DEF Handles, Idle
    <3>3. /\ send'[d] = send[d] /\ row'[d] = row[d] /\ seen'[d] = seen[d]
          /\ reported'[d] = reported[d]
          /\ d \in disordered' <=> d \in disordered
      BY <1>2, <1>3, <1>4, <2>1
    <3> QED
      BY <3>1, <3>2, <3>3, OtherSubmission
  <2>2. CASE d = s
    <3>1. \A h \in Handlers : ~ Handles(h, s)'
      BY <1>1, <1>2 DEF RowInv, Handles, Idle
    <3>2. s \notin disordered'
      BY <1>1, <1>2 DEF RowInv
    <3>3. RowInv(s)'
      BY <1>1, <1>3, <1>4, <3>1, <3>2 DEF RowInv, NoRow, Life!Queued
    <3>4. InOrder(s)'
      BY <1>1, <1>4, <3>1 DEF InOrder, NoRow, Life!Queued
    <3> QED
      BY <2>2, <3>3, <3>4
  <2> QED
    BY <2>1, <2>2
<1> QED
  BY <1>5, <1>6 DEF DuelyInv

\* A step that leaves the rows and the messages alone, but may end handlers.
LEMMA RowsStay ==
  ASSUME DuelyInv, DuelyTypeOK', UNCHANGED <<row, seen, reported, disordered>>,
         \A s \in Submissions : send'[s] = "none" => send[s] = "none",
         \A h \in Handlers : handler'[h] # Idle =>
           /\ handler[h] # Idle /\ handler'[h].s = handler[h].s
           /\ handler'[h].message = handler[h].message
           /\ handler'[h].step = "read" =>
                handler[h].step = "read" /\ handler'[h].read = handler[h].read
  PROVE  DuelyInv'
<1>1. ASSUME NEW s \in Submissions PROVE RowInv(s)' /\ (s \notin disordered' => InOrder(s)')
  <2>1. RowInv(s) /\ (s \notin disordered => InOrder(s))
    BY DEF DuelyInv
  <2>2. \A h \in Handlers : Handles(h, s)' =>
          /\ Handles(h, s) /\ handler'[h].message = handler[h].message
          /\ handler'[h].step = "read" =>
               handler[h].step = "read" /\ handler'[h].read = handler[h].read
    BY DEF Handles, Idle
  <2> QED
    BY <2>1, <2>2, OtherSubmission
<1> QED
  BY <1>1 DEF DuelyInv

LEMMA SendStep ==
  ASSUME DuelyInv, NEW s \in Submissions, SendSubmission(s) \/ \E b \in BOOLEAN : Return(s, b)
  PROVE  DuelyInv'
<1>1. UNCHANGED <<row, handler, seen, reported, disordered, deliveries>> /\ send[s] # "none"
  BY DEF SendSubmission, Return
<1>2. \E stage \in {"waiting", "ok", "fail"} : send' = [send EXCEPT ![s] = stage]
  BY DEF SendSubmission, Return, SendGoes
<1>3. DuelyTypeOK /\ DuelyTypeOK'
  BY <1>1, <1>2 DEF DuelyInv, DuelyTypeOK
<1>4. \A d \in Submissions : send'[d] = "none" => send[d] = "none"
  BY <1>1, <1>2, <1>3 DEF DuelyTypeOK
<1> QED
  BY <1>1, <1>3, <1>4, RowsStay

LEMMA StopStep ==
  ASSUME DuelyInv, StopDuely
  PROVE  DuelyInv'
<1>1. DuelyTypeOK /\ UNCHANGED <<row, seen, reported, disordered, deliveries>>
  BY DEF DuelyInv, StopDuely
<1>2. /\ send' = [s \in Submissions |->
                    IF send[s] \in {"saved", "waiting"} THEN "fail" ELSE send[s]]
      /\ handler' = [h \in Handlers |-> Idle]
  BY DEF StopDuely
<1>3. DuelyTypeOK'
  BY <1>1, <1>2 DEF DuelyTypeOK
<1>4. \A d \in Submissions : send'[d] = "none" => send[d] = "none"
  BY <1>2
<1>5. \A h \in Handlers : handler'[h] = Idle
  BY <1>2
<1> QED
  BY <1>1, <1>3, <1>4, <1>5, RowsStay

LEMMA SendMessageStep ==
  ASSUME DuelyInv, NEW h \in Handlers, SendMessage(h)
  PROVE  DuelyInv'
<1>1. /\ DuelyTypeOK /\ UNCHANGED <<row, send, seen, reported, disordered, deliveries>>
      /\ handler' = [handler EXCEPT ![h] = Idle]
  BY DEF DuelyInv, SendMessage
<1>2. DuelyTypeOK'
  BY <1>1 DEF DuelyTypeOK
<1>3. \A g \in Handlers : handler'[g] = Idle \/ handler'[g] = handler[g]
  BY <1>1 DEF DuelyTypeOK
<1> QED
  BY <1>1, <1>2, <1>3, RowsStay

\* A message comes: it is the only one about its submission, and no earlier one than
\* the last, or the submission is disordered.
LEMMA DeliverStep ==
  ASSUME DuelyInv, NEW h \in Handlers, NEW s \in Submissions, NEW m \in Messages,
         Deliver(h, s, m)
  PROVE  DuelyInv'
<1> DEFINE w == [step |-> "read", s |-> s, message |-> m, read |-> row[s]]
<1>1. /\ DuelyTypeOK /\ RowInv(s) /\ UNCHANGED <<row, send>>
      /\ handler[h] = Idle /\ row[s] # NoRow /\ deliveries < MaxDeliveries
      /\ handler' = [handler EXCEPT ![h] = w]
      /\ seen' = [seen EXCEPT ![s] = Later(@, Place[m.type])]
      /\ reported' = IF m.type = "finish" THEN [reported EXCEPT ![s] = VerdictOf(m.outcome)]
                                          ELSE reported
      /\ disordered' = IF Late(s, m) THEN disordered \cup {s} ELSE disordered
      /\ deliveries' = deliveries + 1
  BY DEF DuelyInv, Deliver
<1>2. /\ Place[m.type] \in 1 .. 3 /\ (m.type = "finish" <=> Place[m.type] = 3)
      /\ seen[s] \in 0 .. 3 /\ VerdictOf(m.outcome) \in Final
  BY <1>1, MessageFacts DEF DuelyTypeOK
<1>3. w \in Handling("read") /\ w # Idle /\ w.s = s /\ w.message = m /\ w.step = "read"
        /\ w.read = row[s]
  BY <1>1 DEF Handling, DuelyTypeOK, Idle
<1> HIDE DEF w
<1>4. /\ handler'[h] = w /\ \A g \in Handlers \ {h} : handler'[g] = handler[g]
      /\ handler' \in [Handlers -> {Idle} \cup Handling("read") \cup Handling("saved")]
  BY <1>1, <1>3 DEF DuelyTypeOK
<1>5. Later(seen[s], Place[m.type]) \in 0 .. 3
  BY <1>2 DEF Later
<1>6. seen' \in [Submissions -> 0 .. 3] /\ seen'[s] = Later(seen[s], Place[m.type])
        /\ \A d \in Submissions \ {s} : seen'[d] = seen[d]
  BY <1>1, <1>5 DEF DuelyTypeOK
<1>7. /\ reported' \in [Submissions -> Final \cup {"none"}]
      /\ m.type = "finish" => reported'[s] = VerdictOf(m.outcome)
      /\ m.type # "finish" => reported'[s] = reported[s]
      /\ \A d \in Submissions \ {s} : reported'[d] = reported[d]
  BY <1>1, <1>2 DEF DuelyTypeOK
<1>8. DuelyTypeOK'
  <2>1. deliveries' \in 0 .. MaxDeliveries
    BY <1>1, DeliveriesAssumption DEF DuelyTypeOK
  <2> QED
    BY <1>1, <1>4, <1>6, <1>7, <2>1 DEF DuelyTypeOK
<1>9. ASSUME NEW d \in Submissions, d # s
      PROVE  RowInv(d)' /\ (d \notin disordered' => InOrder(d)')
  <2>1. RowInv(d) /\ (d \notin disordered => InOrder(d))
    BY DEF DuelyInv
  <2>2. \A g \in Handlers : Handles(g, d)' => handler'[g] = handler[g] /\ Handles(g, d)
    <3>1. ~ Handles(h, d)'
      BY <1>3, <1>4, <1>9 DEF Handles
    <3> QED
      BY <1>4, <3>1 DEF Handles, Idle
  <2>3. /\ send'[d] = send[d] /\ row'[d] = row[d] /\ seen'[d] = seen[d]
        /\ reported'[d] = reported[d]
        /\ d \in disordered' <=> d \in disordered
    BY <1>1, <1>6, <1>7, <1>9
  <2> QED
    BY <2>1, <2>2, <2>3, OtherSubmission
<1>10. RowInv(s)'
  BY <1>1 DEF RowInv
<1>11. ASSUME s \notin disordered' PROVE InOrder(s)'
  <2>1. ~ Late(s, m) /\ s \notin disordered /\ InOrder(s)
    BY <1>1, <1>11 DEF DuelyInv
  <2>2. /\ seen'[s] = Place[m.type]
        /\ row[s].status # "Done" /\ row[s] \in {Life!Queued, Life!Running}
    <3>1. row[s].status # "Done"
      BY <1>2, <2>1 DEF Late, InOrder
    <3>2. row[s] \in {Life!Queued, Life!Running}
      BY <1>1, <2>1, <3>1 DEF InOrder, Life!Done
    <3> QED
      BY <1>2, <1>6, <2>1, <3>1, <3>2 DEF Late, Later
  <2>3. \A g \in Handlers : ~ Handles(g, s)
    BY <2>1 DEF Late, Busy, Handles
  <2>4. \A g \in Handlers : Handles(g, s)' => g = h
    BY <1>4, <2>3 DEF Handles, Idle
  <2>5. /\ row'[s] \in {NoRow, Life!Queued, Life!Running, Life!Done(reported[s])}'
        /\ row'[s].status # "Done"
    BY <1>1, <2>2 DEF Life!Queued, Life!Running
  <2>6. \A g \in Handlers : Handles(g, s)' =>
          /\ seen'[s] = Place[handler'[g].message.type]
          /\ handler'[g].message.type = "finish" =>
               reported'[s] = VerdictOf(handler'[g].message.outcome)
          /\ handler'[g].step = "read" =>
               handler'[g].read = row'[s] /\ row'[s].status # "Done"
    BY <1>1, <1>3, <1>4, <1>7, <2>2, <2>4, <2>5
  <2> QED
    BY <2>4, <2>5, <2>6 DEF InOrder
<1> QED
  BY <1>8, <1>9, <1>10, <1>11 DEF DuelyInv

LEMMA SameColumns ==
  ASSUME NEW p \in Columns, NEW q \in Columns, p.status = q.status, p.verdict = q.verdict
  PROVE  p = q
<1>1. /\ p = [status |-> p.status, verdict |-> p.verdict]
      /\ q = [status |-> q.status, verdict |-> q.verdict]
  BY DEF Columns
<1> QED
  BY <1>1

LEMMA LifeFacts ==
  ASSUME NEW verdict \in Final
  PROVE  /\ Life!Queued \in Columns /\ Life!Running \in Columns
         /\ Life!Done(verdict) \in Columns
         /\ Life!Queued.status = "Queued" /\ Life!Queued.verdict = "null"
         /\ Life!Running.status = "Running" /\ Life!Running.verdict = "null"
         /\ Life!Done(verdict).status = "Done" /\ Life!Done(verdict).verdict = verdict
  BY DEF Life!Queued, Life!Running, Life!Done, Columns, Final

\* What Save makes of the row.
New(h) ==
  Updated(row[handler[h].s], handler[h].read, Set(handler[h].message, handler[h].read))

LEMMA SaveEffect ==
  ASSUME DuelyInv, NEW h \in Handlers, NEW s \in Submissions, Handles(h, s),
         handler[h].step = "read"
  PROVE  /\ New(h) \in Columns /\ New(h).status # "none" /\ row[s] # NoRow
         /\ New(h).verdict # row[s].verdict =>
              /\ handler[h].message.type = "finish" /\ handler[h].message.outcome # "none"
              /\ New(h).verdict = VerdictOf(handler[h].message.outcome)
         /\ s \notin disordered =>
              /\ row[s] \in {Life!Queued, Life!Running}
              /\ \/ New(h) = Life!Running
                 \/ /\ New(h) = Life!Done(reported[s])
                    /\ seen[s] = 3 /\ reported[s] \in Final
<1> DEFINE m == handler[h].message
           read == handler[h].read
           set == Set(m, read)
<1>1. /\ DuelyTypeOK /\ row[s] \in Columns /\ RowInv(s) /\ (s \notin disordered => InOrder(s))
      /\ m \in Messages /\ read \in Columns /\ New(h) = Updated(row[s], read, set)
  BY HandlingFacts DEF DuelyInv, DuelyTypeOK, Handles, New
<1>2. /\ set \in Columns /\ set.status \in {"Running", "Done"}
      /\ set.verdict # read.verdict =>
           m.type = "finish" /\ m.outcome # "none" /\ set.verdict = VerdictOf(m.outcome)
      /\ m.type # "finish" => set.status = "Running"
      /\ m.type = "finish" => set.status = "Done"
      /\ m.type = "finish" /\ read.verdict = "null" => set.verdict = VerdictOf(m.outcome)
  BY <1>1, SetFacts
<1>3. VerdictOf(m.outcome) \in Final /\ (m.type = "finish" => Place[m.type] = 3)
  BY <1>1, MessageFacts
<1> HIDE DEF m, read, set
<1>4. /\ New(h) \in Columns
      /\ New(h).status = IF set.status = read.status THEN row[s].status ELSE set.status
      /\ New(h).verdict = IF set.verdict = read.verdict THEN row[s].verdict ELSE set.verdict
  BY <1>1, <1>2, UpdatedFacts
<1>5. row[s] # NoRow /\ row[s].status # "none"
  BY <1>1 DEF RowInv
<1>6. New(h).status # "none"
  BY <1>2, <1>4, <1>5
<1>7. New(h).verdict # row[s].verdict =>
        m.type = "finish" /\ m.outcome # "none" /\ New(h).verdict = VerdictOf(m.outcome)
  BY <1>2, <1>4
<1>8. ASSUME s \notin disordered
      PROVE  /\ row[s] \in {Life!Queued, Life!Running}
             /\ \/ New(h) = Life!Running
                \/ /\ New(h) = Life!Done(reported[s])
                   /\ seen[s] = 3 /\ reported[s] \in Final
  <2>1. /\ read = row[s] /\ seen[s] = Place[m.type] /\ row[s].status # "Done"
        /\ row[s] \in {NoRow, Life!Queued, Life!Running, Life!Done(reported[s])}
        /\ m.type = "finish" => reported[s] = VerdictOf(m.outcome)
    BY <1>1, <1>8 DEF InOrder, m, read
  <2>2. row[s] \in {Life!Queued, Life!Running} /\ row[s].verdict = "null"
    BY <1>5, <2>1 DEF Life!Done, Life!Queued, Life!Running
  <2>3. New(h).status = set.status /\ New(h).verdict = set.verdict
    BY <1>4, <2>1
  <2>4. CASE m.type = "finish"
    <3>1. /\ New(h).status = "Done" /\ New(h).verdict = reported[s]
          /\ reported[s] \in Final /\ seen[s] = 3
      BY <1>2, <1>3, <2>1, <2>2, <2>3, <2>4
    <3>2. /\ Life!Done(reported[s]) \in Columns /\ Life!Done(reported[s]).status = "Done"
          /\ Life!Done(reported[s]).verdict = reported[s]
      BY <3>1, LifeFacts
    <3> QED
      BY <1>4, <2>2, <3>1, <3>2, SameColumns
  <2>5. CASE m.type # "finish"
    <3>1. New(h).status = "Running" /\ New(h).verdict = "null"
      BY <1>2, <2>1, <2>2, <2>3, <2>5
    <3>2. /\ Life!Running \in Columns /\ Life!Running.status = "Running"
          /\ Life!Running.verdict = "null"
      BY <1>3, LifeFacts
    <3> QED
      BY <1>4, <2>2, <3>1, <3>2, SameColumns
  <2> QED
    BY <2>4, <2>5
<1> QED
  BY <1>4, <1>5, <1>6, <1>7, <1>8 DEF m

LEMMA SaveStep ==
  ASSUME DuelyInv, NEW h \in Handlers, Save(h)
  PROVE  DuelyInv'
<1>1. /\ DuelyTypeOK /\ handler[h] # Idle /\ handler[h].step = "read"
      /\ UNCHANGED <<send, seen, reported, disordered, deliveries>>
  BY DEF DuelyInv, Save
<1>2. PICK s \in Submissions : Handles(h, s) /\ handler[h].s = s
  BY <1>1, HandlingFacts DEF Handles
<1>3. CASE handler' = [handler EXCEPT ![h] = Idle] /\ UNCHANGED row
  <2>1. DuelyTypeOK'
    BY <1>1, <1>3 DEF DuelyTypeOK
  <2>2. \A g \in Handlers : handler'[g] = Idle \/ handler'[g] = handler[g]
    BY <1>1, <1>3 DEF DuelyTypeOK
  <2> QED
    BY <1>1, <1>3, <2>1, <2>2, RowsStay
<1>4. CASE /\ row' = [row EXCEPT ![s] = New(h)]
           /\ handler' = [handler EXCEPT ![h].step = "saved"]
  <2>1. /\ New(h) \in Columns /\ New(h).status # "none" /\ row[s] # NoRow
        /\ s \notin disordered =>
             \/ New(h) = Life!Running
             \/ New(h) = Life!Done(reported[s]) /\ seen[s] = 3 /\ reported[s] \in Final
    BY <1>1, <1>2, SaveEffect
  <2>2. /\ row' \in [Submissions -> Columns] /\ row'[s] = New(h)
        /\ \A d \in Submissions \ {s} : row'[d] = row[d]
    BY <1>1, <1>2, <1>4, <2>1 DEF DuelyTypeOK
  <2>3. /\ handler'[h] = [handler[h] EXCEPT !.step = "saved"]
        /\ \A g \in Handlers \ {h} : handler'[g] = handler[g]
    BY <1>1, <1>4 DEF DuelyTypeOK
  <2>4. /\ handler'[h] \in Handling("saved") /\ handler'[h].step = "saved"
        /\ handler'[h].s = s /\ handler'[h].message = handler[h].message /\ handler'[h] # Idle
    BY <1>1, <1>2, <2>3, HandlingFacts DEF Handling, Idle
  <2>5. handler' \in [Handlers -> {Idle} \cup Handling("read") \cup Handling("saved")]
    <3>1. handler' = [handler EXCEPT ![h] = handler'[h]]
      BY <1>1, <1>4, <2>3 DEF DuelyTypeOK
    <3> QED
      BY <1>1, <2>4, <3>1 DEF DuelyTypeOK
  <2>6. DuelyTypeOK'
    BY <1>1, <2>2, <2>5 DEF DuelyTypeOK
  <2>7. \A d \in Submissions : \A g \in Handlers :
          /\ Handles(g, d)' <=> Handles(g, d)
          /\ handler'[g].message = handler[g].message
          /\ handler'[g].step = "read" => g # h /\ handler'[g] = handler[g]
    <3> SUFFICES ASSUME NEW d \in Submissions, NEW g \in Handlers
                 PROVE  /\ Handles(g, d)' <=> Handles(g, d)
                        /\ handler'[g].message = handler[g].message
                        /\ handler'[g].step = "read" => g # h /\ handler'[g] = handler[g]
      OBVIOUS
    <3>1. Idle' = Idle
      BY DEF Idle
    <3>2. CASE g = h
      BY <1>1, <1>2, <2>4, <3>1, <3>2 DEF Handles
    <3>3. CASE g # h
      BY <2>3, <3>1, <3>3 DEF Handles
    <3> QED
      BY <3>2, <3>3
  <2>8. ASSUME NEW d \in Submissions, d # s
        PROVE  RowInv(d)' /\ (d \notin disordered' => InOrder(d)')
    <3>1. RowInv(d) /\ (d \notin disordered => InOrder(d))
      BY DEF DuelyInv
    <3>2. /\ send'[d] = send[d] /\ row'[d] = row[d] /\ seen'[d] = seen[d]
          /\ reported'[d] = reported[d]
          /\ d \in disordered' <=> d \in disordered
      BY <1>1, <2>2, <2>8
    <3> QED
      BY <2>7, <3>1, <3>2, OtherSubmission
  <2>9. RowInv(s)'
    <3>1. RowInv(s) /\ row'[s] # NoRow
      BY <1>2, <2>1, <2>2 DEF DuelyInv, NoRow
    <3> QED
      BY <1>1, <2>2, <2>1, <3>1 DEF RowInv
  <2>10. ASSUME s \notin disordered' PROVE InOrder(s)'
    <3>1. InOrder(s) /\ s \notin disordered /\ seen'[s] = seen[s] /\ reported'[s] = reported[s]
      BY <1>1, <1>2, <2>10 DEF DuelyInv
    <3>2. \/ row'[s] = Life!Running
          \/ row'[s] = Life!Done(reported[s]) /\ seen[s] = 3 /\ reported[s] \in Final
      BY <2>1, <2>2, <3>1
    <3>3. row'[s].status = "Done" => seen'[s] = 3 /\ reported'[s] \in Final
      BY <3>1, <3>2 DEF Life!Running, Life!Done
    <3>4. row'[s] \in {NoRow, Life!Queued, Life!Running, Life!Done(reported[s])}'
      BY <3>1, <3>2 DEF Life!Running, Life!Done
    <3>5. \A g \in Handlers : Handles(g, s)' =>
            /\ g = h /\ seen'[s] = Place[handler'[g].message.type]
            /\ handler'[g].message.type = "finish" =>
                 reported'[s] = VerdictOf(handler'[g].message.outcome)
            /\ handler'[g].step # "read"
      BY <1>1, <1>2, <2>7, <3>1 DEF InOrder
    <3> QED
      BY <3>3, <3>4, <3>5 DEF InOrder
  <2> QED
    BY <1>2, <2>6, <2>8, <2>9, <2>10 DEF DuelyInv
<1> QED
  BY <1>1, <1>2, <1>3, <1>4 DEF Save, New

LEMMA DuelyKept == DuelyInv /\ [Next]_vars => DuelyInv'
<1> SUFFICES ASSUME DuelyInv, [DuelyNext]_duelyVars PROVE DuelyInv'
  BY NextIsDuely
<1>1. CASE UNCHANGED duelyVars
  <2>1. UNCHANGED <<row, send, handler, seen, reported, disordered, deliveries>>
    BY <1>1 DEF duelyVars
  <2>2. DuelyTypeOK'
    BY <2>1 DEF DuelyInv, DuelyTypeOK
  <2> QED
    BY <2>1, <2>2, RowsStay
<1>2. ASSUME NEW h \in Handlers, UpdateSubmissionStatus(h) PROVE DuelyInv'
  BY <1>2, DeliverStep, SaveStep, SendMessageStep DEF UpdateSubmissionStatus
<1> QED
  BY <1>1, <1>2, SubmitStep, SendStep, StopStep DEF DuelyNext

\* Rows, handlers and the order of messages agree.
THEOREM DuelyInvariant == Spec => []DuelyInv
  BY DuelyBegins, DuelyKept, PTL DEF Spec

\* What a step does to the row of one submission.
LEMMA RowSteps ==
  ASSUME DuelyInv, [Next]_vars, NEW s \in Submissions
  PROVE  \/ row'[s] = row[s]
         \/ row[s] = NoRow /\ row'[s] = Life!Queued
         \/ \E h \in Handlers : /\ Handles(h, s) /\ handler[h].step = "read" /\ row'[s] = New(h)
                                /\ handler'[h] = [handler[h] EXCEPT !.step = "saved"]
<1>1. row \in [Submissions -> Columns]
  BY DEF DuelyInv, DuelyTypeOK
<1>2. ASSUME NEW d \in Submissions, Submit(d)
      PROVE  row'[s] = row[s] \/ (row[s] = NoRow /\ row'[s] = Life!Queued)
  <2>1. row[d] = NoRow
    BY <1>2 DEF Submit, DuelyInv, RowInv
  <2>2. row' = row \/ row' = [row EXCEPT ![d] = Life!Queued]
    BY <1>2 DEF Submit, Life!Queued
  <2> QED
    BY <1>1, <2>1, <2>2
<1>3. ASSUME NEW h \in Handlers, Save(h)
      PROVE  \/ row'[s] = row[s]
             \/ /\ Handles(h, s) /\ handler[h].step = "read" /\ row'[s] = New(h)
                /\ handler'[h] = [handler[h] EXCEPT !.step = "saved"]
  <2>1. \/ row' = row
        \/ /\ row' = [row EXCEPT ![handler[h].s] = New(h)]
           /\ handler' = [handler EXCEPT ![h].step = "saved"]
    BY <1>3 DEF Save, New
  <2>2. handler[h] # Idle /\ handler[h].step = "read"
    BY <1>3 DEF Save
  <2>3. DOMAIN handler = Handlers
    BY DEF DuelyInv, DuelyTypeOK
  <2> QED
    BY <1>1, <2>1, <2>2, <2>3 DEF Handles
<1>4. UNCHANGED duelyVars => row' = row
  BY DEF duelyVars
<1>5. [DuelyNext]_duelyVars
  BY NextIsDuely
<1>6. CASE \E d \in Submissions : SendSubmission(d) \/ \E b \in BOOLEAN : Return(d, b)
  BY <1>6 DEF SendSubmission, Return
<1>7. CASE \E h \in Handlers : SendMessage(h)
               \/ \E d \in Submissions, m \in Messages : Deliver(h, d, m)
  BY <1>7 DEF SendMessage, Deliver
<1>8. CASE StopDuely
  BY <1>8 DEF StopDuely
<1> QED
  BY <1>2, <1>3, <1>4, <1>5, <1>6, <1>7, <1>8 DEF DuelyNext, UpdateSubmissionStatus

\* UpdateSubmissionStatusHandler: no message, late or repeated, takes a verdict away,
\* and only a finish message that reports another one replaces it.
THEOREM VerdictAlways == Spec => VerdictAsReported
<1>1. ASSUME DuelyInv, [Next]_vars, NEW s \in Submissions, row'[s].verdict # row[s].verdict
      PROVE  \E h \in Handlers : Reports(h, s, row'[s].verdict)
  <2>1. ~ (row[s] = NoRow /\ row'[s] = Life!Queued)
    BY <1>1 DEF NoRow, Life!Queued
  <2>2. PICK h \in Handlers :
          /\ Handles(h, s) /\ handler[h].step = "read" /\ row'[s] = New(h)
          /\ handler'[h] = [handler[h] EXCEPT !.step = "saved"]
    BY <1>1, <2>1, RowSteps
  <2>3. /\ handler[h].message.type = "finish" /\ handler[h].message.outcome # "none"
        /\ row'[s].verdict = VerdictOf(handler[h].message.outcome)
    BY <1>1, <2>2, SaveEffect
  <2> QED
    BY <2>2, <2>3 DEF Reports, Handles
<1>2. DuelyInv /\ [Next]_vars =>
        [\A s \in Submissions : row'[s].verdict # row[s].verdict =>
           \E h \in Handlers : Reports(h, s, row'[s].verdict)]_duelyVars
  BY <1>1
<1> QED
  BY <1>2, DuelyInvariant, PTL DEF Spec, VerdictAsReported

-----------------------------------------------------------------------------
(***************************************************************************)
(* The life of a submission.                                               *)
(***************************************************************************)

LifeOf(s) == IF s \in disordered THEN [status |-> "disordered", verdict |-> "null"]
             ELSE IF row[s] = NoRow THEN [status |-> "unknown", verdict |-> "null"]
             ELSE row[s]
ReportOf(s) == IF s \in disordered THEN "none" ELSE reported[s]
Lives == [s \in Submissions |-> LifeOf(s)]
Reported == [s \in Submissions |-> ReportOf(s)]

\* One step is about one submission: its row is saved for the first time or
\* again, a message about it is late, or the end of its testing is reported.
SavesFirst(s) == row[s] = NoRow /\ row'[s] = Life!Queued /\ UNCHANGED <<reported, disordered>>
SavesAgain(s) ==
  /\ \E h \in Handlers : Handles(h, s) /\ handler[h].step = "read" /\ row'[s] = New(h)
  /\ UNCHANGED <<reported, disordered>>
ComesLate(s) == row[s] # NoRow /\ row' = row /\ disordered' = disordered \cup {s}
ReportsEnd(s) ==
  /\ row[s] # NoRow /\ row[s].status # "Done" /\ reported'[s] \in Final
  /\ UNCHANGED <<row, disordered>>

LEMMA DeliverEffect ==
  ASSUME DuelyInv, NEW h \in Handlers, NEW s \in Submissions, NEW m \in Messages,
         Deliver(h, s, m)
  PROVE  /\ UNCHANGED <<row, reported, disordered>> \/ ComesLate(s) \/ ReportsEnd(s)
         /\ \A d \in Submissions \ {s} : reported'[d] = reported[d]
<1>1. /\ row[s] # NoRow /\ row' = row /\ DOMAIN reported = Submissions
      /\ reported' = IF m.type = "finish" THEN [reported EXCEPT ![s] = VerdictOf(m.outcome)]
                                          ELSE reported
      /\ disordered' = IF Late(s, m) THEN disordered \cup {s} ELSE disordered
  BY DEF Deliver, DuelyInv, DuelyTypeOK
<1>2. VerdictOf(m.outcome) \in Final
  BY MessageFacts
<1>3. CASE m.type = "finish" /\ ~ Late(s, m)
  BY <1>1, <1>2, <1>3 DEF Late, ReportsEnd
<1>4. CASE m.type # "finish" \/ Late(s, m)
  BY <1>1, <1>4 DEF ComesLate
<1> QED
  BY <1>1, <1>3, <1>4

LEMMA OneSubmission ==
  ASSUME DuelyInv, [Next]_vars
  PROVE  \/ UNCHANGED <<row, reported, disordered>>
         \/ \E s \in Submissions :
              /\ \A d \in Submissions \ {s} :
                   row'[d] = row[d] /\ reported'[d] = reported[d]
              /\ SavesFirst(s) \/ SavesAgain(s) \/ ComesLate(s) \/ ReportsEnd(s)
<1>1. row \in [Submissions -> Columns] /\ [DuelyNext]_duelyVars
  BY NextIsDuely DEF DuelyInv, DuelyTypeOK
<1>2. ASSUME NEW s \in Submissions, Submit(s)
      PROVE  \/ UNCHANGED <<row, reported, disordered>>
             \/ SavesFirst(s) /\ \A d \in Submissions \ {s} : row'[d] = row[d]
  <2>1. row[s] = NoRow /\ UNCHANGED <<reported, disordered>>
    BY <1>2 DEF Submit, DuelyInv, RowInv
  <2>2. row' = row \/ row' = [row EXCEPT ![s] = Life!Queued]
    BY <1>2 DEF Submit, Life!Queued
  <2> QED
    BY <1>1, <2>1, <2>2 DEF SavesFirst
<1>3. ASSUME NEW h \in Handlers, Save(h)
      PROVE  \/ UNCHANGED <<row, reported, disordered>>
             \/ \E s \in Submissions :
                  SavesAgain(s) /\ \A d \in Submissions \ {s} : row'[d] = row[d]
  <2>1. row' = row \/ row' = [row EXCEPT ![handler[h].s] = New(h)]
    BY <1>3 DEF Save, New
  <2>2. handler[h] # Idle /\ handler[h].step = "read" /\ UNCHANGED <<reported, disordered>>
    BY <1>3 DEF Save
  <2>3. handler[h].s \in Submissions
    BY <2>2, HandlingFacts DEF DuelyInv
  <2> QED
    BY <1>1, <2>1, <2>2, <2>3 DEF Handles, SavesAgain
<1>4. ASSUME NEW h \in Handlers, NEW s \in Submissions, NEW m \in Messages, Deliver(h, s, m)
      PROVE  \/ UNCHANGED <<row, reported, disordered>>
             \/ /\ \A d \in Submissions \ {s} :
                     row'[d] = row[d] /\ reported'[d] = reported[d]
                /\ ComesLate(s) \/ ReportsEnd(s)
  BY <1>4, DeliverEffect DEF ComesLate, ReportsEnd
<1>5. ASSUME \/ \E s \in Submissions : SendSubmission(s) \/ \E b \in BOOLEAN : Return(s, b)
             \/ \E h \in Handlers : SendMessage(h)
             \/ StopDuely
             \/ UNCHANGED duelyVars
      PROVE  UNCHANGED <<row, reported, disordered>>
  BY <1>5 DEF SendSubmission, Return, SendMessage, StopDuely, duelyVars
<1>6. CASE \E s \in Submissions : Submit(s)
  BY <1>2, <1>6 DEF SavesFirst
<1>7. CASE \E h \in Handlers : Save(h)
  BY <1>3, <1>7 DEF SavesAgain
<1>8. CASE \E h \in Handlers, s \in Submissions, m \in Messages : Deliver(h, s, m)
  BY <1>4, <1>8
<1> QED
  BY <1>1, <1>5, <1>6, <1>7, <1>8 DEF DuelyNext, UpdateSubmissionStatus

\* What becomes of the life of a submission in one step.
LifeGoesOn(s) ==
  LET before == LifeOf(s)
      after == LifeOf(s)'
      same == ReportOf(s)' = ReportOf(s)
  IN  \/ before = Life!Unknown /\ after = Life!Queued /\ same
      \/ before = Life!Queued /\ after = Life!Running /\ same
      \/ before \in {Life!Queued, Life!Running} /\ after = before /\ ReportOf(s)' \in Final
      \/ /\ before \in {Life!Queued, Life!Running} /\ after = Life!Done(ReportOf(s)) /\ same
         /\ ReportOf(s) # "none"
      \/ /\ before \in {Life!Queued, Life!Running} \cup {Life!Done(verdict) : verdict \in Final}
         /\ after = Life!Disordered /\ ReportOf(s)' = "none"

LEMMA LateLife ==
  ASSUME DuelyInv, NEW s \in Submissions, ComesLate(s)
  PROVE  LifeGoesOn(s) \/ (LifeOf(s)' = LifeOf(s) /\ ReportOf(s)' = ReportOf(s))
<1>1. LifeOf(s)' = Life!Disordered /\ ReportOf(s)' = "none"
  BY DEF ComesLate, LifeOf, ReportOf, Life!Disordered
<1>2. CASE s \in disordered
  BY <1>1, <1>2 DEF LifeOf, ReportOf, Life!Disordered
<1>3. CASE s \notin disordered
  <2>1. LifeOf(s) = row[s] /\ row[s] # NoRow /\ InOrder(s)
    BY <1>3 DEF ComesLate, LifeOf, DuelyInv
  <2>2. row[s] \in {Life!Queued, Life!Running} \cup {Life!Done(verdict) : verdict \in Final}
    <3>1. CASE row[s] = Life!Done(reported[s])
      <4>1. reported[s] \in Final
        BY <2>1, <3>1 DEF InOrder, Life!Done
      <4> QED
        BY <3>1, <4>1
    <3> QED
      BY <2>1, <3>1 DEF InOrder
  <2> QED
    BY <1>1, <2>1, <2>2 DEF LifeGoesOn
<1> QED
  BY <1>2, <1>3

LEMMA SavedLife ==
  ASSUME DuelyInv, NEW s \in Submissions, SavesAgain(s)
  PROVE  LifeGoesOn(s) \/ (LifeOf(s)' = LifeOf(s) /\ ReportOf(s)' = ReportOf(s))
<1>1. PICK h \in Handlers : Handles(h, s) /\ handler[h].step = "read" /\ row'[s] = New(h)
  BY DEF SavesAgain
<1>2. ReportOf(s)' = ReportOf(s) /\ disordered' = disordered
  BY DEF SavesAgain, ReportOf
<1>3. CASE s \in disordered
  BY <1>2, <1>3 DEF LifeOf
<1>4. CASE s \notin disordered
  <2>1. /\ row[s] # NoRow /\ New(h) # NoRow /\ row[s] \in {Life!Queued, Life!Running}
        /\ \/ New(h) = Life!Running
           \/ New(h) = Life!Done(reported[s]) /\ reported[s] \in Final
    BY <1>1, <1>4, SaveEffect DEF NoRow
  <2>2. LifeOf(s) = row[s] /\ LifeOf(s)' = New(h) /\ ReportOf(s) = reported[s]
    BY <1>1, <1>2, <1>4, <2>1 DEF LifeOf, ReportOf, NoRow
  <2>3. reported[s] \in Final => reported[s] # "none"
    BY VerdictsAssumption DEF Final
  <2> QED
    BY <1>2, <2>1, <2>2, <2>3 DEF LifeGoesOn
<1> QED
  BY <1>3, <1>4

LEMMA ReportedLife ==
  ASSUME DuelyInv, NEW s \in Submissions, ReportsEnd(s)
  PROVE  LifeGoesOn(s) \/ (LifeOf(s)' = LifeOf(s) /\ ReportOf(s)' = ReportOf(s))
<1>1. row[s] # NoRow /\ row[s].status # "Done" /\ LifeOf(s)' = LifeOf(s)
      /\ reported'[s] \in Final /\ disordered' = disordered
  BY DEF ReportsEnd, LifeOf, NoRow
<1>2. CASE s \in disordered
  BY <1>1, <1>2 DEF ReportOf
<1>3. CASE s \notin disordered
  <2>1. LifeOf(s) \in {Life!Queued, Life!Running}
    BY <1>1, <1>3 DEF LifeOf, DuelyInv, InOrder, Life!Done
  <2>2. ReportOf(s)' \in Final
    BY <1>1, <1>3 DEF ReportOf
  <2> QED
    BY <1>1, <2>1, <2>2 DEF LifeGoesOn
<1> QED
  BY <1>2, <1>3

LEMMA LifeStep ==
  ASSUME DuelyInv, [Next]_vars
  PROVE  \/ UNCHANGED <<Lives, Reported>>
         \/ \E s \in Submissions :
              /\ Lives' = [Lives EXCEPT ![s] = LifeOf(s)']
              /\ Reported' = [Reported EXCEPT ![s] = ReportOf(s)']
              /\ LifeGoesOn(s)
<1>1. CASE UNCHANGED <<row, reported, disordered>>
  BY <1>1 DEF Lives, Reported, LifeOf, ReportOf, NoRow
<1>2. ASSUME NEW s \in Submissions,
             \A d \in Submissions \ {s} : row'[d] = row[d] /\ reported'[d] = reported[d],
             disordered' \in {disordered, disordered \cup {s}}
      PROVE  /\ Lives' = [Lives EXCEPT ![s] = LifeOf(s)']
             /\ Reported' = [Reported EXCEPT ![s] = ReportOf(s)']
  <2>1. \A d \in Submissions \ {s} : LifeOf(d)' = LifeOf(d) /\ ReportOf(d)' = ReportOf(d)
    BY <1>2 DEF LifeOf, ReportOf, NoRow
  <2> QED
    BY <2>1 DEF Lives, Reported
<1>3. ASSUME NEW s \in Submissions, SavesFirst(s) PROVE LifeGoesOn(s)
  <2>1. s \notin disordered /\ Life!Queued # NoRow
    BY <1>3 DEF SavesFirst, DuelyInv, RowInv, Life!Queued, NoRow
  <2>2. LifeOf(s) = Life!Unknown /\ LifeOf(s)' = Life!Queued /\ ReportOf(s)' = ReportOf(s)
    BY <1>3, <2>1 DEF SavesFirst, LifeOf, ReportOf, NoRow, Life!Unknown
  <2> QED
    BY <2>2 DEF LifeGoesOn
<1>4. ASSUME NEW s \in Submissions,
             \A d \in Submissions \ {s} : row'[d] = row[d] /\ reported'[d] = reported[d],
             SavesFirst(s) \/ SavesAgain(s) \/ ComesLate(s) \/ ReportsEnd(s)
      PROVE  \/ UNCHANGED <<Lives, Reported>>
             \/ /\ Lives' = [Lives EXCEPT ![s] = LifeOf(s)']
                /\ Reported' = [Reported EXCEPT ![s] = ReportOf(s)']
                /\ LifeGoesOn(s)
  <2>1. disordered' \in {disordered, disordered \cup {s}}
    BY <1>4 DEF SavesFirst, SavesAgain, ComesLate, ReportsEnd
  <2>2. /\ Lives' = [Lives EXCEPT ![s] = LifeOf(s)']
        /\ Reported' = [Reported EXCEPT ![s] = ReportOf(s)']
    BY <1>2, <1>4, <2>1
  <2>3. LifeGoesOn(s) \/ (LifeOf(s)' = LifeOf(s) /\ ReportOf(s)' = ReportOf(s))
    BY <1>3, <1>4, LateLife, SavedLife, ReportedLife
  <2>4. LifeOf(s)' = LifeOf(s) /\ ReportOf(s)' = ReportOf(s) => UNCHANGED <<Lives, Reported>>
    BY <2>2 DEF Lives, Reported
  <2> QED
    BY <2>2, <2>3, <2>4
<1> QED
  BY <1>1, <1>4, OneSubmission

\* UpdateSubmissionStatusHandler implements SubmissionLife: handled in order and one
\* after the other, messages take a submission from Queued over Running to Done
\* with the verdict its finish reports, and never back.
THEOREM LivesAlways == Spec => LivesInOrder
<1>1. Init => Life!Init
  <2> SUFFICES ASSUME Init PROVE Life!Init
    OBVIOUS
  <2>1. /\ row = [s \in Submissions |-> NoRow] /\ disordered = {}
        /\ reported = [s \in Submissions |-> "none"]
    BY DEF Init, DuelyInit
  <2> QED
    BY <2>1 DEF Life!Init, Life!Unknown, NoRow
<1>2. DuelyInv /\ [Next]_vars => [Life!Next]_<<Lives, Reported>>
  <2> SUFFICES ASSUME DuelyInv, [Next]_vars, ~ UNCHANGED <<Lives, Reported>> PROVE Life!Next
    OBVIOUS
  <2>1. PICK s \in Submissions :
           /\ Lives' = [Lives EXCEPT ![s] = LifeOf(s)']
           /\ Reported' = [Reported EXCEPT ![s] = ReportOf(s)']
           /\ LifeGoesOn(s)
    BY LifeStep
  <2>2. Lives[s] = LifeOf(s) /\ Reported[s] = ReportOf(s)
    BY DEF Lives, Reported
  <2>3. LifeOf(s)' = LifeOf(s) => Lives' = Lives
    BY <2>1 DEF Lives
  <2>4. ReportOf(s)' = ReportOf(s) => Reported' = Reported
    BY <2>1 DEF Reported
  <2>5. \/ /\ Lives[s] = Life!Unknown /\ Lives' = [Lives EXCEPT ![s] = Life!Queued]
           /\ Reported' = Reported
        \/ /\ Lives[s] = Life!Queued /\ Lives' = [Lives EXCEPT ![s] = Life!Running]
           /\ Reported' = Reported
        \/ /\ Lives[s] \in {Life!Queued, Life!Running} /\ Lives' = Lives
           /\ \E verdict \in Final : Reported' = [Reported EXCEPT ![s] = verdict]
        \/ /\ Lives[s] \in {Life!Queued, Life!Running} /\ Reported[s] # "none"
           /\ Lives' = [Lives EXCEPT ![s] = Life!Done(Reported[s])] /\ Reported' = Reported
        \/ /\ Lives[s] \in {Life!Queued, Life!Running} \cup
                            {Life!Done(verdict) : verdict \in Final}
           /\ Lives' = [Lives EXCEPT ![s] = Life!Disordered]
           /\ Reported' = [Reported EXCEPT ![s] = "none"]
    BY <2>1, <2>2, <2>3, <2>4 DEF LifeGoesOn
  <2>6. \/ Life!Save(s) \/ Life!Start(s) \/ Life!Report(s) \/ Life!Finish(s)
        \/ Life!Disorder(s)
    BY <2>5 DEF Life!Save, Life!Start, Life!Report, Life!Finish, Life!Disorder, Life!Becomes,
                Lives, LifeOf, Reported, ReportOf
  <2> QED
    BY <2>6 DEF Life!Next
<1> QED
  BY <1>1, <1>2, DuelyInvariant, PTL DEF Spec, LivesInOrder, Life!Spec, Lives, LifeOf, Reported, ReportOf

-----------------------------------------------------------------------------
(***************************************************************************)
(* Taski: what a request holds while its transaction is open.              *)
(***************************************************************************)

Inserted == {"inserted", "unlocked"}

TaskiInv ==
  /\ TaskiTypeOK
  /\ TaskLocksReturned
  /\ OkMeansRecorded
  /\ \A r \in Requests :
       /\ at[r] \in {"begun", "executed"} \cup Inserted => r \in TestRequests
       /\ at[r] \in {"executed"} \cup Inserted => r \in executions
       /\ at[r] \in Inserted => ~ Conflict(r)
  /\ \A q, r \in Requests :
       q # r /\ at[q] \in Inserted /\ at[r] \in Inserted => SolutionId[q] # SolutionId[r]

TaskiNext ==
  \/ \E r \in Requests : BeginTest(r) \/ ReadTask(r) \/ Serve(r)
  \/ StopTaski

LEMMA NextIsTaski == [Next]_vars => [TaskiNext]_taskiVars
  BY DEF Next, vars, TaskiNext, TaskiClientSends, TaskiClientReturns, DuelyStep, TaskiStep,
         TaskiStops, JoinStep, JobStep

LEMMA TaskiBegins == Init => TaskiInv
<1> SUFFICES ASSUME Init PROVE TaskiInv
  OBVIOUS
<1>1. TaskiTypeOK
  BY DEF Init, TaskiInit, TaskiTypeOK, Stages
<1>2. TaskLocksReturned /\ OkMeansRecorded
  BY DEF Init, TaskiInit, TaskLocksReturned, OkMeansRecorded, TestRequests
<1>3. \A r \in Requests : at[r] = "none"
  BY DEF Init, TaskiInit
<1> QED
  BY <1>1, <1>2, <1>3 DEF TaskiInv, Inserted

\* A step of request r that leaves the rows alone: the lock is there where it must
\* be, and the insert has found nobody with the same id.
LEMMA TaskiMove ==
  ASSUME TaskiInv, NEW r \in Requests, NEW stage \in Stages, Goes(r, stage),
         solutions' = solutions, executions' \in {executions, executions \cup {r}},
         taskLocks' \in {taskLocks, taskLocks \cup {r}, taskLocks \ {r}},
         executions' # executions => r \in TestRequests,
         stage \in {"locked", "executed", "inserted"} => r \in taskLocks',
         r \in taskLocks' => stage \in {"locked", "executed", "inserted", "unread"},
         stage \in {"begun", "executed"} \cup Inserted => r \in TestRequests,
         stage \in {"executed"} \cup Inserted => r \in executions',
         stage \in Inserted => at[r] \in Inserted \/ (~ Conflict(r) /\ ~ KeyHeld(r)),
         stage = "ok" => r \in TaskReaders
  PROVE  TaskiInv'
<1>1. TaskiTypeOK
  BY DEF TaskiInv
<1>2. /\ at' \in [Requests -> Stages] /\ at'[r] = stage
      /\ \A q \in Requests \ {r} : at'[q] = at[q]
  BY <1>1 DEF TaskiTypeOK, Goes
<1>3. TaskiTypeOK'
  BY <1>1, <1>2 DEF TaskiTypeOK, TestRequests
<1>4. TaskLocksReturned'
  BY <1>1, <1>2 DEF TaskiInv, TaskLocksReturned, TaskiTypeOK
<1>5. OkMeansRecorded'
  <2>1. \A q \in TestRequests : at'[q] = "ok" => at[q] = "ok"
    BY <1>2 DEF TaskReaders, TestRequests
  <2>2. TestRequests' = TestRequests /\ \A q \in TestRequests : Row(q)' = Row(q)
    BY DEF TestRequests, Row
  <2> QED
    BY <2>1, <2>2 DEF TaskiInv, OkMeansRecorded
<1>6. \A q \in Requests : Conflict(q)' <=> Conflict(q)
  BY DEF Conflict
<1>7. TestRequests' = TestRequests
  BY DEF TestRequests
<1>8. stage \in Inserted => ~ Conflict(r)
  BY DEF TaskiInv
<1>9. ASSUME NEW q \in Requests, q # r, at[q] \in Inserted, stage \in Inserted
      PROVE  SolutionId[q] # SolutionId[r]
  BY <1>9 DEF TaskiInv, KeyHeld, Inserted
<1> QED
  BY <1>2, <1>3, <1>4, <1>5, <1>6, <1>7, <1>8, <1>9 DEF TaskiInv

LEMMA TaskStep ==
  ASSUME TaskiInv, NEW r \in Requests,
         BeginTest(r) \/ ReadTask(r) \/ GetTestTask(r) \/ AnswerReader(r) \/ ReturnNil(r)
  PROVE  TaskiInv'
<1>1. TaskiTypeOK /\ TaskLocksReturned
  BY DEF TaskiInv
<1>2. at[r] \in {"none", "begun"} => r \notin taskLocks
  BY <1>1 DEF TaskLocksReturned
<1>3. CASE BeginTest(r)
  <2>1. PICK stage \in {"begun", "error"} : Goes(r, stage)
    BY <1>3 DEF BeginTest
  <2> QED
    BY <1>2, <1>3, <2>1, TaskiMove DEF BeginTest, Stages, Inserted
<1>4. CASE ReadTask(r) \/ GetTestTask(r)
  <2>1. /\ at[r] \in {"none", "begun"} /\ UNCHANGED <<solutions, executions>>
        /\ \/ taskLocks' = taskLocks \cup {r} /\ Goes(r, "locked")
           \/ Goes(r, "error") /\ UNCHANGED taskLocks
           \/ taskLocks' = taskLocks \cup {r} /\ Goes(r, "unread")
    BY <1>4 DEF ReadTask, GetTestTask, GetTask
  <2>2. CASE taskLocks' = taskLocks \cup {r} /\ Goes(r, "locked")
    BY <2>1, <2>2, TaskiMove DEF Stages, Inserted
  <2>3. CASE Goes(r, "error") /\ UNCHANGED taskLocks
    BY <1>2, <2>1, <2>3, TaskiMove DEF Stages, Inserted
  <2>4. CASE taskLocks' = taskLocks \cup {r} /\ Goes(r, "unread")
    BY <2>1, <2>4, TaskiMove DEF Stages, Inserted
  <2> QED
    BY <2>1, <2>2, <2>3, <2>4
<1>5. CASE AnswerReader(r)
  <2>1. PICK stage \in {"ok", "error"} : Goes(r, stage)
    BY <1>5 DEF AnswerReader
  <2> QED
    BY <1>5, <2>1, TaskiMove DEF AnswerReader, Release, Stages, Inserted
<1>6. CASE ReturnNil(r)
  BY <1>6, TaskiMove DEF ReturnNil, Release, Stages, Inserted, TaskiInv
<1> QED
  BY <1>3, <1>4, <1>5, <1>6

LEMMA TransactionStep ==
  ASSUME TaskiInv, NEW r \in Requests, Execute(r) \/ Insert(r)
  PROVE  TaskiInv'
<1>1. ASSUME ReturnError(r), solutions' = solutions,
             executions' \in {executions, executions \cup {r}},
             executions' # executions => r \in TestRequests
      PROVE  TaskiInv'
  BY <1>1, TaskiMove DEF ReturnError, Release, Stages, Inserted
<1>2. CASE Execute(r)
  <2>1. CASE /\ executions' = executions \cup {r} /\ Goes(r, "executed") /\ UNCHANGED taskLocks
    BY <1>2, <2>1, TaskiMove DEF Execute, Stages, Inserted, TaskiInv, TaskLocksReturned
  <2> QED
    BY <1>1, <1>2, <2>1 DEF Execute
<1>3. CASE Insert(r)
  <2>1. CASE ~ Conflict(r) /\ Goes(r, "inserted") /\ UNCHANGED taskLocks
    <3>1. r \in TestRequests /\ r \in executions /\ r \in taskLocks /\ ~ KeyHeld(r)
      BY <1>3 DEF Insert, TaskiInv, TaskLocksReturned
    <3> QED
      BY <1>3, <2>1, <3>1, TaskiMove DEF Insert, Stages, Inserted
  <2> QED
    BY <1>1, <1>3, <2>1 DEF Insert
<1> QED
  BY <1>2, <1>3

LEMMA CommitTestStep ==
  ASSUME TaskiInv, NEW r \in Requests, Commit(r)
  PROVE  TaskiInv'
<1>1. /\ TaskiTypeOK /\ TaskLocksReturned /\ OkMeansRecorded
      /\ at[r] = "unlocked" /\ r \in TestRequests /\ r \in executions /\ ~ Conflict(r)
      /\ r \notin taskLocks /\ UNCHANGED <<taskLocks, executions>>
  BY DEF TaskiInv, Commit, TaskLocksReturned, Inserted
<1>2. PICK stage \in {"ok", "error"} : Goes(r, stage) /\ (stage = "ok" => Row(r) \in solutions')
  BY DEF Commit
<1>3. /\ at' \in [Requests -> Stages] /\ at'[r] = stage
      /\ \A q \in Requests \ {r} : at'[q] = at[q]
  BY <1>1, <1>2 DEF TaskiTypeOK, Goes, Stages
<1>4. solutions' \in {solutions, solutions \cup {Row(r)}}
  BY DEF Commit
<1>5. TestRequests' = TestRequests /\ \A q \in TestRequests : Row(q)' = Row(q)
  BY DEF TestRequests, Row
<1>6. TaskiTypeOK'
  <2>1. Row(r) \in [id : {SolutionId[q] : q \in TestRequests}, execution : TestRequests]
    BY <1>1 DEF Row
  <2>2. \A p \in solutions : p.id # Row(r).id
    BY <1>1 DEF Conflict, Row
  <2>3. \A p, q \in solutions' : p.id = q.id => p = q
    BY <1>1, <1>4, <2>2 DEF TaskiTypeOK
  <2> QED
    BY <1>1, <1>3, <1>4, <1>5, <2>1, <2>3 DEF TaskiTypeOK
<1>7. TaskLocksReturned'
  BY <1>1, <1>3 DEF TaskLocksReturned, TaskiTypeOK
<1>8. OkMeansRecorded'
  <2>1. Row(r).execution \in executions'
    BY <1>1 DEF Row
  <2>2. \A q \in TestRequests : at'[q] = "ok" => Row(q) \in solutions'
    BY <1>1, <1>2, <1>3, <1>4 DEF OkMeansRecorded, TestRequests
  <2> QED
    BY <1>1, <1>4, <1>5, <2>1, <2>2 DEF OkMeansRecorded
<1>9. ASSUME NEW q \in Requests, at'[q] \in Inserted
      PROVE  q # r /\ at[q] \in Inserted /\ ~ Conflict(q)'
  <2>1. q # r /\ at[q] \in Inserted
    BY <1>2, <1>3, <1>9 DEF Inserted
  <2>2. ~ Conflict(q) /\ SolutionId[q] # SolutionId[r]
    BY <1>1, <2>1 DEF TaskiInv, Inserted
  <2>3. \A t \in solutions' : t.id # SolutionId[q]
    BY <1>4, <2>2 DEF Conflict, Row
  <2> QED
    BY <2>1, <2>3 DEF Conflict
<1>10. ASSUME NEW q \in Requests
       PROVE  /\ at'[q] \in {"begun", "executed"} \cup Inserted => q \in TestRequests'
              /\ at'[q] \in {"executed"} \cup Inserted => q \in executions'
  BY <1>1, <1>2, <1>3, <1>5 DEF TaskiInv
<1> QED
  BY <1>6, <1>7, <1>8, <1>9, <1>10 DEF TaskiInv

LEMMA StopTaskiStep ==
  ASSUME TaskiInv, StopTaski
  PROVE  TaskiInv'
<1>1. /\ at' = [r \in Requests |-> IF at[r] = "none" \/ Answered(r) THEN at[r] ELSE "error"]
      /\ taskLocks' = {} /\ UNCHANGED <<solutions, executions>>
  BY DEF StopTaski
<1>2. ASSUME NEW r \in Requests
      PROVE  /\ at'[r] \in {"none", "unread", "ok", "error"}
             /\ at'[r] = "ok" => at[r] = "ok"
  BY <1>1 DEF Answered
<1>3. TestRequests' = TestRequests /\ \A q \in TestRequests : Row(q)' = Row(q)
  BY DEF TestRequests, Row
<1>4. TaskiTypeOK'
  <2>1. at' \in [Requests -> Stages]
    BY <1>1, <1>2 DEF Stages
  <2> QED
    BY <1>1, <1>3, <2>1 DEF TaskiInv, TaskiTypeOK
<1>5. TaskLocksReturned'
  BY <1>1, <1>2 DEF TaskLocksReturned
<1>6. OkMeansRecorded'
  BY <1>1, <1>2, <1>3 DEF TaskiInv, OkMeansRecorded, TestRequests
<1> QED
  BY <1>2, <1>4, <1>5, <1>6 DEF TaskiInv, Inserted

LEMMA TaskiKept == TaskiInv /\ [Next]_vars => TaskiInv'
<1> SUFFICES ASSUME TaskiInv, [TaskiNext]_taskiVars PROVE TaskiInv'
  BY NextIsTaski
<1>1. CASE UNCHANGED taskiVars
  <2>1. UNCHANGED <<at, taskLocks, solutions, executions>>
    BY <1>1 DEF taskiVars
  <2>2. TestRequests' = TestRequests /\ \A q \in TestRequests : Row(q)' = Row(q)
    BY DEF TestRequests, Row
  <2>3. \A q \in Requests : Conflict(q)' <=> Conflict(q)
    BY <2>1 DEF Conflict
  <2> QED
    BY <2>1, <2>2, <2>3 DEF TaskiInv, TaskiTypeOK, TaskLocksReturned, OkMeansRecorded
<1>2. ASSUME NEW r \in Requests, BeginTest(r) \/ ReadTask(r) \/ Serve(r) PROVE TaskiInv'
  BY <1>2, TaskStep, TransactionStep, CommitTestStep DEF Serve
<1> QED
  BY <1>1, <1>2, StopTaskiStep DEF TaskiNext

\* Locks, open transactions and rows agree.
THEOREM TaskiInvariant == Spec => []TaskiInv
  BY TaskiBegins, TaskiKept, PTL DEF Spec

\* Taski's handlers have the bucket of their task locked as long as they work with
\* it and unlock it on every path but one, where the task could not be read.
THEOREM TaskLocksAlways == Spec => []TaskLocksReturned
<1>1. TaskiInv => TaskLocksReturned
  BY DEF TaskiInv
<1> QED
  BY <1>1, TaskiInvariant, PTL

\* UseCase.Test answers ok only with the solution in the table, and no row is
\* without its execution, whatever fails and whoever inserts the same id.
THEOREM RecordedAlways == Spec => []OkMeansRecorded
<1>1. TaskiInv => OkMeansRecorded
  BY DEF TaskiInv
<1> QED
  BY <1>1, TaskiInvariant, PTL

-----------------------------------------------------------------------------
(***************************************************************************)
(* Taski: a request comes to its end, and waits for one other at most.     *)
(***************************************************************************)

\* The steps a handler has still before it, at most.
StagesLeft(r) ==
  CASE at[r] = "none" -> 6
    [] at[r] = "begun" -> 5
    [] at[r] = "locked" -> 4
    [] at[r] = "executed" -> 3
    [] at[r] = "inserted" -> 2
    [] at[r] = "unlocked" -> 1
    [] OTHER -> 0

\* Whatever Taski does brings some request nearer to its answer and takes none
\* further from it.
RequestsRunOut ==
  /\ \A r \in Requests : at'[r] = at[r] \/ StagesLeft(r)' < StagesLeft(r)
  /\ \E r \in Requests : StagesLeft(r)' < StagesLeft(r)

LEMMA StageMoves ==
  ASSUME TaskiInv, NEW r \in Requests, BeginTest(r) \/ ReadTask(r) \/ Serve(r)
  PROVE  \E stage \in Stages : Goes(r, stage) /\ StagesLeft(r)' < StagesLeft(r)
<1>1. /\ at \in [Requests -> Stages]
      /\ at[r] \in {"begun", "executed"} \cup Inserted => r \in TestRequests
  BY DEF TaskiInv, TaskiTypeOK
<1>2. ASSUME NEW stage \in Stages, Goes(r, stage) PROVE at'[r] = stage
  BY <1>1, <1>2 DEF Goes
<1>3. CASE BeginTest(r)
  <2>1. at[r] = "none" /\ \E stage \in {"begun", "error"} : Goes(r, stage)
    BY <1>3 DEF BeginTest
  <2> QED
    BY <1>2, <2>1 DEF Stages, StagesLeft
<1>4. CASE ReadTask(r) \/ GetTestTask(r)
  <2>1. at[r] \in {"none", "begun"} /\ \E stage \in {"locked", "error", "unread"} : Goes(r, stage)
    BY <1>4 DEF ReadTask, GetTestTask, GetTask
  <2> QED
    BY <1>2, <2>1 DEF Stages, StagesLeft
<1>5. CASE AnswerReader(r)
  <2>1. at[r] = "locked" /\ \E stage \in {"ok", "error"} : Goes(r, stage)
    BY <1>5 DEF AnswerReader
  <2> QED
    BY <1>2, <2>1 DEF Stages, StagesLeft
<1>6. CASE Execute(r)
  <2>1. at[r] = "locked" /\ \E stage \in {"executed", "error"} : Goes(r, stage)
    BY <1>6 DEF Execute, ReturnError
  <2> QED
    BY <1>2, <2>1 DEF Stages, StagesLeft
<1>7. CASE Insert(r)
  <2>1. at[r] = "executed" /\ \E stage \in {"inserted", "error"} : Goes(r, stage)
    BY <1>7 DEF Insert, ReturnError
  <2> QED
    BY <1>2, <2>1 DEF Stages, StagesLeft
<1>8. CASE ReturnNil(r)
  <2>1. at[r] = "inserted" /\ Goes(r, "unlocked")
    BY <1>8 DEF ReturnNil
  <2> QED
    BY <1>2, <2>1 DEF Stages, StagesLeft
<1>9. CASE Commit(r)
  <2>1. at[r] = "unlocked" /\ \E stage \in {"ok", "error"} : Goes(r, stage)
    BY <1>9 DEF Commit
  <2> QED
    BY <1>2, <2>1 DEF Stages, StagesLeft
<1> QED
  BY <1>3, <1>4, <1>5, <1>6, <1>7, <1>8, <1>9 DEF Serve

LEMMA StopMoves ==
  ASSUME TaskiInv, StopTaski
  PROVE  RequestsRunOut
<1>1. at \in [Requests -> Stages]
  BY DEF TaskiInv, TaskiTypeOK
<1>2. \A r \in Requests :
        at'[r] = IF at[r] = "none" \/ Answered(r) THEN at[r] ELSE "error"
  BY DEF StopTaski
<1>3. ASSUME NEW r \in Requests, at[r] # "none", ~ Answered(r)
      PROVE  StagesLeft(r)' < StagesLeft(r)
  <2>1. at[r] \in {"begun", "locked", "executed", "inserted", "unlocked"}
    BY <1>1, <1>3 DEF Stages, Answered
  <2> QED
    BY <1>2, <1>3, <2>1 DEF StagesLeft
<1>4. \E r \in Requests : at[r] # "none" /\ ~ Answered(r)
  BY DEF StopTaski
<1> QED
  BY <1>2, <1>3, <1>4 DEF RequestsRunOut

\* Every step of Taski, a stop and all failures included, is one of at most six that
\* its request can take; so the handlers of any finite number of requests end.
THEOREM RequestsRunOutAlways == Spec => [][RequestsRunOut]_taskiVars
<1>1. TaskiInv /\ [Next]_vars => [RequestsRunOut]_taskiVars
  <2> SUFFICES ASSUME TaskiInv, [TaskiNext]_taskiVars PROVE [RequestsRunOut]_taskiVars
    BY NextIsTaski
  <2>1. ASSUME NEW r \in Requests, BeginTest(r) \/ ReadTask(r) \/ Serve(r)
        PROVE  RequestsRunOut
    <3>1. PICK stage \in Stages : Goes(r, stage) /\ StagesLeft(r)' < StagesLeft(r)
      BY <2>1, StageMoves
    <3>2. \A q \in Requests \ {r} : at'[q] = at[q]
      BY <3>1 DEF Goes, TaskiInv, TaskiTypeOK
    <3> QED
      BY <3>1, <3>2 DEF RequestsRunOut
  <2> QED
    BY <2>1, StopMoves DEF TaskiNext
<1> QED
  BY <1>1, TaskiInvariant, PTL DEF Spec

\* A handler whose insert waits for a key waits for one transaction, which has
\* inserted it and has only its return and its commit before it: waiting never
\* goes in a circle, nor over more than one other.
WaitsForOne ==
  \A r \in TestRequests :
    at[r] = "executed" /\ KeyHeld(r) =>
      \E q \in TestRequests :
        /\ StagesLeft(q) \in 1..2
        /\ \A p \in TestRequests \ {r} :
             SolutionId[p] = SolutionId[r] /\ at[p] \in Inserted <=> p = q

\* Nobody waits in a circle for the keys of solutions.
THEOREM WaitsForOneAlways == Spec => []WaitsForOne
<1>1. ASSUME TaskiInv, NEW r \in TestRequests, at[r] = "executed", KeyHeld(r)
      PROVE  \E q \in TestRequests :
               /\ StagesLeft(q) \in 1..2
               /\ \A p \in TestRequests \ {r} :
                    SolutionId[p] = SolutionId[r] /\ at[p] \in Inserted <=> p = q
  <2>1. PICK q \in TestRequests \ {r} : SolutionId[q] = SolutionId[r] /\ at[q] \in Inserted
    BY <1>1 DEF KeyHeld, Inserted
  <2>2. StagesLeft(q) \in 1..2
    BY <2>1 DEF StagesLeft, Inserted
  <2>3. TestRequests \subseteq Requests
    BY DEF TestRequests
  <2>4. \A p \in TestRequests \ {r} :
          SolutionId[p] = SolutionId[r] /\ at[p] \in Inserted <=> p = q
    BY <1>1, <2>1, <2>3 DEF TaskiInv
  <2> QED
    BY <2>1, <2>2, <2>4
<1>2. TaskiInv => WaitsForOne
  BY <1>1 DEF WaitsForOne
<1> QED
  BY <1>2, TaskiInvariant, PTL

-----------------------------------------------------------------------------
(***************************************************************************)
(* Taski: the steps that a test takes.                                     *)
(***************************************************************************)

\* The members of a concatenation are those of its parts.
LEMMA ConcatSet ==
  ASSUME NEW S, NEW a \in Seq(S), NEW b \in Seq(S)
  PROVE  a \o b \in Seq(S) /\ ToSet(a) \subseteq ToSet(a \o b) /\ ToSet(b) \subseteq ToSet(a \o b)
<1>1. a \o b \in Seq(S) /\ Len(a \o b) = Len(a) + Len(b)
  OBVIOUS
<1>2. \A k \in DOMAIN a : (a \o b)[k] = a[k] /\ k \in DOMAIN (a \o b)
  BY <1>1
<1>3. \A k \in DOMAIN b : (a \o b)[Len(a) + k] = b[k] /\ Len(a) + k \in DOMAIN (a \o b)
  BY <1>1
<1> QED
  BY <1>1, <1>2, <1>3 DEF ToSet

\* The step p runs the program who on the input of the test; c compares the outputs
\* that the two programs have written for it.
IsRun(p, who, test) ==
  /\ p.name = <<"run", who, test>>
  /\ p.type \in RunTypes
  /\ p.sources[2] = TaskFile(<<"input", test>>)

IsCheck(c, task, lang, test) ==
  /\ c.type = "check_cpp"
  /\ c.sources = <<OtherStepSource(<<"compile", "checker">>),
                   OutputOf("correct", task.solution, test), OutputOf("suspect", lang, test)>>

LEMMA CompileIsSeq ==
  ASSUME NEW who, NEW lang, NEW source
  PROVE  CompileSteps(who, lang, source) \in Seq(ToSet(CompileSteps(who, lang, source)))
  BY DEF CompileSteps, ToSet

\* RunSteps makes a step for each test, if the language is known.
LEMMA RunFacts ==
  ASSUME NEW who, NEW lang, NEW source, NEW tests \in Seq(Int)
  PROVE  LET runs == RunSteps(who, lang, source, tests)
         IN  /\ runs \in Seq(ToSet(runs))
             /\ lang \in Languages =>
                  \A test \in ToSet(tests) : \E p \in ToSet(runs) : IsRun(p, who, test)
<1> DEFINE runs == RunSteps(who, lang, source, tests)
           code == IF lang = "C++" THEN OtherStepSource(<<"compile", who>>) ELSE source
           step(k) == TestingStep(<<"run", who, tests[k]>>, RunType[lang],
                                  <<code, TaskFile(<<"input", tests[k]>>)>>)
<1>1. CASE lang \in Languages
  <2>1. runs = [k \in DOMAIN tests |-> step(k)] /\ DOMAIN tests = 1 .. Len(tests)
    BY <1>1 DEF RunSteps
  <2>2. \A k \in DOMAIN tests : step(k) \in ToSet(runs)
    BY <2>1 DEF ToSet
  <2>3. runs \in [1 .. Len(tests) -> ToSet(runs)] /\ Len(tests) \in Nat
    <3> HIDE DEF code
    <3> QED
      BY <2>1, <2>2
  <2>4. RunType[lang] \in RunTypes
    BY <1>1 DEF RunType, RunTypes, Languages
  <2>5. ASSUME NEW k \in DOMAIN tests PROVE IsRun(step(k), who, tests[k])
    BY <2>4 DEF TestingStep, IsRun
  <2>6. \A test \in ToSet(tests) : \E k \in DOMAIN tests : test = tests[k]
    BY DEF ToSet
  <2>7. \A test \in ToSet(tests) : \E p \in ToSet(runs) : IsRun(p, who, test)
    <3> HIDE DEF runs, step
    <3> QED
      BY <2>2, <2>5, <2>6
  <2> QED
    BY <2>3, <2>7
<1>2. CASE lang \notin Languages
  BY <1>2 DEF RunSteps, ToSet
<1> QED
  BY <1>1, <1>2

\* CheckSteps makes a check for each test, whatever the outputs are.
LEMMA CheckFacts ==
  ASSUME NEW task, NEW lang, NEW tests \in Seq(Int)
  PROVE  LET checks == CheckSteps(task, lang, tests)
         IN  /\ checks \in Seq(ToSet(checks))
             /\ \A test \in ToSet(tests) : \E c \in ToSet(checks) : IsCheck(c, task, lang, test)
<1> DEFINE checks == CheckSteps(task, lang, tests)
           step(k) == TestingStep(<<"check", tests[k]>>, "check_cpp",
                                  <<OtherStepSource(<<"compile", "checker">>),
                                    OutputOf("correct", task.solution, tests[k]),
                                    OutputOf("suspect", lang, tests[k])>>)
<1>1. checks = [k \in DOMAIN tests |-> step(k)] /\ DOMAIN tests = 1 .. Len(tests)
  BY DEF CheckSteps
<1>2. \A k \in DOMAIN tests : step(k) \in ToSet(checks)
  BY <1>1 DEF ToSet
<1>3. checks \in [1 .. Len(tests) -> ToSet(checks)] /\ Len(tests) \in Nat
  BY <1>1, <1>2
<1>4. ASSUME NEW k \in DOMAIN tests PROVE IsCheck(step(k), task, lang, tests[k])
  BY DEF TestingStep, IsCheck
<1>5. \A test \in ToSet(tests) : \E k \in DOMAIN tests : test = tests[k]
  BY DEF ToSet
<1>6. \A test \in ToSet(tests) : \E c \in ToSet(checks) : IsCheck(c, task, lang, test)
  <2> HIDE DEF checks, step
  <2> QED
    BY <1>2, <1>4, <1>5
<1> QED
  BY <1>3, <1>6

LEMMA SeqLarger ==
  ASSUME NEW S, NEW T, S \subseteq T, NEW a \in Seq(S)
  PROVE  a \in Seq(T)
  OBVIOUS

\* Of the steps of a test, those that run the two programs and check the outputs.
LEMMA StepsOf ==
  ASSUME NEW task, NEW lang, task.tests \in Seq(Int), task.checker = "C++"
  PROVE  LET steps == ToSet(CreateTestingSteps(task, lang))
         IN  /\ ToSet(RunSteps("correct", task.solution, TaskFile(<<"solution">>), task.tests))
                  \subseteq steps
             /\ ToSet(RunSteps("suspect", lang, InlineSource, task.tests)) \subseteq steps
             /\ ToSet(CheckSteps(task, lang, task.tests)) \subseteq steps
<1> DEFINE a == CompileSteps("correct", task.solution, TaskFile(<<"solution">>))
           b == RunSteps("correct", task.solution, TaskFile(<<"solution">>), task.tests)
           c == CompileSteps("suspect", lang, InlineSource)
           d == RunSteps("suspect", lang, InlineSource, task.tests)
           e == CompileSteps("checker", task.checker, TaskFile(<<"checker">>))
           f == CheckSteps(task, lang, task.tests)
           S == ToSet(a) \cup ToSet(b) \cup ToSet(c) \cup ToSet(d) \cup ToSet(e) \cup ToSet(f)
           ab == a \o b
           abc == ab \o c
           abcd == abc \o d
           abcde == abcd \o e
           abcdef == abcde \o f
<1>1. /\ a \in Seq(ToSet(a)) /\ b \in Seq(ToSet(b)) /\ c \in Seq(ToSet(c))
      /\ d \in Seq(ToSet(d)) /\ e \in Seq(ToSet(e)) /\ f \in Seq(ToSet(f))
  BY CompileIsSeq, RunFacts, CheckFacts
<1>2. CreateTestingSteps(task, lang) = abcdef
  BY DEF CreateTestingSteps
<1> HIDE DEF a, b, c, d, e, f
<1>3. /\ a \in Seq(S) /\ b \in Seq(S) /\ c \in Seq(S)
      /\ d \in Seq(S) /\ e \in Seq(S) /\ f \in Seq(S)
  BY <1>1, SeqLarger
<1> HIDE DEF S
<1>4. ab \in Seq(S) /\ ToSet(b) \subseteq ToSet(ab)
  BY <1>3, ConcatSet
<1> HIDE DEF ab
<1>5. abc \in Seq(S) /\ ToSet(b) \subseteq ToSet(abc)
  BY <1>3, <1>4, ConcatSet
<1> HIDE DEF abc
<1>6. abcd \in Seq(S) /\ ToSet(b) \subseteq ToSet(abcd) /\ ToSet(d) \subseteq ToSet(abcd)
  BY <1>3, <1>5, ConcatSet
<1> HIDE DEF abcd
<1>7. abcde \in Seq(S) /\ ToSet(b) \subseteq ToSet(abcde) /\ ToSet(d) \subseteq ToSet(abcde)
  BY <1>3, <1>6, ConcatSet
<1> HIDE DEF abcde
<1>8. /\ ToSet(b) \subseteq ToSet(abcdef) /\ ToSet(d) \subseteq ToSet(abcdef)
      /\ ToSet(f) \subseteq ToSet(abcdef)
  BY <1>3, <1>7, ConcatSet
<1> HIDE DEF abcdef
<1> QED
  BY <1>2, <1>8 DEF b, d, f

\* A step that checks a test is decoded only if none of its sources is null: both
\* programs were run.
LEMMA AcceptedChecks ==
  ASSUME NEW r \in Executable, TaskOf[r].checker = "C++",
         NEW test \in ToSet(TaskOf[r].tests)
  PROVE  Checks(CreateTestingSteps(TaskOf[r], Lang[r]), test)
<1> DEFINE task == TaskOf[r]
           lang == Lang[r]
           steps == CreateTestingSteps(task, lang)
<1>1. task.tests \in Seq(Int) /\ AllDecode(steps)
  BY TestsAssumption DEF Executable, Accepts
<1>2. PICK c \in ToSet(steps) : IsCheck(c, task, lang, test)
  BY <1>1, CheckFacts, StepsOf
<1>3. /\ task.solution \in Languages =>
           \E p \in ToSet(steps) : IsRun(p, "correct", test)
      /\ lang \in Languages => \E q \in ToSet(steps) : IsRun(q, "suspect", test)
  BY <1>1, RunFacts, StepsOf
<1>4. Decodes(c)
  BY <1>1, <1>2 DEF AllDecode, ToSet
<1> HIDE DEF task, lang, steps
<1>5. /\ OutputOf("correct", task.solution, test).type \in SourceTypes
      /\ OutputOf("suspect", lang, test).type \in SourceTypes
  BY <1>2, <1>4 DEF IsCheck, Decodes, GetSources, CheckCppStep
<1>6. task.solution \in Languages /\ lang \in Languages
  BY <1>5 DEF OutputOf, NoSource, SourceTypes
<1>7. PICK p \in ToSet(steps) : IsRun(p, "correct", test)
  BY <1>3, <1>6
<1>8. PICK q \in ToSet(steps) : IsRun(q, "suspect", test)
  BY <1>3, <1>6
<1>9. c.sources = <<OtherStepSource(<<"compile", "checker">>), OtherStepSource(p.name),
                    OtherStepSource(q.name)>>
  BY <1>2, <1>6, <1>7, <1>8 DEF OutputOf, IsCheck, IsRun
<1> QED
  BY <1>2, <1>7, <1>8, <1>9 DEF Checks, IsCheck, IsRun, steps, task, lang

\* Every execution that Taski has started for a task with a checker in C++ compares, for
\* each of its tests, the outputs of both programs on the input of this test: in a list
\* that CreateTestingSteps makes without them, a check has a source that is null, and
\* Exesh refuses it.
THEOREM TestsCheckedAlways == Spec => []TestsChecked
<1> DEFINE AcceptedOnly == executions \subseteq Executable
<1>1. Init => AcceptedOnly
  BY DEF Init, TaskiInit
<1>2. AcceptedOnly /\ [Next]_vars => AcceptedOnly'
  <2> SUFFICES ASSUME AcceptedOnly, [TaskiNext]_taskiVars PROVE AcceptedOnly'
    BY NextIsTaski
  <2>1. Executable' = Executable
    BY DEF Executable, TestRequests
  <2>2. CASE UNCHANGED executions
    BY <2>1, <2>2
  <2>3. ASSUME NEW r \in Requests, Execute(r) PROVE AcceptedOnly'
    BY <2>1, <2>3 DEF Execute
  <2> QED
    BY <2>2, <2>3
    DEF TaskiNext, taskiVars, BeginTest, ReadTask, Serve, GetTestTask, GetTask, Insert,
        ReturnNil, Commit, AnswerReader, StopTaski
<1>3. AcceptedOnly => TestsChecked
  BY AcceptedChecks DEF TestsChecked
<1> QED
  BY <1>1, <1>2, <1>3, PTL DEF Spec

-----------------------------------------------------------------------------
(***************************************************************************)
(* Duely and Taski: the answer is Taski's.                                 *)
(***************************************************************************)

AcceptInv == \A s \in Submissions : send[s] = "ok" => at[s] = "ok"

LEMMA OkStays ==
  ASSUME TaskiInv, [Next]_vars, NEW r \in Requests, at[r] = "ok"
  PROVE  at'[r] = "ok"
<1>1. at \in [Requests -> Stages] /\ [TaskiNext]_taskiVars
  BY NextIsTaski DEF TaskiInv, TaskiTypeOK
<1>2. ASSUME NEW q \in Requests, BeginTest(q) \/ ReadTask(q) \/ Serve(q)
      PROVE  at[q] # "ok" /\ \E stage \in Stages : Goes(q, stage)
  BY <1>2 DEF BeginTest, ReadTask, Serve, GetTestTask, GetTask, Execute, Insert, ReturnNil,
              Commit, AnswerReader, ReturnError, Stages
<1>3. CASE \E q \in Requests : BeginTest(q) \/ ReadTask(q) \/ Serve(q)
  BY <1>1, <1>2, <1>3 DEF Goes
<1>4. CASE StopTaski
  BY <1>4 DEF StopTaski, Answered
<1> QED
  BY <1>1, <1>3, <1>4 DEF TaskiNext, taskiVars

LEMMA SendTurnsOk ==
  ASSUME DuelyTypeOK, [Next]_vars, NEW s \in Submissions, send'[s] = "ok"
  PROVE  send[s] = "ok" \/ at[s] = "ok"
<1>1. send \in [Submissions -> {"none", "saved", "waiting", "ok", "fail"}]
  BY DEF DuelyTypeOK
<1>2. CASE UNCHANGED send
  BY <1>2
<1>3. ASSUME NEW d \in Submissions, TaskiClientReturns(d) PROVE send[s] = "ok" \/ at[s] = "ok"
  <2>1. send' = [send EXCEPT ![d] = IF at[d] = "ok" THEN "ok" ELSE "fail"]
    BY <1>3 DEF TaskiClientReturns, Return, SendGoes
  <2> QED
    BY <1>1, <2>1
<1>4. ASSUME NEW d \in Submissions, TaskiClientSends(d) \/ Submit(d) \/ Timeout(d)
      PROVE  send[s] = "ok" \/ at[s] = "ok"
  <2>1. \E stage \in {"saved", "waiting", "fail"} : send' = [send EXCEPT ![d] = stage]
    BY <1>4 DEF TaskiClientSends, SendSubmission, Submit, Timeout, Return, SendGoes
  <2> QED
    BY <1>1, <2>1
<1>5. CASE StopDuely
  BY <1>5 DEF StopDuely
<1>6. CASE UNCHANGED duelyVars
  BY <1>2, <1>6 DEF duelyVars
<1>7. ASSUME NEW h \in Handlers, UpdateSubmissionStatus(h) PROVE UNCHANGED send
  BY <1>7 DEF UpdateSubmissionStatus, Deliver, Save, SendMessage
<1> QED
  BY <1>2, <1>3, <1>4, <1>5, <1>6, <1>7
  DEF Next, vars, DuelyStep, TaskiStep, TaskiStops, JoinStep, JobStep

\* A user is told that a submission was accepted only if Taski has recorded it and
\* Exesh was asked to test it, whatever fails between the three services.
THEOREM AcceptedAlways == Spec => []AcceptedMeansRecorded
<1>1. Submissions \subseteq TestRequests /\ Submissions \subseteq Requests
  BY SubmissionsAreTests DEF TestRequests
<1>2. Init => AcceptInv
  BY DEF Init, DuelyInit, AcceptInv
<1>3. AcceptInv /\ DuelyInv /\ TaskiInv /\ [Next]_vars => AcceptInv'
  <2> SUFFICES ASSUME AcceptInv, DuelyInv, TaskiInv, [Next]_vars,
                      NEW s \in Submissions, send'[s] = "ok"
               PROVE  at'[s] = "ok"
    BY DEF AcceptInv
  <2> QED
    BY <1>1, SendTurnsOk, OkStays DEF AcceptInv, DuelyInv
<1>4. AcceptInv /\ TaskiInv => AcceptedMeansRecorded
  <2> SUFFICES ASSUME AcceptInv, TaskiInv, NEW s \in Submissions, send[s] = "ok"
               PROVE  Row(s) \in solutions /\ s \in executions
    BY DEF AcceptedMeansRecorded
  <2>1. Row(s) \in solutions
    BY <1>1 DEF AcceptInv, TaskiInv, OkMeansRecorded
  <2>2. Row(s).execution \in executions
    BY <2>1 DEF TaskiInv, OkMeansRecorded
  <2> QED
    BY <2>1, <2>2 DEF Row
<1> QED
  BY <1>2, <1>3, <1>4, DuelyInvariant, TaskiInvariant, PTL DEF Spec

-----------------------------------------------------------------------------
(***************************************************************************)
(* The waiting pool, and the types of all three parts.                     *)
(***************************************************************************)

LEMMA NextIsPool == [Next]_vars => [PoolNext]_poolVars
  BY DEF Next, vars, PoolNext, TaskiClientSends, TaskiClientReturns, DuelyStep, TaskiStep,
         TaskiStops, JoinStep, JobStep

\* The waiting pool keeps its types, however calls meet at the queue: no index leaves it.
THEOREM PoolInvariant == Spec => []PoolInv
  BY PoolBegins, PoolKept, NextIsPool, PTL DEF Spec, Init

\* The variables of Taski, of Duely's submissions and of the waiting pool keep their
\* types.
THEOREM TypeCorrect == Spec => []TypeOK
<1> DEFINE LinkInv == party \in Parties /\ posted \subseteq Submissions
<1>1. Init => LinkInv
  BY DEF Init
<1>2. LinkInv /\ [Next]_vars => LinkInv'
  BY DEF Next, vars, linkVars, TaskiClientSends, TaskiClientReturns, DuelyStep,
         TaskiStep, TaskiStops, JoinStep, JobStep
<1>3. PoolInv /\ LinkInv /\ DuelyInv /\ TaskiInv => TypeOK
  BY DEF TypeOK, PoolInv, DuelyInv, TaskiInv
<1> QED
  BY <1>1, <1>2, <1>3, PoolInvariant, DuelyInvariant, TaskiInvariant, PTL DEF Spec

\* As long as no two calls to DuelManager are made at the same time, the queue agrees
\* with its head, tail and size also in the middle of a call.
THEOREM SerialInvariant == Spec => [](~ overlapped => SerialInv)
<1>1. Init => (~ overlapped => SerialInv)
  BY SerialBegins DEF Init
<1>2. PoolInv /\ PoolInv' /\ (~ overlapped => SerialInv) /\ [Next]_vars
        => (~ overlapped => SerialInv)'
  BY SerialKept, NextIsPool
<1> QED
  BY <1>1, <1>2, PoolInvariant, PTL DEF Spec

\* Then everybody who joined waits once, is in the job's hands or was paired, with
\* somebody else, and Dequeue never throws.
THEOREM SerialAlways == Spec => []SerialJoinsPairUp
  BY SerialPairsUp, PoolInvariant, SerialInvariant, PTL
=============================================================================
