--------------------------------- MODULE Duely ---------------------------------
(***************************************************************************)
(* Duely's submissions: SendSubmissionHandler saves a submission and sends *)
(* it to Taski; UpdateSubmissionStatusHandler saves what the messages      *)
(* about its testing report.  Each handler has a database context of its   *)
(* own, so that what it read may be old when it saves.                     *)
(***************************************************************************)
EXTENDS Naturals

CONSTANTS
  Submissions,      \* submissions users make
  Verdicts,         \* the verdicts that messages about the end of testing report
  Handlers,         \* handlers of UpdateSubmissionStatusCommand that run at a time
  MaxDeliveries,    \* bound: messages that are delivered
  DuelyFaults       \* the kinds of failure considered, a subset of DuelyFaultKinds

DuelyFaultKinds == {"duel", "save", "timeout", "crash"}

ASSUME DeliveriesAssumption == MaxDeliveries \in Nat

\* These name the messages and rows that have no verdict.
ASSUME VerdictsAssumption == Verdicts \cap {"error", "none", "null"} = {}

VARIABLES
  row,              \* row[s]: the columns [status, verdict] of table Submissions, or NoRow
  send,             \* send[s]: where the request to submit s is
  handler,          \* handler[h]: the message that h handles and the row it read
  seen,             \* history: seen[s], the place of the last message handled about s
  reported,         \* history: reported[s], what the last finish message about s reports
  disordered,       \* history: the submissions about which a message came late
  deliveries        \* messages delivered

duelyVars == <<row, send, handler, seen, reported, disordered, deliveries>>

\* What the column verdict says of a submission that is Done.
Final == Verdicts \cup {"null", "Technical error"}

NoRow == [status |-> "none", verdict |-> "null"]
Columns == [status : {"none", "Queued", "Running", "Done"},
            verdict : Final]

\* The messages about one submission, in the order of its testing; the last has a
\* verdict, an error or none of the two.
Outcomes == Verdicts \cup {"error", "none"}
Messages == [type : {"start", "status"}, outcome : {"none"}]
              \cup [type : {"finish"}, outcome : Outcomes]
Place == [start |-> 1, status |-> 2, finish |-> 3]

Idle == [step |-> "idle"]
Handling(step) == [step : {step}, s : Submissions, message : Messages, read : Columns]

DuelyTypeOK ==
  /\ row \in [Submissions -> Columns]
  /\ send \in [Submissions -> {"none", "saved", "waiting", "ok", "fail"}]
  /\ handler \in [Handlers -> {Idle} \cup Handling("read") \cup Handling("saved")]
  /\ seen \in [Submissions -> 0 .. 3]
  /\ reported \in [Submissions -> Final \cup {"none"}]
  /\ disordered \subseteq Submissions
  /\ deliveries \in 0 .. MaxDeliveries

DuelyInit ==
  /\ row = [s \in Submissions |-> NoRow]
  /\ send = [s \in Submissions |-> "none"]
  /\ handler = [h \in Handlers |-> Idle]
  /\ seen = [s \in Submissions |-> 0]
  /\ reported = [s \in Submissions |-> "none"]
  /\ disordered = {}
  /\ deliveries = 0

-----------------------------------------------------------------------------
(***************************************************************************)
(* SendSubmissionHandler.Handle                                            *)
(***************************************************************************)

SendGoes(s, stage) == send' = [send EXCEPT ![s] = stage]

\* The submission is saved as Queued, unless its duel is not found or the save
\* fails.
Submit(s) ==
  /\ send[s] = "none"
  /\ \/ /\ SendGoes(s, "saved")
        /\ row' = [row EXCEPT ![s] = [status |-> "Queued", verdict |-> "null"]]
     \/ DuelyFaults \cap {"duel", "save"} # {} /\ SendGoes(s, "fail") /\ UNCHANGED row
  /\ UNCHANGED <<handler, seen, reported, disordered, deliveries>>

SendSubmission(s) ==
  /\ send[s] = "saved" /\ SendGoes(s, "waiting")
  /\ UNCHANGED <<row, handler, seen, reported, disordered, deliveries>>

\* Taski has answered; the row stays as it is, also after an error.
Return(s, success) ==
  /\ send[s] = "waiting" /\ SendGoes(s, IF success THEN "ok" ELSE "fail")
  /\ UNCHANGED <<row, handler, seen, reported, disordered, deliveries>>

\* HttpClient gives up, by an exception; the request may still be at work.
Timeout(s) == "timeout" \in DuelyFaults /\ Return(s, FALSE)

-----------------------------------------------------------------------------
(***************************************************************************)
(* UpdateSubmissionStatusHandler.Handle                                    *)
(***************************************************************************)

Busy(s) == \E h \in Handlers : handler[h] # Idle /\ handler[h].s = s

\* A message about a submission is late if one of a later place was handled
\* before, if it is one more finish, or if another one is still being handled.
Late(s, m) ==
  \/ Place[m.type] < seen[s]
  \/ m.type = "finish" /\ row[s].status = "Done"
  \/ Busy(s)

Later(i, j) == IF i < j THEN j ELSE i

\* What a finish message makes of a submission without a verdict.
VerdictOf(outcome) ==
  CASE outcome = "error" -> "Technical error"
    [] outcome = "none" -> "null"
    [] OTHER -> outcome

\* Any message about a row that is there, in any order and any number of times;
\* one about a missing row changes nothing.
Deliver(h, s, m) ==
  /\ handler[h] = Idle /\ row[s] # NoRow /\ deliveries < MaxDeliveries
  /\ handler' = [handler EXCEPT ![h] = [step |-> "read", s |-> s, message |-> m,
                                        read |-> row[s]]]
  /\ seen' = [seen EXCEPT ![s] = Later(@, Place[m.type])]
  /\ reported' = IF m.type = "finish" THEN [reported EXCEPT ![s] = VerdictOf(m.outcome)]
                                      ELSE reported
  /\ disordered' = IF Late(s, m) THEN disordered \cup {s} ELSE disordered
  /\ deliveries' = deliveries + 1
  /\ UNCHANGED <<row, send>>

\* Variant: the error of a finish message is not looked at.
SetVerdictOnly(m, read) ==
  IF m.type = "finish"
    THEN [status |-> "Done",
          verdict |-> IF m.outcome \in Verdicts THEN m.outcome ELSE read.verdict]
    ELSE [read EXCEPT !.status = "Running"]

\* The properties the handler sets on the submission it has read: a verdict or an
\* error in a finish message replaces the verdict that is there.
Set(m, read) ==
  IF m.type = "finish"
    THEN [status |-> "Done",
          verdict |-> IF m.outcome = "none" THEN read.verdict ELSE VerdictOf(m.outcome)]
    ELSE [read EXCEPT !.status = "Running"]

\* Variant: all columns are written.
UpdatedAll(old, read, set) == set

\* SaveChangesAsync: Entity Framework updates the columns whose property differs
\* from what was read.
Updated(old, read, set) ==
  [c \in DOMAIN old |-> IF set[c] = read[c] THEN old[c] ELSE set[c]]

\* The row is saved, or the save fails and the handler with it.
Save(h) ==
  /\ handler[h] # Idle /\ handler[h].step = "read"
  /\ LET m == handler[h] IN
       \/ /\ row' = [row EXCEPT ![m.s] = Updated(@, m.read, Set(m.message, m.read))]
          /\ handler' = [handler EXCEPT ![h].step = "saved"]
       \/ /\ "save" \in DuelyFaults
          /\ handler' = [handler EXCEPT ![h] = Idle] /\ UNCHANGED row
  /\ UNCHANGED <<send, seen, reported, disordered, deliveries>>

\* SendMessage to the client: whatever becomes of it, the row stays.
SendMessage(h) ==
  /\ handler[h] # Idle /\ handler[h].step = "saved"
  /\ handler' = [handler EXCEPT ![h] = Idle]
  /\ UNCHANGED <<row, send, seen, reported, disordered, deliveries>>

\* Duely stops: the rows are all that is left.
StopDuely ==
  /\ "crash" \in DuelyFaults
  /\ \E s \in Submissions : send[s] \in {"saved", "waiting"} \/ Busy(s)
  /\ send' = [s \in Submissions |-> IF send[s] \in {"saved", "waiting"} THEN "fail" ELSE send[s]]
  /\ handler' = [h \in Handlers |-> Idle]
  /\ UNCHANGED <<row, seen, reported, disordered, deliveries>>

UpdateSubmissionStatus(h) ==
  \/ \E s \in Submissions, m \in Messages : Deliver(h, s, m)
  \/ Save(h)
  \/ SendMessage(h)

-----------------------------------------------------------------------------
\* The handler h saves a verdict that a finish message about s reports.
Reports(h, s, verdict) ==
  /\ handler[h] # Idle /\ handler[h].s = s /\ handler[h].step = "read"
  /\ handler[h].message.type = "finish" /\ handler[h].message.outcome # "none"
  /\ VerdictOf(handler[h].message.outcome) = verdict
  /\ handler'[h] = [handler[h] EXCEPT !.step = "saved"]

\* In whatever order, however often and by however many handlers at once messages
\* are handled, the verdict of a submission is lost by none of them, although some
\* save a submission they read before it had one; and it is replaced only by the
\* verdict of a finish message, when that is saved.
VerdictAsReported ==
  [][\A s \in Submissions : row'[s].verdict # row[s].verdict =>
       \E h \in Handlers : Reports(h, s, row'[s].verdict)]_duelyVars

Life == INSTANCE SubmissionLife WITH
          Verdicts <- Final,
          life <- [s \in Submissions |->
                     IF s \in disordered THEN [status |-> "disordered", verdict |-> "null"]
                     ELSE IF row[s] = NoRow THEN [status |-> "unknown", verdict |-> "null"]
                     ELSE row[s]],
          reported <- [s \in Submissions |-> IF s \in disordered THEN "none" ELSE reported[s]]

\* A submission whose messages come one after the other and in order, with one
\* finish that is saved, only goes on to Running and Done, and is Done with the
\* verdict that this finish reports.
LivesInOrder == Life!Spec
=============================================================================
