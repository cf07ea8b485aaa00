---------------------------- MODULE SubmissionLife ----------------------------
(***************************************************************************)
(* What Duely promises of a submission whose status messages are handled   *)
(* one after the other and in the order of testing: its status only goes   *)
(* on, from Queued over Running to Done, and with Done it has the verdict  *)
(* that was reported last, for good.  A submission about which a message   *)
(* came late is disordered, and nothing is promised about it.              *)
(***************************************************************************)
CONSTANTS
  Submissions,
  Verdicts          \* what can be reported, "null" for no verdict among it

VARIABLES
  life,             \* life[s]: [status, verdict], Unknown or Disordered
  reported          \* reported[s]: the verdict reported last, or "none" before that

Unknown == [status |-> "unknown", verdict |-> "null"]
Queued == [status |-> "Queued", verdict |-> "null"]
Running == [status |-> "Running", verdict |-> "null"]
Done(verdict) == [status |-> "Done", verdict |-> verdict]
Disordered == [status |-> "disordered", verdict |-> "null"]

Init ==
  /\ life = [s \in Submissions |-> Unknown]
  /\ reported = [s \in Submissions |-> "none"]

Becomes(s, from, to) == life[s] \in from /\ life' = [life EXCEPT ![s] = to]

Save(s) == Becomes(s, {Unknown}, Queued) /\ UNCHANGED reported
Start(s) == Becomes(s, {Queued}, Running) /\ UNCHANGED reported

\* The end of testing is reported, again if it could not be saved.
Report(s) ==
  /\ life[s] \in {Queued, Running} /\ UNCHANGED life
  /\ \E verdict \in Verdicts : reported' = [reported EXCEPT ![s] = verdict]

Finish(s) ==
  /\ reported[s] # "none" /\ UNCHANGED reported
  /\ Becomes(s, {Queued, Running}, Done(reported[s]))

Disorder(s) ==
  /\ Becomes(s, {Queued, Running} \cup {Done(verdict) : verdict \in Verdicts}, Disordered)
  /\ reported' = [reported EXCEPT ![s] = "none"]

Next ==
  \E s \in Submissions : Save(s) \/ Start(s) \/ Report(s) \/ Finish(s) \/ Disorder(s)

Spec == Init /\ [][Next]_<<life, reported>>
=============================================================================
