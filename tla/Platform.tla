-------------------------------- MODULE Platform --------------------------------
(***************************************************************************)
(* Duely and Taski together: the submissions of Duely are requests to      *)
(* Taski beside those of other clients, which name the fields of a request *)
(* as Taski's API does.  Duely's waiting pool is the third part; it shares *)
(* only the process with the submissions.                                  *)
(***************************************************************************)
EXTENDS Taski, Duely, DuelMaking

CONSTANT
  Parties           \* bound: the sets of submissions, other requests, joins and
                    \*   handlers of messages that take part in one behaviour

ASSUME SubmissionsAreTests == Submissions \subseteq TestRequests

VARIABLES
  party,            \* those that take part in this behaviour
  posted            \* the submissions whose request to Taski was sent

linkVars == <<party, posted>>
vars == <<taskiVars, duelyVars, poolVars, linkVars>>

TypeOK ==
  /\ TaskiTypeOK /\ DuelyTypeOK /\ PoolTypeOK
  /\ party \in Parties
  /\ posted \subseteq Submissions

Init ==
  /\ TaskiInit /\ DuelyInit /\ PoolInit
  /\ party \in Parties
  /\ posted = {}

-----------------------------------------------------------------------------
\* Steps of Duely's submissions.

TaskiClientSends(s) ==
  /\ SendSubmission(s) /\ posted' = posted \cup {s}
  /\ UNCHANGED <<taskiVars, poolVars, party>>

\* Variant: the status of the answer is not looked at.
TaskiClientIgnores(s) ==
  /\ Answered(s) /\ Return(s, TRUE)
  /\ UNCHANGED <<taskiVars, poolVars, linkVars>>

TaskiClientReturns(s) ==
  /\ Answered(s) /\ Return(s, at[s] = "ok")
  /\ UNCHANGED <<taskiVars, poolVars, linkVars>>

DuelyStep ==
  /\ \/ \E s \in Submissions \cap party : Submit(s) \/ Timeout(s)
     \/ \E h \in Handlers \cap party : UpdateSubmissionStatus(h)
     \/ StopDuely
  /\ UNCHANGED <<taskiVars, poolVars, linkVars>>

-----------------------------------------------------------------------------
\* Steps of Taski.  What Duely has posted may arrive when Duely has given up.

Arrives(r) == r \in party /\ (r \in Submissions => r \in posted)

TaskiStep(r) ==
  /\ Arrives(r) /\ (BeginTest(r) \/ ReadTask(r) \/ Serve(r))
  /\ UNCHANGED <<duelyVars, poolVars, linkVars>>

TaskiStops == StopTaski /\ UNCHANGED <<duelyVars, poolVars, linkVars>>

-----------------------------------------------------------------------------
\* Steps of the waiting pool.

JoinStep(j) == j \in party /\ AddUser(j) /\ UNCHANGED <<taskiVars, duelyVars, linkVars>>

JobStep == Pairing /\ UNCHANGED <<taskiVars, duelyVars, linkVars>>

Next ==
  \/ \E s \in Submissions : TaskiClientSends(s) \/ TaskiClientReturns(s)
  \/ DuelyStep
  \/ \E r \in Requests : TaskiStep(r)
  \/ TaskiStops
  \/ \E j \in Joins : JoinStep(j)
  \/ JobStep

Spec == Init /\ [][Next]_vars

\* Every request is served by a goroutine or task of its own and the job by one;
\* it is enough that, as long as some of them can go on, one does.  The file
\* storage, Exesh and the database answer, if only with an error.
FairSpec ==
  /\ Spec
  /\ WF_vars(\E s \in Submissions : TaskiClientReturns(s))
  /\ WF_vars(\E r \in Requests : TaskiStep(r))
  /\ WF_vars(JobStep)

-----------------------------------------------------------------------------
\* Duely tells the user that a submission was accepted only if Taski has recorded
\* it and Exesh was asked to test it.
AcceptedMeansRecorded ==
  \A s \in Submissions : send[s] = "ok" => Row(s) \in solutions /\ s \in executions

\* A submission sent to Taski is answered in the end, without a timeout: the
\* requests that insert the same id wait for one another, but not in a circle.
SendsAnswered == \A s \in Submissions : (send[s] = "waiting") ~> (send[s] # "waiting")
=============================================================================
