------------------------ MODULE ExecutionGraphProofs ------------------------
(***************************************************************************)
(* Proofs about the graph of one execution, for every list of steps.       *)
(***************************************************************************)
EXTENDS ExecutionGraph, FiniteSetTheorems, SequenceTheorems, WellFoundedInduction, TLAPS

-----------------------------------------------------------------------------
(***************************************************************************)
(* The walk of topSort and dfs, over the positions of the steps.           *)
(***************************************************************************)

\* Step j waits for step i.
WaitsFor(j, i) == steps[i].name \in GetDependencies(steps[j])

NoCycle == \A S \in (SUBSET Positions) \ {{}} : \E j \in S : \A i \in S : ~ WaitsFor(j, i)

\* The steps that the loop of i has come to.
Visited(i) == {j \in remaining[i] + 1 .. Len(steps) : Follows(i, j)}

SearchTypes ==
  /\ steps \in StepLists
  /\ used \subseteq Positions
  /\ calls \in Seq(Positions) /\ IsInjective(calls)
  /\ found \in Seq(Positions) /\ IsInjective(found)
  /\ remaining \in [{Root} \cup Positions -> 0 .. Len(steps)]

\* The call of a used step is at work or has ended.
Marks == used = ToSet(calls) \cup ToSet(found) /\ ToSet(calls) \cap ToSet(found) = {}

\* A call was made by the one below it.
Chain == \A k \in 1 .. Len(calls) - 1 : Follows(calls[k], calls[k + 1])

Untouched == \A i \in Positions \ used : remaining[i] = Len(steps)
VisitedUsed == \A i \in {Root} \cup ToSet(calls) : Visited(i) \subseteq used

\* Without cycles, a step is appended after all that wait for it.
FollowersFirst ==
  NoCycle => \A k \in DOMAIN found : \A j \in Positions :
               WaitsFor(j, found[k]) => \E m \in 1 .. k - 1 : found[m] = j

SearchInv == SearchTypes /\ Marks /\ Chain /\ Untouched /\ VisitedUsed /\ FollowersFirst

LEMMA StepsFacts ==
  ASSUME steps \in StepLists
  PROVE  /\ Len(steps) \in Nat /\ DOMAIN steps = Positions /\ Root \notin Positions
         /\ NamesUnique(steps)
         /\ Names(steps) = {steps[i].name : i \in Positions}
         /\ \A i \in Positions : Dependencies(steps[i].name) = GetDependencies(steps[i])
<1>1. steps \in Seq(ToSet(steps)) /\ NamesUnique(steps)
  BY StepListsAssumption
<1>2. Len(steps) \in Nat /\ DOMAIN steps = Positions
  BY <1>1 DEF Positions
<1>3. ASSUME NEW i \in Positions PROVE StepNamed(steps, steps[i].name) = steps[i]
  <2>1. steps[i] \in ToSet(steps) /\ steps[i].name = steps[i].name
    BY <1>2 DEF ToSet
  <2>2. \A s \in ToSet(steps) : s.name = steps[i].name => s = steps[i]
    BY <1>1, <1>2 DEF ToSet, NamesUnique
  <2> QED
    BY <2>1, <2>2 DEF StepNamed
<1> QED
  BY <1>1, <1>2, <1>3 DEF Names, Dependencies, Root, Positions

LEMMA Appended ==
  ASSUME NEW S, NEW s \in Seq(S), NEW e \in S
  PROVE  /\ ToSet(Append(s, e)) = ToSet(s) \cup {e}
         /\ IsInjective(s) /\ e \notin ToSet(s) => IsInjective(Append(s, e))
<1> DEFINE t == Append(s, e)
           n == Len(s)
<1>1. /\ n \in Nat /\ DOMAIN s = 1 .. n /\ DOMAIN t = 1 .. n + 1
      /\ t[n + 1] = e /\ \A k \in 1 .. n : t[k] = s[k]
  OBVIOUS
<1> HIDE DEF t, n
<1>2. \A k \in 1 .. n + 1 : k \in 1 .. n \/ k = n + 1
  BY <1>1
<1>3. n + 1 \in 1 .. n + 1 /\ \A k \in 1 .. n : k \in 1 .. n + 1
  BY <1>1
<1>4. ToSet(s) = {s[k] : k \in 1 .. n} /\ ToSet(t) = {t[k] : k \in 1 .. n + 1}
  BY <1>1 DEF ToSet
<1>5. ToSet(t) \subseteq ToSet(s) \cup {e}
  BY <1>1, <1>2, <1>4
<1>6. ToSet(s) \cup {e} \subseteq ToSet(t)
  BY <1>1, <1>3, <1>4
<1>7. ASSUME IsInjective(s), e \notin ToSet(s) PROVE IsInjective(t)
  <2>1. \A k \in 1 .. n : s[k] # e
    BY <1>4, <1>7
  <2> SUFFICES ASSUME NEW j \in 1 .. n + 1, NEW k \in 1 .. n + 1, t[j] = t[k]
               PROVE  j = k
    BY <1>1 DEF IsInjective
  <2>2. CASE j \in 1 .. n /\ k \in 1 .. n
    <3>1. s[j] = s[k]
      BY <1>1, <2>2
    <3> QED
      BY <1>1, <1>7, <2>2, <3>1 DEF IsInjective
  <2>3. CASE j = n + 1 /\ k \in 1 .. n
    BY <1>1, <2>1, <2>3
  <2>4. CASE k = n + 1 /\ j \in 1 .. n
    BY <1>1, <2>1, <2>4
  <2> QED
    BY <1>2, <2>2, <2>3, <2>4
<1> QED
  BY <1>5, <1>6, <1>7 DEF t

LEMMA SearchBegins == SearchInit => SearchInv
<1> SUFFICES ASSUME SearchInit PROVE SearchInv
  OBVIOUS
<1>1. Len(steps) \in Nat
  BY StepsFacts DEF SearchInit
<1>2. SearchTypes
  BY <1>1 DEF SearchInit, SearchTypes, IsInjective
<1>3. calls = <<>> /\ found = <<>> /\ used = {} /\ ToSet(calls) = {} /\ ToSet(found) = {}
        /\ DOMAIN found = {}
  BY DEF SearchInit, ToSet
<1>4. \A i \in {Root} \cup Positions : remaining[i] = Len(steps) /\ Visited(i) = {}
  BY <1>1 DEF SearchInit, Visited
<1> QED
  BY <1>2, <1>3, <1>4 DEF SearchInv, Marks, Chain, Untouched, VisitedUsed, FollowersFirst

\* The loop at work; the innermost call is that of a used step.
LEMMA CallerFacts ==
  ASSUME SearchInv
  PROVE  /\ Caller \in {Root} \cup ToSet(calls) /\ Caller \in {Root} \cup Positions
         /\ calls = <<>> => Caller = Root
         /\ calls # <<>> => /\ Len(calls) \in Nat \ {0} /\ Caller = calls[Len(calls)]
                            /\ Caller \in ToSet(calls)
         /\ Caller \in Positions => Caller \in used
<1>1. calls \in Seq(Positions) /\ used = ToSet(calls) \cup ToSet(found)
  BY DEF SearchInv, SearchTypes, Marks
<1>2. CASE calls = <<>>
  BY <1>2, StepsFacts DEF Caller, SearchInv, SearchTypes
<1>3. CASE calls # <<>>
  <2>1. Len(calls) \in Nat \ {0} /\ Len(calls) \in DOMAIN calls
    BY <1>1, <1>3
  <2>2. Caller = calls[Len(calls)]
    BY <1>3 DEF Caller, Last
  <2> QED
    BY <1>1, <1>3, <2>1, <2>2 DEF ToSet
<1> QED
  BY <1>2, <1>3

\* What the loop at work has come to when it has looked at the next step.
LEMMA VisitFacts ==
  ASSUME SearchInv, NEW j \in ToVisit, \A k \in ToVisit : k <= j, steps' = steps,
         remaining' = [remaining EXCEPT ![Caller] = j - 1]
  PROVE  /\ j \in Positions /\ Follows(Caller, j)
         /\ remaining' \in [{Root} \cup Positions -> 0 .. Len(steps)]
         /\ \A i \in {Root} \cup Positions :
              IF i = Caller THEN Visited(i)' \subseteq Visited(i) \cup {j}
                            ELSE remaining'[i] = remaining[i] /\ Visited(i)' = Visited(i)
<1>1. /\ Len(steps) \in Nat /\ remaining \in [{Root} \cup Positions -> 0 .. Len(steps)]
      /\ Caller \in {Root} \cup Positions
  BY StepsFacts, CallerFacts DEF SearchInv, SearchTypes
<1>2. j \in 1 .. remaining[Caller] /\ Follows(Caller, j) /\ remaining[Caller] \in 0 .. Len(steps)
  BY <1>1 DEF ToVisit
<1>3. j \in Positions /\ j - 1 \in 0 .. Len(steps)
  BY <1>1, <1>2 DEF Positions
<1>4. /\ remaining' \in [{Root} \cup Positions -> 0 .. Len(steps)]
      /\ remaining'[Caller] = j - 1
      /\ \A i \in {Root} \cup Positions : i # Caller => remaining'[i] = remaining[i]
  BY <1>1, <1>3
<1>5. \A i, k : Follows(i, k)' <=> Follows(i, k)
  BY DEF Follows
<1>6. ASSUME NEW i \in {Root} \cup Positions, i # Caller PROVE Visited(i)' = Visited(i)
  BY <1>4, <1>5, <1>6 DEF Visited
<1>7. ASSUME NEW i, i = Caller, NEW k \in Visited(i)', k # j PROVE k \in Visited(i)
  <2>1. k \in j .. Len(steps) /\ Follows(i, k)
    BY <1>1, <1>2, <1>4, <1>7 DEF Visited, Follows
  <2>2. k > j
    BY <1>1, <1>2, <1>7, <2>1
  <2>3. k \notin 1 .. remaining[i]
    BY <1>7, <2>1, <2>2 DEF ToVisit
  <2>4. k \in remaining[i] + 1 .. Len(steps)
    BY <1>1, <1>2, <1>7, <2>1, <2>2, <2>3
  <2> QED
    BY <2>1, <2>4 DEF Visited
<1> QED
  BY <1>2, <1>3, <1>4, <1>6, <1>7

\* A step that was entered before is passed over.
LEMMA VisitKnown ==
  ASSUME SearchInv, NEW j \in ToVisit, \A k \in ToVisit : k <= j,
         remaining' = [remaining EXCEPT ![Caller] = j - 1], Entered(j),
         UNCHANGED <<steps, used, calls, found>>
  PROVE  SearchInv'
<1>1. /\ j \in Positions /\ Follows(Caller, j)
      /\ remaining' \in [{Root} \cup Positions -> 0 .. Len(steps)]
      /\ \A i \in {Root} \cup Positions :
           IF i = Caller THEN Visited(i)' \subseteq Visited(i) \cup {j}
                         ELSE remaining'[i] = remaining[i] /\ Visited(i)' = Visited(i)
  BY VisitFacts
<1>2. ToSet(calls)' = ToSet(calls) /\ ToSet(found)' = ToSet(found) /\ Positions' = Positions
  BY DEF ToSet, Positions
<1>3. SearchTypes' /\ Marks'
  BY <1>1, <1>2 DEF SearchInv, SearchTypes, Marks, IsInjective
<1>4. Chain' /\ FollowersFirst'
  BY <1>2 DEF SearchInv, Chain, Follows, FollowersFirst, NoCycle, WaitsFor
<1>5. Caller \in {Root} \cup ToSet(calls) /\ (Caller \in Positions => Caller \in used)
        /\ ToSet(calls) \subseteq Positions
  BY CallerFacts DEF SearchInv, SearchTypes, ToSet
<1>6. Untouched'
  BY <1>1, <1>2, <1>5 DEF SearchInv, Untouched
<1>7. VisitedUsed'
  <2>1. \A i \in {Root} \cup ToSet(calls) : Visited(i) \subseteq used
    BY DEF SearchInv, VisitedUsed
  <2>2. j \in used
    BY DEF Entered
  <2>3. \A i \in {Root} \cup ToSet(calls) : Visited(i)' \subseteq used
    BY <1>1, <1>5, <2>1, <2>2
  <2> QED
    BY <1>2, <2>3 DEF VisitedUsed
<1> QED
  BY <1>3, <1>4, <1>6, <1>7 DEF SearchInv

\* dfs is called for a step that was not entered yet.
LEMMA VisitNew ==
  ASSUME SearchInv, NEW j \in ToVisit, \A k \in ToVisit : k <= j,
         remaining' = [remaining EXCEPT ![Caller] = j - 1], ~ Entered(j),
         used' = used \cup {j}, calls' = Append(calls, j), UNCHANGED <<steps, found>>
  PROVE  SearchInv'
<1>1. /\ j \in Positions /\ Follows(Caller, j)
      /\ remaining' \in [{Root} \cup Positions -> 0 .. Len(steps)]
      /\ \A i \in {Root} \cup Positions :
           IF i = Caller THEN Visited(i)' \subseteq Visited(i) \cup {j}
                         ELSE remaining'[i] = remaining[i] /\ Visited(i)' = Visited(i)
  BY VisitFacts
<1>2. /\ calls \in Seq(Positions) /\ IsInjective(calls) /\ found \in Seq(Positions)
      /\ used \subseteq Positions /\ j \notin used
      /\ used = ToSet(calls) \cup ToSet(found) /\ ToSet(calls) \cap ToSet(found) = {}
  BY DEF SearchInv, SearchTypes, Marks, Entered
<1>3. Positions' = Positions /\ ToSet(found)' = ToSet(found)
  BY DEF Positions, ToSet
<1>4. /\ calls' \in Seq(Positions) /\ Len(calls') = Len(calls) + 1 /\ Len(calls) \in Nat
      /\ calls'[Len(calls) + 1] = j /\ \A k \in 1 .. Len(calls) : calls'[k] = calls[k]
  BY <1>1, <1>2
<1>5. ToSet(calls') = ToSet(calls) \cup {j}
  BY <1>1, <1>2, Appended
<1>6. IsInjective(calls')
  BY <1>1, <1>2, Appended
<1>7. SearchTypes' /\ Marks'
  <2>1. steps' \in StepLists /\ Len(steps)' = Len(steps) /\ IsInjective(found')
    BY DEF SearchInv, SearchTypes
  <2>2. SearchTypes'
    BY <1>1, <1>2, <1>3, <1>4, <1>6, <2>1 DEF SearchTypes
  <2>3. Marks'
    BY <1>2, <1>3, <1>5 DEF Marks
  <2> QED
    BY <2>2, <2>3
<1>8. Chain'
  <2> SUFFICES ASSUME NEW k \in 1 .. Len(calls') - 1 PROVE Follows(calls'[k], calls'[k + 1])
    BY DEF Chain, Follows
  <2>1. CASE k \in 1 .. Len(calls) - 1
    BY <1>4, <2>1 DEF SearchInv, Chain
  <2>2. CASE k \notin 1 .. Len(calls) - 1
    <3>1. k = Len(calls) /\ calls # <<>>
      BY <1>4, <2>2
    <3>2. Caller = calls[Len(calls)]
      BY <3>1, CallerFacts
    <3> QED
      BY <1>1, <1>4, <3>1, <3>2
  <2> QED
    BY <2>1, <2>2
<1>9. FollowersFirst'
  BY <1>3 DEF SearchInv, FollowersFirst, NoCycle, WaitsFor
<1>10. Caller \in {Root} \cup ToSet(calls) /\ (Caller \in Positions => Caller \in used)
        /\ ToSet(calls) \subseteq Positions /\ Root \notin Positions
  BY CallerFacts, StepsFacts DEF SearchInv, SearchTypes, ToSet
<1>11. Untouched'
  BY <1>1, <1>3, <1>10 DEF SearchInv, Untouched
<1>12. VisitedUsed'
  <2>1. \A i \in {Root} \cup ToSet(calls) : Visited(i) \subseteq used
    BY DEF SearchInv, VisitedUsed
  <2>2. \A i \in {Root} \cup ToSet(calls) : Visited(i)' \subseteq used'
    BY <1>1, <1>10, <2>1
  <2>3. j # Caller
    BY <1>1, <1>2, <1>10
  <2>4. remaining'[j] = Len(steps)
    BY <1>1, <1>2, <2>3 DEF SearchInv, Untouched
  <2>5. Len(steps) \in Nat
    BY StepsFacts DEF SearchInv, SearchTypes
  <2>6. Visited(j)' = {}
    BY <2>4, <2>5 DEF Visited
  <2> QED
    BY <1>5, <2>2, <2>6 DEF VisitedUsed, Root
<1> QED
  BY <1>7, <1>8, <1>9, <1>11, <1>12 DEF SearchInv

\* Without cycles no step that waits for the innermost call's is at work itself: it would
\* wait for the call above it, and so on.
LEMMA NoneWaitsBelow ==
  ASSUME SearchInv, NoCycle, calls # <<>>, NEW j \in ToSet(calls)
  PROVE  ~ WaitsFor(j, Last(calls))
<1> SUFFICES ASSUME WaitsFor(j, Last(calls)) PROVE FALSE
  OBVIOUS
<1>1. calls \in Seq(Positions) /\ Len(calls) \in Nat /\ Root \notin Positions
  BY StepsFacts DEF SearchInv, SearchTypes
<1>2. PICK p \in 1 .. Len(calls) : calls[p] = j
  BY <1>1 DEF ToSet
<1> DEFINE S == {calls[k] : k \in p .. Len(calls)}
<1>3. j \in S /\ Last(calls) \in S
  BY <1>1, <1>2 DEF Last
<1>4. S \in (SUBSET Positions) \ {{}}
  BY <1>1, <1>2, <1>3
<1>5. ASSUME NEW k \in p .. Len(calls) PROVE \E i \in S : WaitsFor(calls[k], i)
  <2>1. CASE k = p
    BY <1>2, <1>3, <2>1
  <2>2. CASE k # p
    <3>1. k - 1 \in p .. Len(calls) /\ k - 1 \in 1 .. Len(calls) - 1 /\ (k - 1) + 1 = k
            /\ k - 1 \in 1 .. Len(calls)
      BY <1>1, <1>2, <2>2
    <3>2. Follows(calls[k - 1], calls[k])
      BY <3>1 DEF SearchInv, Chain
    <3>3. calls[k - 1] # Root
      BY <1>1, <3>1
    <3> QED
      BY <3>1, <3>2, <3>3 DEF Follows, WaitsFor
  <2> QED
    BY <2>1, <2>2
<1> HIDE DEF S
<1>6. PICK i \in S : \A h \in S : ~ WaitsFor(i, h)
  BY <1>4 DEF NoCycle
<1>7. \E k \in p .. Len(calls) : i = calls[k]
  BY DEF S
<1> QED
  BY <1>5, <1>6, <1>7

LEMMA ReturnKeeps ==
  ASSUME SearchInv, Return
  PROVE  SearchInv'
<1>1. /\ calls # <<>> /\ ToVisit = {} /\ UNCHANGED <<steps, used, remaining>>
      /\ found' = Append(found, Last(calls)) /\ calls' = Front(calls)
  BY DEF Return, LoopEnds
<1>2. /\ calls \in Seq(Positions) /\ IsInjective(calls)
      /\ found \in Seq(Positions) /\ IsInjective(found) /\ used \subseteq Positions
      /\ used = ToSet(calls) \cup ToSet(found) /\ ToSet(calls) \cap ToSet(found) = {}
  BY DEF SearchInv, SearchTypes, Marks
<1> DEFINE n == Len(calls)
           i == calls[n]
<1>3. n \in Nat \ {0} /\ n \in 1 .. n /\ Last(calls) = i /\ Caller = i /\ i \in Positions
        /\ i \in ToSet(calls)
  BY <1>1, <1>2, CallerFacts DEF Last, ToSet
<1>4. /\ calls' \in Seq(Positions) /\ Len(calls') = n - 1
      /\ \A k \in 1 .. n - 1 : calls'[k] = calls[k]
  <2>1. /\ Len(calls) - 1 \in 0 .. Len(calls) /\ calls' = SubSeq(calls, 1, Len(calls) - 1)
    BY <1>1, <1>2, <1>3 DEF Front
  <2>2. n - 1 \in Int /\ \A k \in 1 .. n - 1 : calls[k] \in Positions
    BY <1>2, <1>3
  <2> HIDE DEF n, i
  <2>3. /\ SubSeq(calls, 1, n - 1) \in Seq(Positions)
        /\ Len(SubSeq(calls, 1, n - 1)) = IF 1 <= n - 1 THEN (n - 1) - 1 + 1 ELSE 0
        /\ \A k \in 1 .. (n - 1) - 1 + 1 : SubSeq(calls, 1, n - 1)[k] = calls[1 + k - 1]
    BY <2>2, SubSeqProperties
  <2>4. calls' = SubSeq(calls, 1, n - 1)
    BY <2>1 DEF n
  <2>5. \A k \in 1 .. n - 1 : k \in 1 .. (n - 1) - 1 + 1 /\ 1 + k - 1 = k
    BY <1>3
  <2> QED
    BY <1>3, <2>3, <2>4, <2>5
<1>5. /\ found' \in Seq(Positions) /\ Len(found') = Len(found) + 1 /\ Len(found) \in Nat
      /\ found'[Len(found) + 1] = i /\ \A k \in 1 .. Len(found) : found'[k] = found[k]
  BY <1>1, <1>2, <1>3
<1>6. DOMAIN calls = 1 .. n /\ DOMAIN calls' = 1 .. n - 1 /\ DOMAIN found = 1 .. Len(found)
        /\ DOMAIN found' = 1 .. Len(found) + 1
  BY <1>2, <1>4, <1>5
<1> HIDE DEF n, i
<1>7. \A k \in 1 .. n - 1 : k \in 1 .. n /\ k # n
  BY <1>3
<1>8. \A k \in 1 .. n : k \in 1 .. n - 1 \/ k = n
  BY <1>3
<1>9. \A k \in 1 .. Len(found) + 1 : k \in 1 .. Len(found) \/ k = Len(found) + 1
  BY <1>5
<1>10. i \notin ToSet(found)
  BY <1>2, <1>3
<1>11. \A k \in 1 .. n - 1 : calls[k] # i
  BY <1>2, <1>3, <1>6, <1>7 DEF IsInjective, i
<1>12. ToSet(calls') = ToSet(calls) \ {i}
  BY <1>3, <1>4, <1>6, <1>7, <1>8, <1>11 DEF ToSet, i
<1>13. ToSet(found') = ToSet(found) \cup {i}
  BY <1>1, <1>2, <1>3, Appended
<1>14. IsInjective(calls')
  BY <1>2, <1>4, <1>6, <1>7 DEF IsInjective
<1>15. IsInjective(found')
  BY <1>1, <1>2, <1>3, <1>10, Appended
<1>16. Positions' = Positions
  BY <1>1 DEF Positions
<1>17. SearchTypes'
  BY <1>1, <1>4, <1>5, <1>14, <1>15, <1>16 DEF SearchInv, SearchTypes
<1>18. Marks'
  BY <1>1, <1>2, <1>3, <1>12, <1>13 DEF Marks
<1>19. Chain'
  <2> SUFFICES ASSUME NEW k \in 1 .. Len(calls') - 1 PROVE Follows(calls'[k], calls'[k + 1])
    BY <1>1 DEF Chain, Follows
  <2>1. k \in 1 .. n - 1 /\ k + 1 \in 1 .. n - 1
    BY <1>3, <1>4
  <2> QED
    BY <1>4, <2>1 DEF SearchInv, Chain, n
<1>20. Untouched' /\ VisitedUsed'
  <2>1. Untouched'
    BY <1>1, <1>16 DEF SearchInv, Untouched
  <2>2. \A h : Visited(h)' = Visited(h)
    BY <1>1 DEF Visited, Follows
  <2>3. {Root} \cup ToSet(calls') \subseteq {Root} \cup ToSet(calls)
    BY <1>12
  <2>4. \A h \in {Root} \cup ToSet(calls) : Visited(h) \subseteq used
    BY DEF SearchInv, VisitedUsed
  <2>5. \A h \in {Root} \cup ToSet(calls') : Visited(h)' \subseteq used'
    BY <1>1, <2>2, <2>3, <2>4
  <2>6. VisitedUsed'
    BY <2>5 DEF VisitedUsed, Root
  <2> QED
    BY <2>1, <2>6
<1>21. NoCycle' <=> NoCycle
  BY <1>1, <1>16 DEF NoCycle, WaitsFor
<1>22. FollowersFirst'
  <2> SUFFICES ASSUME NoCycle, NEW k \in DOMAIN found', NEW j \in Positions,
                      WaitsFor(j, found'[k])
               PROVE  \E m \in 1 .. k - 1 : found'[m] = j
    <3>1. ASSUME NEW k \in DOMAIN found', NEW j \in Positions, WaitsFor(j, found[k])'
          PROVE  WaitsFor(j, found'[k])
      BY <1>1, <3>1 DEF WaitsFor
    <3> QED
      BY <1>16, <1>21, <3>1 DEF FollowersFirst
  <2>1. CASE k \in 1 .. Len(found)
    <3>1. PICK m \in 1 .. k - 1 : found[m] = j
      BY <1>5, <1>6, <2>1 DEF SearchInv, FollowersFirst
    <3>2. m \in 1 .. Len(found)
      BY <1>5, <2>1
    <3> QED
      BY <1>5, <3>1, <3>2
  <2>2. CASE k = Len(found) + 1
    <3>1. WaitsFor(j, i) /\ Follows(i, j)
      BY <1>5, <2>2 DEF WaitsFor, Follows
    <3>2. j \notin 1 .. remaining[i]
      BY <1>1, <1>3, <3>1 DEF ToVisit
    <3>3. j \in Visited(i)
      <4>1. remaining[i] \in 0 .. Len(steps) /\ Len(steps) \in Nat
        BY <1>3, StepsFacts DEF SearchInv, SearchTypes
      <4> QED
        BY <3>1, <3>2, <4>1 DEF Visited, Positions
    <3>4. j \in used
      BY <1>3, <3>3 DEF SearchInv, VisitedUsed
    <3>5. j \notin ToSet(calls)
      BY <1>1, <1>3, <3>1, NoneWaitsBelow
    <3>6. j \in ToSet(found)
      BY <1>2, <3>4, <3>5
    <3>7. PICK m \in 1 .. Len(found) : found[m] = j
      BY <1>6, <3>6 DEF ToSet
    <3> QED
      BY <1>5, <2>2, <3>7
  <2> QED
    BY <1>6, <1>9, <2>1, <2>2
<1> QED
  BY <1>17, <1>18, <1>19, <1>20, <1>22 DEF SearchInv

LEMMA SearchKept == SearchInv /\ [Visit \/ Return]_searchVars => SearchInv'
<1>1. ASSUME SearchInv, UNCHANGED searchVars PROVE SearchInv'
  <2>1. UNCHANGED <<steps, used, calls, remaining, found>>
    BY <1>1 DEF searchVars
  <2>2. SearchTypes'
    BY <1>1, <2>1 DEF SearchInv, SearchTypes, Positions
  <2>3. Marks' /\ Untouched'
    BY <1>1, <2>1 DEF SearchInv, Marks, Untouched, Positions
  <2>4. Chain' /\ VisitedUsed'
    BY <1>1, <2>1 DEF SearchInv, Chain, VisitedUsed, Visited, Follows
  <2>5. FollowersFirst'
    BY <1>1, <2>1 DEF SearchInv, FollowersFirst, NoCycle, WaitsFor, Positions
  <2> QED
    BY <2>2, <2>3, <2>4, <2>5 DEF SearchInv
<1>2. ASSUME SearchInv, Visit PROVE SearchInv'
  <2>1. PICK j \in ToVisit :
          /\ \A k \in ToVisit : k <= j
          /\ remaining' = [remaining EXCEPT ![Caller] = j - 1]
          /\ IF Entered(j)
               THEN UNCHANGED <<used, calls>>
               ELSE used' = used \cup {j} /\ calls' = Append(calls, j)
    BY <1>2 DEF Visit
  <2>2. UNCHANGED <<steps, found>>
    BY <1>2 DEF Visit
  <2> QED
    BY <1>2, <2>1, <2>2, VisitKnown, VisitNew
<1> QED
  BY <1>1, <1>2, ReturnKeeps

\* When all calls have ended and the loop of topSort, too, every step was found once.
LEMMA AllFound ==
  ASSUME SearchInv, Searched
  PROVE  /\ Len(found) = Len(steps) /\ Len(steps) \in Nat /\ DOMAIN found = Positions
         /\ found \in [Positions -> Positions]
         /\ \A j \in Positions : \E k \in Positions : found[k] = j
<1>1. /\ calls = <<>> /\ ToVisit = {} /\ Len(steps) \in Nat
      /\ found \in Seq(Positions) /\ IsInjective(found)
      /\ remaining \in [{Root} \cup Positions -> 0 .. Len(steps)]
      /\ used = ToSet(calls) \cup ToSet(found)
  BY StepsFacts DEF Searched, LoopEnds, SearchInv, SearchTypes, Marks
<1>2. Caller = Root
  BY <1>1, CallerFacts
<1>3. 1 .. remaining[Root] = {}
  BY <1>1, <1>2 DEF ToVisit, Follows
<1>4. remaining[Root] = 0
  BY <1>1, <1>3
<1>5. Visited(Root) = Positions
  BY <1>1, <1>4 DEF Visited, Follows, Positions
<1>6. Positions \subseteq ToSet(found)
  BY <1>1, <1>5 DEF SearchInv, VisitedUsed, ToSet
<1>7. DOMAIN found = 1 .. Len(found) /\ Len(found) \in Nat /\ found \in [1 .. Len(found) -> Positions]
  BY <1>1
<1>8. \A j \in Positions : \E k \in 1 .. Len(found) : found[k] = j
  BY <1>6, <1>7 DEF ToSet
<1>9. found \in Bijection(1 .. Len(found), Positions)
  BY <1>1, <1>7, <1>8 DEF Bijection, Injection, Surjection, IsInjective
<1>10. Cardinality(Positions) = Len(found)
  BY <1>7, <1>9, FS_CountingElements DEF ExistsBijection
<1>11. Cardinality(1 .. Len(steps)) = Len(steps)
  <2>1. 1 \in Int /\ Len(steps) \in Int
    BY <1>1
  <2>2. Cardinality(1 .. Len(steps)) = IF 1 > Len(steps) THEN 0 ELSE Len(steps) - 1 + 1
    BY ONLY <2>1, FS_Interval
  <2> QED
    BY <1>1, <2>2
<1> QED
  BY <1>1, <1>7, <1>8, <1>10, <1>11 DEF Positions

\* What newGraph makes of it.
LEMMA OrderFacts ==
  ASSUME SearchInv, Searched
  PROVE  /\ Order \in Seq(Names(steps)) /\ Len(Order) = Len(steps)
         /\ DOMAIN Order = Positions
         /\ \A k \in Positions : /\ Len(steps) + 1 - k \in Positions
                                 /\ Order[k] = steps[found[Len(steps) + 1 - k]].name
<1>1. /\ Len(found) = Len(steps) /\ Len(steps) \in Nat /\ DOMAIN found = Positions
      /\ found \in [Positions -> Positions]
  BY AllFound
<1>2. \A k \in Positions : Len(steps) + 1 - k \in Positions
  BY <1>1 DEF Positions
<1>3. \A k \in Positions : Reverse(found)[k] = found[Len(steps) - k + 1]
  BY <1>1 DEF Reverse, Positions
<1>4. \A k \in Positions : Len(steps) - k + 1 = Len(steps) + 1 - k
  BY <1>1 DEF Positions
<1>5. \A k \in Positions : Order[k] = steps[found[Len(steps) + 1 - k]].name
  BY <1>1, <1>3, <1>4 DEF Order
<1>6. Order \in [1 .. Len(steps) -> Names(steps)]
  <2>1. Names(steps) = {steps[i].name : i \in Positions}
    BY StepsFacts DEF SearchInv, SearchTypes
  <2>2. \A k \in Positions : Order[k] \in Names(steps)
    BY <1>1, <1>2, <1>5, <2>1
  <2>3. Order = [k \in Positions |-> Order[k]]
    BY <1>1 DEF Order
  <2> QED
    BY <2>2, <2>3 DEF Positions
<1>7. Order \in Seq(Names(steps)) /\ Len(Order) = Len(steps) /\ DOMAIN Order = Positions
  BY <1>1, <1>6 DEF Positions
<1> QED
  BY <1>2, <1>5, <1>7

LEMMA AcyclicPositions ==
  ASSUME steps \in StepLists, Acyclic
  PROVE  NoCycle
<1> SUFFICES ASSUME NEW S \in (SUBSET Positions) \ {{}}
             PROVE  \E j \in S : \A i \in S : ~ WaitsFor(j, i)
  BY DEF NoCycle
<1> DEFINE T == {steps[i].name : i \in S}
<1>1. T \in (SUBSET Names(steps)) \ {{}}
  <2>1. S \subseteq Positions /\ Names(steps) = {steps[i].name : i \in Positions}
    BY StepsFacts
  <2>2. T \subseteq Names(steps)
    BY <2>1
  <2>3. PICK j \in S : TRUE
    OBVIOUS
  <2>4. steps[j].name \in T
    BY <2>3
  <2> QED
    BY <2>2, <2>4
<1>2. PICK n \in T : Dependencies(n) \cap T = {}
  BY <1>1 DEF Acyclic
<1>3. PICK j \in S : n = steps[j].name
  OBVIOUS
<1>4. Dependencies(n) = GetDependencies(steps[j])
  BY <1>3, StepsFacts
<1> QED
  BY <1>2, <1>4 DEF WaitsFor

LEMMA SearchedIsTopological ==
  ASSUME SearchInv, Searched
  PROVE  /\ ToSet(Order) = Names(steps)
         /\ Acyclic => \A j, k \in DOMAIN Order : Order[j] \in Dependencies(Order[k]) => j < k
<1> DEFINE n == Len(steps)
<1>1. /\ n \in Nat /\ found \in [Positions -> Positions] /\ DOMAIN found = Positions
      /\ \A j \in Positions : \E k \in Positions : found[k] = j
  BY AllFound
<1>2. /\ DOMAIN Order = Positions
      /\ \A k \in Positions : n + 1 - k \in Positions /\ Order[k] = steps[found[n + 1 - k]].name
  BY OrderFacts
<1>3. /\ steps \in StepLists
      /\ Names(steps) = {steps[i].name : i \in Positions}
      /\ \A i \in Positions : Dependencies(steps[i].name) = GetDependencies(steps[i])
  BY StepsFacts DEF SearchInv, SearchTypes
<1>4. ToSet(Order) = Names(steps)
  <2>1. \A k \in Positions : Order[k] \in Names(steps)
    BY <1>1, <1>2, <1>3
  <2>2. ASSUME NEW i \in Positions PROVE \E k \in Positions : Order[k] = steps[i].name
    <3>1. PICK m \in Positions : found[m] = i
      BY <1>1
    <3>2. n + 1 - m \in Positions /\ n + 1 - (n + 1 - m) = m
      BY <1>1, <1>2 DEF Positions
    <3> QED
      BY <1>2, <3>1, <3>2
  <2>3. ToSet(Order) = {Order[k] : k \in Positions}
    BY <1>2 DEF ToSet
  <2>4. ToSet(Order) \subseteq Names(steps)
    BY <2>1, <2>3
  <2>5. Names(steps) \subseteq ToSet(Order)
    BY <1>3, <2>2, <2>3
  <2> QED
    BY <2>4, <2>5
<1>5. ASSUME Acyclic, NEW j \in Positions, NEW k \in Positions,
             Order[j] \in Dependencies(Order[k])
      PROVE  j < k
  <2> DEFINE a == n + 1 - j
             b == n + 1 - k
  <2>1. a \in Positions /\ b \in Positions /\ found[a] \in Positions /\ found[b] \in Positions
    BY <1>1, <1>2
  <2>2. WaitsFor(found[b], found[a])
    BY <1>2, <1>3, <1>5, <2>1 DEF WaitsFor
  <2>3. NoCycle
    BY <1>3, <1>5, AcyclicPositions
  <2>4. PICK m \in 1 .. a - 1 : found[m] = found[b]
    BY <1>1, <2>1, <2>2, <2>3 DEF SearchInv, FollowersFirst
  <2>5. m \in Positions /\ m < a
    <3>1. a \in 1 .. n
      BY <2>1 DEF Positions
    <3> HIDE DEF a
    <3>2. m \in 1 .. n /\ m < a
      BY <1>1, <3>1
    <3> QED
      BY <3>2 DEF Positions
  <2>6. m = b
    BY <1>1, <2>1, <2>4, <2>5 DEF SearchInv, SearchTypes, IsInjective
  <2> QED
    BY <1>1, <2>5, <2>6 DEF Positions
<1> QED
  BY <1>2, <1>4, <1>5

-----------------------------------------------------------------------------
(***************************************************************************)
(* Steps that do not depend on each other.                                 *)
(***************************************************************************)

NoneWaits == \A i, j \in Positions : ~ WaitsFor(j, i)

\* Then the calls of dfs are not nested, and the steps are found from the last to the first.
FoundBackwards ==
  NoneWaits =>
    /\ Len(calls) <= 1 /\ Len(found) + Len(calls) = Len(steps) - remaining[Root]
    /\ calls # <<>> => calls[1] = remaining[Root] + 1
    /\ \A k \in DOMAIN found : found[k] = Len(steps) + 1 - k

LEMMA FoundBackwardsBegins == SearchInit => FoundBackwards
<1> SUFFICES ASSUME SearchInit PROVE FoundBackwards
  OBVIOUS
<1>1. Len(steps) \in Nat
  BY StepsFacts DEF SearchInit
<1>2. calls = <<>> /\ found = <<>> /\ remaining[Root] = Len(steps) /\ DOMAIN found = {}
  BY DEF SearchInit
<1> QED
  BY <1>1, <1>2 DEF FoundBackwards

LEMMA FoundBackwardsVisit ==
  ASSUME SearchInv, FoundBackwards, Visit
  PROVE  FoundBackwards'
<1> SUFFICES ASSUME NoneWaits PROVE FoundBackwards'
  BY DEF FoundBackwards, NoneWaits, Visit, Positions, WaitsFor
<1>1. PICK j \in ToVisit :
        /\ \A k \in ToVisit : k <= j
        /\ remaining' = [remaining EXCEPT ![Caller] = j - 1]
        /\ IF Entered(j)
             THEN UNCHANGED <<used, calls>>
             ELSE used' = used \cup {j} /\ calls' = Append(calls, j)
  BY DEF Visit
<1>2. UNCHANGED <<steps, found>>
  BY DEF Visit
<1>3. /\ calls \in Seq(Positions) /\ found \in Seq(Positions)
      /\ remaining \in [{Root} \cup Positions -> 0 .. Len(steps)]
      /\ Len(steps) \in Nat /\ Root \notin Positions
  BY StepsFacts DEF SearchInv, SearchTypes
<1>4. /\ Len(calls) <= 1 /\ Len(found) + Len(calls) = Len(steps) - remaining[Root]
      /\ \A k \in DOMAIN found : found[k] = Len(steps) + 1 - k
  BY DEF FoundBackwards
<1>5. j \in Positions /\ Follows(Caller, j)
  BY <1>1, <1>2, VisitFacts
<1>6. Caller = Root
  <2>1. Caller \in {Root} \cup Positions
    BY CallerFacts
  <2> QED
    BY <1>5, <2>1 DEF NoneWaits, WaitsFor, Follows
<1>7. calls = <<>>
  BY <1>3, <1>6, CallerFacts DEF ToSet
<1>8. j = remaining[Root]
  <2>1. ToVisit = 1 .. remaining[Root]
    BY <1>6 DEF ToVisit, Follows
  <2>2. remaining[Root] \in 0 .. Len(steps)
    BY <1>3
  <2>3. remaining[Root] \in 1 .. remaining[Root]
    BY <1>1, <1>3, <2>1, <2>2
  <2>4. j \in 1 .. remaining[Root] /\ remaining[Root] <= j
    BY <1>1, <2>1, <2>3
  <2> QED
    BY <2>2, <2>4
<1>9. ~ Entered(j)
  <2>1. ASSUME NEW k \in DOMAIN found, found[k] = j PROVE FALSE
    <3>1. k \in 1 .. Len(found) /\ Len(found) \in Nat /\ Len(calls) = 0
      BY <1>3, <1>7, <2>1
    <3>2. j \in 1 .. Len(steps)
      BY <1>5 DEF Positions
    <3> QED
      BY <1>3, <1>4, <1>8, <2>1, <3>1, <3>2
  <2>2. used = ToSet(calls) \cup ToSet(found)
    BY DEF SearchInv, Marks
  <2> QED
    BY <1>7, <2>1, <2>2 DEF Entered, ToSet
<1>10. calls' = <<j>> /\ Len(calls') = 1 /\ calls'[1] = j
  BY <1>1, <1>7, <1>9
<1>11. remaining'[Root] = j - 1
  BY <1>1, <1>3, <1>6
<1>12. Len(found') + Len(calls') = Len(steps') - remaining'[Root]
  BY <1>2, <1>3, <1>4, <1>7, <1>8, <1>10, <1>11
<1>13. calls'[1] = remaining'[Root] + 1
  BY <1>5, <1>10, <1>11 DEF Positions
<1> QED
  BY <1>2, <1>4, <1>10, <1>12, <1>13 DEF FoundBackwards, Root

LEMMA FoundBackwardsReturn ==
  ASSUME SearchInv, FoundBackwards, Return
  PROVE  FoundBackwards'
<1> SUFFICES ASSUME NoneWaits PROVE FoundBackwards'
  BY DEF FoundBackwards, NoneWaits, Return, Positions, WaitsFor
<1>1. /\ calls # <<>> /\ UNCHANGED <<steps, used, remaining>>
      /\ found' = Append(found, Last(calls)) /\ calls' = Front(calls)
  BY DEF Return
<1>2. /\ calls \in Seq(Positions) /\ found \in Seq(Positions)
      /\ remaining[Root] \in 0 .. Len(steps) /\ Len(steps) \in Nat
  BY StepsFacts DEF SearchInv, SearchTypes
<1>3. /\ Len(calls) <= 1 /\ Len(found) + Len(calls) = Len(steps) - remaining[Root]
      /\ calls[1] = remaining[Root] + 1
      /\ \A k \in DOMAIN found : found[k] = Len(steps) + 1 - k
  BY <1>1 DEF FoundBackwards
<1>4. Len(calls) = 1 /\ Last(calls) = calls[1] /\ calls[1] \in Positions
  <2>1. Len(calls) \in Nat \ {0} /\ DOMAIN calls = 1 .. Len(calls)
    BY <1>1, <1>2, CallerFacts
  <2>2. Len(calls) = 1
    BY <1>3, <2>1
  <2>3. 1 \in 1 .. Len(calls)
    BY <2>1, <2>2
  <2>4. calls[1] \in Positions
    BY <1>2, <2>1, <2>3
  <2>5. Last(calls) = calls[1]
    BY <2>2 DEF Last
  <2> QED
    BY <2>2, <2>4, <2>5
<1>5. calls' = <<>> /\ Len(calls') = 0
  BY <1>1, <1>4 DEF Front
<1>6. /\ Len(found') = Len(found) + 1 /\ DOMAIN found' = 1 .. Len(found) + 1
      /\ Len(found) \in Nat /\ DOMAIN found = 1 .. Len(found)
      /\ found'[Len(found) + 1] = calls[1] /\ \A k \in 1 .. Len(found) : found'[k] = found[k]
  BY <1>1, <1>2, <1>4
<1>7. ASSUME NEW k \in DOMAIN found' PROVE found'[k] = Len(steps) + 1 - k
  <2>1. CASE k \in 1 .. Len(found)
    BY <1>3, <1>6, <2>1
  <2>2. CASE k = Len(found) + 1
    BY <1>2, <1>3, <1>4, <1>6, <2>2
  <2> QED
    BY <1>6, <2>1, <2>2
<1>8. Len(found') + Len(calls') = Len(steps') - remaining'[Root]
  BY <1>1, <1>2, <1>3, <1>4, <1>5, <1>6
<1> QED
  BY <1>1, <1>5, <1>7, <1>8 DEF FoundBackwards, Root

LEMMA FoundBackwardsKept ==
  ASSUME SearchInv, FoundBackwards, [Visit \/ Return]_searchVars
  PROVE  FoundBackwards'
<1>1. CASE UNCHANGED searchVars
  BY <1>1 DEF searchVars, FoundBackwards, NoneWaits, Positions, WaitsFor, Root
<1> QED
  BY <1>1, FoundBackwardsVisit, FoundBackwardsReturn

LEMMA SearchedIsStable ==
  ASSUME SearchInv, FoundBackwards, Searched, \A n \in Names(steps) : Dependencies(n) = {}
  PROVE  \A k \in DOMAIN Order : Order[k] = steps[k].name
<1>1. /\ Names(steps) = {steps[i].name : i \in Positions}
      /\ \A i \in Positions : Dependencies(steps[i].name) = GetDependencies(steps[i])
  BY StepsFacts DEF SearchInv, SearchTypes
<1>2. NoneWaits
  BY <1>1 DEF NoneWaits, WaitsFor
<1>3. Len(steps) \in Nat /\ DOMAIN found = Positions
  BY AllFound
<1>4. /\ DOMAIN Order = Positions
      /\ \A k \in Positions : /\ Len(steps) + 1 - k \in Positions
                              /\ Order[k] = steps[found[Len(steps) + 1 - k]].name
  BY OrderFacts
<1>5. ASSUME NEW k \in Positions PROVE found[Len(steps) + 1 - k] = k
  <2>1. found[Len(steps) + 1 - k] = Len(steps) + 1 - (Len(steps) + 1 - k)
    BY <1>2, <1>3, <1>4 DEF FoundBackwards
  <2> QED
    BY <1>3, <2>1 DEF Positions
<1> QED
  BY <1>4, <1>5

-----------------------------------------------------------------------------
(***************************************************************************)
(* The graph that newGraph has built.                                      *)
(***************************************************************************)

BuiltInv ==
  /\ built \in BOOLEAN
  /\ IF built THEN Searched /\ topSortOrder = Order
              ELSE topSortOrder = <<>> /\ lastPickedStep = -1 /\ doneSteps = {}

\* A step has been picked after all it depends on: its dependencies are done, and
\* stand before it in the order.
PickedAfterDependencies ==
  \A k \in 1 .. lastPickedStep + 1 :
    /\ Dependencies(topSortOrder[k]) \subseteq doneSteps
    /\ Dependencies(topSortOrder[k]) \subseteq {topSortOrder[j] : j \in 1 .. k - 1}

PickedInv ==
  /\ lastPickedStep \in Int /\ lastPickedStep >= -1
  /\ lastPickedStep <= Len(topSortOrder) - 1
  /\ doneSteps \subseteq Picked
  /\ PickedAfterDependencies

GraphInv == SearchInv /\ FoundBackwards /\ BuiltInv /\ PickedInv

LEMMA GraphBegins == Init => GraphInv
<1> SUFFICES ASSUME Init PROVE GraphInv
  OBVIOUS
<1>1. SearchInv /\ FoundBackwards
  BY SearchBegins, FoundBackwardsBegins DEF Init
<1>2. BuiltInv
  BY DEF Init, BuiltInv
<1>3. PickedInv
  BY DEF Init, PickedInv, Picked, PickedAfterDependencies
<1> QED
  BY <1>1, <1>2, <1>3 DEF GraphInv

LEMMA OrderTyped ==
  ASSUME SearchInv, BuiltInv
  PROVE  topSortOrder \in Seq(Names(steps)) /\ Len(topSortOrder) \in Nat
<1>1. CASE built
  BY <1>1, OrderFacts DEF BuiltInv
<1>2. CASE ~ built
  BY <1>2 DEF BuiltInv
<1> QED
  BY <1>1, <1>2

\* What the built graph says of its steps is settled once the walk has ended.
LEMMA SearchOver == Searched => ~ Visit /\ ~ Return
  BY DEF Searched, LoopEnds, Visit, Return

LEMMA PickedUntouched ==
  ASSUME PickedInv, UNCHANGED <<steps, topSortOrder, lastPickedStep, doneSteps>>
  PROVE  PickedInv'
<1>1. Picked' = Picked /\ \A n : Dependencies(n)' = Dependencies(n)
  BY DEF Picked, Dependencies
<1>2. PickedAfterDependencies'
  <2>1. ASSUME NEW k \in 1 .. lastPickedStep + 1
        PROVE  /\ Dependencies(topSortOrder[k])' \subseteq doneSteps
               /\ Dependencies(topSortOrder[k])' \subseteq {topSortOrder[j] : j \in 1 .. k - 1}
    <3>1. Dependencies(topSortOrder[k])' = Dependencies(topSortOrder[k])
      BY DEF Dependencies
    <3> QED
      BY <3>1 DEF PickedInv, PickedAfterDependencies
  <2> QED
    BY <2>1 DEF PickedAfterDependencies
<1> QED
  BY <1>1, <1>2 DEF PickedInv

LEMMA SearchKeeps ==
  ASSUME GraphInv, Search
  PROVE  GraphInv'
<1>1. Visit \/ Return
  BY DEF Search
<1>2. UNCHANGED <<steps, built, topSortOrder, lastPickedStep, doneSteps>>
  BY DEF Search, Visit, Return
<1>3. SearchInv' /\ FoundBackwards'
  BY <1>1, SearchKept, FoundBackwardsKept DEF GraphInv
<1>4. ~ built
  BY <1>1, SearchOver DEF GraphInv, BuiltInv
<1>5. BuiltInv'
  BY <1>2, <1>4 DEF GraphInv, BuiltInv
<1>6. PickedInv'
  BY <1>2, PickedUntouched DEF GraphInv
<1> QED
  BY <1>3, <1>5, <1>6 DEF GraphInv

\* The other steps leave the walk alone.
LEMMA SearchUntouched ==
  ASSUME GraphInv, UNCHANGED searchVars
  PROVE  SearchInv' /\ FoundBackwards' /\ Searched' = Searched /\ Order' = Order
<1>1. SearchInv' /\ FoundBackwards'
  BY SearchKept, FoundBackwardsKept DEF GraphInv
<1>2. UNCHANGED <<steps, calls, remaining, found>>
  BY DEF searchVars
<1>3. Caller' = Caller /\ \A i, j : Follows(i, j)' = Follows(i, j)
  BY <1>2 DEF Caller, Follows
<1>4. ToVisit' = ToVisit
  BY <1>2, <1>3 DEF ToVisit, Follows
<1>5. Searched' = Searched
  BY <1>2, <1>4 DEF Searched, LoopEnds
<1>6. Order' = Order
  BY <1>2 DEF Order
<1> QED
  BY <1>1, <1>5, <1>6

LEMMA NewGraphKeeps ==
  ASSUME GraphInv, NewGraph
  PROVE  GraphInv'
<1>1. /\ ~ built /\ Searched /\ built' = TRUE /\ topSortOrder' = Order
      /\ UNCHANGED <<searchVars, lastPickedStep, doneSteps>>
  BY DEF NewGraph
<1>2. SearchInv' /\ FoundBackwards' /\ Searched' = Searched /\ Order' = Order
  BY <1>1, SearchUntouched
<1>3. lastPickedStep = -1 /\ doneSteps = {}
  BY <1>1 DEF GraphInv, BuiltInv
<1>4. BuiltInv'
  BY <1>1, <1>2 DEF BuiltInv
<1>5. Len(topSortOrder') \in Nat
  BY <1>1, OrderFacts DEF GraphInv
<1>6. PickedInv'
  <2>1. lastPickedStep' = -1 /\ doneSteps' = {} /\ 1 .. lastPickedStep' + 1 = {}
    BY <1>1, <1>3
  <2> QED
    BY <1>5, <2>1 DEF PickedInv, PickedAfterDependencies
<1> QED
  BY <1>2, <1>4, <1>6 DEF GraphInv

LEMMA PickStepsKeeps ==
  ASSUME PickedInv, BuiltInv, SearchInv, PickSteps
  PROVE  PickedInv'
<1>1. PICK last \in lastPickedStep .. Len(topSortOrder) - 1 :
        /\ \A k \in lastPickedStep + 2 .. last + 1 : CanPick(topSortOrder[k])
        /\ lastPickedStep' = last
  BY DEF PickSteps
<1>2. UNCHANGED <<steps, built, topSortOrder, doneSteps>>
  BY DEF PickSteps, searchVars
<1>3. /\ lastPickedStep \in Int /\ last \in Int /\ lastPickedStep >= -1
      /\ last >= lastPickedStep /\ last <= Len(topSortOrder) - 1
  BY OrderTyped DEF PickedInv
<1>4. \A k \in 1 .. lastPickedStep + 1 : k \in 1 .. last + 1
  BY <1>3
<1>5. doneSteps' \subseteq Picked'
  BY <1>1, <1>2, <1>4 DEF PickedInv, Picked
<1>6. ASSUME NEW k \in 1 .. last + 1
      PROVE  /\ Dependencies(topSortOrder[k]) \subseteq doneSteps
             /\ Dependencies(topSortOrder[k]) \subseteq {topSortOrder[j] : j \in 1 .. k - 1}
  <2>1. CASE k \in 1 .. lastPickedStep + 1
    BY <2>1 DEF PickedInv, PickedAfterDependencies
  <2>2. CASE k \notin 1 .. lastPickedStep + 1
    <3>1. k \in lastPickedStep + 2 .. last + 1
      BY <1>3, <2>2
    <3>2. Dependencies(topSortOrder[k]) \subseteq doneSteps
      BY <1>1, <3>1 DEF CanPick
    <3>3. \A j \in 1 .. lastPickedStep + 1 : j \in 1 .. k - 1
      BY <1>3, <3>1
    <3>4. doneSteps \subseteq {topSortOrder[j] : j \in 1 .. k - 1}
      BY <3>3 DEF PickedInv, Picked
    <3> QED
      BY <3>2, <3>4
  <2> QED
    BY <2>1, <2>2
<1>7. PickedAfterDependencies'
  <2>1. topSortOrder' = topSortOrder /\ doneSteps' = doneSteps
    BY <1>2
  <2>2. ASSUME NEW k \in 1 .. lastPickedStep' + 1
        PROVE  /\ Dependencies(topSortOrder[k])' \subseteq doneSteps'
               /\ Dependencies(topSortOrder[k])' \subseteq {topSortOrder[j] : j \in 1 .. k - 1}'
    <3>1. Dependencies(topSortOrder[k])' = Dependencies(topSortOrder[k])
      BY <1>2 DEF Dependencies
    <3>2. k \in 1 .. last + 1
      BY <1>1
    <3> QED
      BY <1>6, <2>1, <3>1, <3>2
  <2> QED
    BY <2>2 DEF PickedAfterDependencies
<1> QED
  BY <1>1, <1>2, <1>3, <1>5, <1>7 DEF PickedInv

LEMMA DoneStepKeeps ==
  ASSUME PickedInv, BuiltInv, SearchInv, NEW n \in Picked, DoneStep(n)
  PROVE  PickedInv'
<1>1. UNCHANGED <<steps, built, topSortOrder, lastPickedStep>> /\ doneSteps' = doneSteps \cup {n}
  BY DEF DoneStep, searchVars
<1>2. Picked' = Picked /\ \A m : Dependencies(m)' = Dependencies(m)
  BY <1>1 DEF Picked, Dependencies
<1>3. PickedAfterDependencies'
  BY <1>1, <1>2 DEF PickedInv, PickedAfterDependencies
<1> QED
  BY <1>1, <1>2, <1>3 DEF PickedInv


LEMMA GraphKept == GraphInv /\ [Next]_graphVars => GraphInv'
<1>1. ASSUME GraphInv, built, UNCHANGED <<searchVars, built, topSortOrder>>, PickedInv'
      PROVE  GraphInv'
  <2>1. SearchInv' /\ FoundBackwards' /\ Searched' = Searched /\ Order' = Order
    BY <1>1, SearchUntouched
  <2>2. BuiltInv'
    BY <1>1, <2>1 DEF GraphInv, BuiltInv
  <2> QED
    BY <1>1, <2>1, <2>2 DEF GraphInv
<1>2. ASSUME GraphInv, PickSteps PROVE GraphInv'
  <2>1. built /\ UNCHANGED <<searchVars, built, topSortOrder>>
    BY <1>2 DEF PickSteps
  <2>2. PickedInv'
    BY <1>2, PickStepsKeeps DEF GraphInv
  <2> QED
    BY <1>1, <1>2, <2>1, <2>2
<1>3. ASSUME GraphInv, NEW n \in Picked, DoneStep(n) PROVE GraphInv'
  <2>1. UNCHANGED <<searchVars, built, topSortOrder>> /\ n \in Picked
    BY <1>3 DEF DoneStep
  <2>2. built
    <3>1. CASE ~ built
      <4>1. 1 .. lastPickedStep + 1 = {}
        BY <1>3, <3>1 DEF GraphInv, BuiltInv
      <4> QED
        BY <2>1, <4>1 DEF Picked
    <3> QED
      BY <3>1
  <2>3. PickedInv'
    BY <1>3, DoneStepKeeps DEF GraphInv
  <2> QED
    BY <1>1, <1>3, <2>1, <2>2, <2>3
<1>4. ASSUME GraphInv, UNCHANGED graphVars PROVE GraphInv'
  <2>1. UNCHANGED <<searchVars, built, topSortOrder, lastPickedStep, doneSteps>>
    BY <1>4 DEF graphVars
  <2>2. SearchInv' /\ FoundBackwards' /\ Searched' = Searched /\ Order' = Order
    BY <1>4, <2>1, SearchUntouched
  <2>3. BuiltInv'
    BY <1>4, <2>1, <2>2 DEF GraphInv, BuiltInv
  <2>4. steps' = steps
    BY <2>1 DEF searchVars
  <2>5. PickedInv'
    BY <1>4, <2>1, <2>4, PickedUntouched DEF GraphInv
  <2> QED
    BY <2>2, <2>3, <2>5 DEF GraphInv
<1> QED
  BY <1>2, <1>3, <1>4, SearchKeeps, NewGraphKeeps DEF Next

\* The walk of newGraph enters every step once, has no step at work twice and, without
\* cycles, appends it after all that wait for it; a graph once built does not change its
\* order, and pickSteps hands a step out after everything it depends on was done, and
\* hence picked before it.
THEOREM GraphInvariant == Spec => []GraphInv
  BY GraphBegins, GraphKept, PTL DEF Spec

\* The variables of the graph keep their types: the stack of dfs never holds a step
\* twice, and lastPickedStep never passes the end of the order.
THEOREM TypeCorrect == Spec => []TypeOK
<1>1. GraphInv => TypeOK
  <2> SUFFICES ASSUME GraphInv PROVE TypeOK
    OBVIOUS
  <2>1. topSortOrder \in Seq(Names(steps)) /\ Len(topSortOrder) \in Nat
    BY OrderTyped DEF GraphInv
  <2>2. lastPickedStep \in -1 .. Len(topSortOrder) - 1
    BY <2>1 DEF GraphInv, PickedInv
  <2>3. \A k \in 1 .. lastPickedStep + 1 : topSortOrder[k] \in Names(steps)
    BY <2>1 DEF GraphInv, PickedInv
  <2>4. doneSteps \subseteq Names(steps)
    BY <2>3 DEF GraphInv, PickedInv, Picked
  <2> QED
    BY <2>1, <2>2, <2>4 DEF TypeOK, GraphInv, SearchInv, SearchTypes, BuiltInv
<1> QED
  BY <1>1, GraphInvariant, PTL

\* For every list of steps that the API has accepted, newGraph returns an order that
\* holds every step exactly once and, when the dependencies have no cycle, puts each
\* step after those it depends on.
THEOREM TopologicalAlways == Spec => []OrderIsTopological
<1>1. GraphInv => OrderIsTopological
  BY OrderFacts, SearchedIsTopological DEF GraphInv, BuiltInv, OrderIsTopological
<1> QED
  BY <1>1, GraphInvariant, PTL

\* Steps that do not depend on each other are ordered as the request lists them: the
\* loops of newGraph and topSort go backwards, and slices.Reverse turns them round.
THEOREM StableAlways == Spec => []OrderIsStable
<1>1. GraphInv => OrderIsStable
  BY SearchedIsStable DEF GraphInv, BuiltInv, OrderIsStable
<1> QED
  BY <1>1, GraphInvariant, PTL

LEMMA FirstPosition ==
  ASSUME NEW S \in SUBSET (Nat \ {0}), S # {}
  PROVE  \E k \in S : \A j \in S : k <= j
<1> DEFINE T == {1 .. k : k \in S}
<1>1. T \subseteq FiniteSubsetsOf(Nat) /\ T # {}
  <2>1. ASSUME NEW k \in S PROVE 1 .. k \in FiniteSubsetsOf(Nat)
    <3>1. k \in Int /\ 1 \in Int /\ 1 .. k \subseteq Nat
      OBVIOUS
    <3>2. IsFiniteSet(1 .. k)
      BY <3>1, FS_Interval
    <3> QED
      BY <3>1, <3>2 DEF FiniteSubsetsOf
  <2> QED
    BY <2>1
<1>2. PICK x \in T : \A y \in T : <<y, x>> \notin StrictSubsetOrdering(Nat)
  BY <1>1, FS_StrictSubsetOrderingWellFounded, WFMin
<1>3. PICK k \in S : x = 1 .. k
  BY <1>2
<1>4. ASSUME NEW j \in S, j < k PROVE FALSE
  <2>1. 1 .. j \in T /\ 1 .. j \subseteq 1 .. k /\ k \in 1 .. k /\ k \notin 1 .. j
    BY <1>4
  <2>2. <<1 .. j, 1 .. k>> \in StrictSubsetOrdering(Nat)
    BY <2>1 DEF StrictSubsetOrdering
  <2> QED
    BY <1>2, <1>3, <2>1, <2>2
<1> QED
  BY <1>4

\* An execution all of whose steps were done had no cycle and no unknown name among
\* its dependencies: the graph never lets a step of a cycle through, and the first
\* step of any set in the order waits for none of the others.
THEOREM OnlyAcyclicAlways == Spec => []OnlyAcyclicWorkedOff
<1>1. GraphInv => OnlyAcyclicWorkedOff
  <2> SUFFICES ASSUME PickedInv, doneSteps = Names(steps) PROVE Known /\ Acyclic
    BY DEF GraphInv, OnlyAcyclicWorkedOff
  <2>1. \A n \in Names(steps) : \E k \in 1 .. lastPickedStep + 1 : n = topSortOrder[k]
    BY DEF PickedInv, Picked
  <2>2. Known
    BY <2>1 DEF Known, PickedInv, PickedAfterDependencies
  <2>3. ASSUME NEW S \in (SUBSET Names(steps)) \ {{}}
        PROVE  \E n \in S : Dependencies(n) \cap S = {}
    <3> DEFINE At == {k \in 1 .. lastPickedStep + 1 : topSortOrder[k] \in S}
    <3>1. At \in SUBSET (Nat \ {0}) /\ At # {}
      <4>1. PICK n \in S : n \in Names(steps)
        <5>1. S \in SUBSET Names(steps) /\ S # {}
          BY <2>3
        <5> QED
          BY <5>1
      <4>2. \E k \in 1 .. lastPickedStep + 1 : n = topSortOrder[k]
        BY <2>1, <4>1
      <4>3. 1 .. lastPickedStep + 1 \subseteq Nat \ {0}
        BY DEF PickedInv
      <4> QED
        BY <4>1, <4>2, <4>3
    <3>2. PICK k \in At : \A j \in At : k <= j
      BY <3>1, FirstPosition
    <3>3. ASSUME NEW m \in Dependencies(topSortOrder[k]) PROVE m \notin S
      <4>1. PICK j \in 1 .. k - 1 : m = topSortOrder[j]
        BY <3>3 DEF PickedInv, PickedAfterDependencies
      <4>2. j \in 1 .. lastPickedStep + 1 /\ j < k
        BY <4>1 DEF PickedInv
      <4> QED
        BY <3>2, <4>1, <4>2
    <3> QED
      BY <3>3
  <2> QED
    BY <2>2, <2>3 DEF Acyclic
<1> QED
  BY <1>1, GraphInvariant, PTL

\* Handing out only a prefix of the order does not get stuck: when everything picked
\* is done and not everything is picked, the next step in the order can be picked.
THEOREM NextCanBePicked ==
  ASSUME TypeOK, OrderIsTopological, built, Known, Acyclic, Picked \subseteq doneSteps, ~ IsDone
  PROVE  CanPick(topSortOrder[lastPickedStep + 2])
<1> DEFINE next == lastPickedStep + 2
<1>1. topSortOrder \in Seq(Names(steps)) /\ next \in DOMAIN topSortOrder
  BY DEF TypeOK, IsDone
<1>2. topSortOrder[next] \in Names(steps)
  BY <1>1
<1>3. ASSUME NEW m \in Dependencies(topSortOrder[next]) PROVE m \in doneSteps
  <2>1. m \in Names(steps)
    BY <1>2 DEF Known
  <2>2. PICK j \in DOMAIN topSortOrder : topSortOrder[j] = m
    BY <2>1 DEF OrderIsTopological, ToSet
  <2>3. j < next
    BY <1>1, <2>2 DEF OrderIsTopological
  <2>4. j \in 1 .. lastPickedStep + 1
    BY <1>1, <2>2, <2>3 DEF TypeOK
  <2> QED
    BY <2>2, <2>4 DEF Picked
<1> QED
  BY <1>3 DEF CanPick

-----------------------------------------------------------------------------
(***************************************************************************)
(* The graph is worked off: what remains when nothing can move, and that   *)
(* everything moves towards its end.                                       *)
(***************************************************************************)

\* newGraph has returned, what was picked is done, and pickSteps would return nothing.
AtRest ==
  /\ Searched /\ built
  /\ Picked \subseteq doneSteps
  /\ ~ IsDone => ~ CanPick(topSortOrder[lastPickedStep + 2])

WorkedOffAtRest == AtRest /\ Known /\ Acyclic => doneSteps = Names(steps)

\* Handing out a prefix of the order is enough: a graph without cycles and unknown names
\* comes to rest only when all its steps are done.
THEOREM RestMeansWorkedOff == Spec => []WorkedOffAtRest
<1>1. GraphInv /\ TypeOK /\ OrderIsTopological => WorkedOffAtRest
  <2> SUFFICES ASSUME GraphInv, TypeOK, OrderIsTopological, AtRest, Known, Acyclic
               PROVE  doneSteps = Names(steps)
    BY DEF WorkedOffAtRest
  <2>1. IsDone
    BY NextCanBePicked DEF AtRest
  <2>2. Picked = ToSet(topSortOrder)
    BY <2>1 DEF IsDone, Picked, ToSet, TypeOK
  <2>3. Picked = Names(steps)
    BY <2>2 DEF AtRest, OrderIsTopological
  <2> QED
    BY <2>3 DEF AtRest, TypeOK
<1> QED
  BY <1>1, GraphInvariant, TypeCorrect, TopologicalAlways, PTL

\* The iterations that the loops of dfs and of topSort have before them, and the calls
\* that have not returned.
Iterations == {p \in ({Root} \cup Positions) \X Positions : p[2] <= remaining[p[1]]}
Unreturned == Positions \ ToSet(found)

\* Each step ends an iteration or a call, builds the graph, picks a step or marks one done,
\* and none of these is ever taken back.
GraphRunsOut ==
  /\ Iterations' \subseteq Iterations /\ Unreturned' \subseteq Unreturned /\ (built => built')
  /\ lastPickedStep <= lastPickedStep' /\ doneSteps \subseteq doneSteps'
  /\ \/ Iterations' # Iterations
     \/ Unreturned' # Unreturned
     \/ ~ built /\ built'
     \/ lastPickedStep < lastPickedStep'
     \/ doneSteps' # doneSteps
     \/ UNCHANGED graphVars

LEMMA VisitRunsOut ==
  ASSUME SearchInv, Visit
  PROVE  Iterations' \subseteq Iterations /\ Iterations' # Iterations /\ Unreturned' = Unreturned
<1>1. PICK j \in ToVisit : remaining' = [remaining EXCEPT ![Caller] = j - 1]
  BY DEF Visit
<1>2. UNCHANGED <<steps, found>>
  BY DEF Visit
<1>3. /\ remaining \in [{Root} \cup Positions -> 0 .. Len(steps)] /\ Len(steps) \in Nat
      /\ Caller \in {Root} \cup Positions
  BY StepsFacts, CallerFacts DEF SearchInv, SearchTypes
<1>4. j \in 1 .. remaining[Caller] /\ j \in Positions
  BY <1>1, <1>3 DEF ToVisit, Positions
<1>5. Positions' = Positions
  BY <1>2 DEF Positions
<1>6. \A i \in {Root} \cup Positions : remaining'[i] <= remaining[i]
  <2>1. ASSUME NEW i \in {Root} \cup Positions PROVE remaining'[i] <= remaining[i]
    <3>1. remaining[i] \in Int /\ j \in Int
      BY <1>3, <1>4
    <3>2. remaining'[i] = IF i = Caller THEN j - 1 ELSE remaining[i]
      BY <1>1, <1>3
    <3> QED
      BY <1>4, <3>1, <3>2
  <2> QED
    BY <2>1
<1>7. Iterations' \subseteq Iterations
  <2> SUFFICES ASSUME NEW i \in {Root} \cup Positions, NEW k \in Positions, k <= remaining'[i]
               PROVE  k <= remaining[i]
    BY <1>5 DEF Iterations
  <2>1. k \in Int /\ remaining[i] \in Int /\ remaining'[i] \in Int
    BY <1>1, <1>3, <1>4 DEF Positions
  <2> QED
    BY <1>6, <2>1
<1>8. <<Caller, j>> \in Iterations /\ <<Caller, j>> \notin Iterations'
  <2>1. j <= remaining[Caller] /\ ~ (j <= remaining'[Caller])
    BY <1>1, <1>3, <1>4
  <2> QED
    BY <1>3, <1>4, <2>1 DEF Iterations
<1> QED
  BY <1>2, <1>5, <1>7, <1>8 DEF Unreturned

LEMMA ReturnRunsOut ==
  ASSUME SearchInv, Return
  PROVE  Iterations' = Iterations /\ Unreturned' \subseteq Unreturned /\ Unreturned' # Unreturned
<1>1. calls # <<>> /\ found' = Append(found, Last(calls)) /\ UNCHANGED <<steps, remaining>>
  BY DEF Return
<1>2. calls \in Seq(Positions) /\ found \in Seq(Positions) /\ ToSet(calls) \cap ToSet(found) = {}
  BY DEF SearchInv, SearchTypes, Marks
<1>3. Last(calls) \in Positions /\ Last(calls) \in ToSet(calls)
  BY <1>1, <1>2 DEF Last, ToSet
<1>4. ToSet(found') = ToSet(found) \cup {Last(calls)}
  BY <1>1, <1>2, <1>3, Appended
<1>5. Positions' = Positions /\ Iterations' = Iterations
  BY <1>1 DEF Positions, Iterations
<1> QED
  BY <1>2, <1>3, <1>4, <1>5 DEF Unreturned

\* newGraph returns for every list of steps, cycles included, and nothing in a graph goes
\* on for ever: with RestMeansWorkedOff the safety part of WorkedOff.
THEOREM GraphRunsOutAlways == Spec => [][GraphRunsOut]_graphVars
<1>1. GraphInv /\ [Next]_graphVars => GraphRunsOut
  <2> SUFFICES ASSUME GraphInv, [Next]_graphVars PROVE GraphRunsOut
    OBVIOUS
  <2>1. lastPickedStep \in Int
    BY DEF GraphInv, PickedInv
  <2>2. UNCHANGED searchVars => Iterations' = Iterations /\ Unreturned' = Unreturned
    BY DEF searchVars, Iterations, Unreturned, Positions
  <2>3. CASE Search
    BY <2>1, <2>3, VisitRunsOut, ReturnRunsOut DEF Search, GraphInv, GraphRunsOut
  <2>4. CASE NewGraph
    BY <2>1, <2>2, <2>4 DEF NewGraph, GraphRunsOut
  <2>5. CASE PickSteps
    <3>1. UNCHANGED <<searchVars, built, topSortOrder, doneSteps>>
      BY <2>5 DEF PickSteps
    <3>2. lastPickedStep' \in lastPickedStep .. Len(topSortOrder) - 1
      BY <2>5 DEF PickSteps
    <3>3. Len(topSortOrder) \in Int
      BY OrderTyped DEF GraphInv
    <3>4. lastPickedStep <= lastPickedStep' /\ (lastPickedStep < lastPickedStep' \/ lastPickedStep' = lastPickedStep)
      BY <2>1, <3>2, <3>3
    <3> QED
      BY <2>2, <3>1, <3>4 DEF GraphRunsOut, graphVars
  <2>6. ASSUME NEW n \in Picked, DoneStep(n) PROVE GraphRunsOut
    BY <2>1, <2>2, <2>6 DEF DoneStep, GraphRunsOut
  <2>7. CASE UNCHANGED graphVars
    BY <2>1, <2>2, <2>7 DEF graphVars, GraphRunsOut
  <2> QED
    BY <2>3, <2>4, <2>5, <2>6, <2>7 DEF Next
<1> QED
  BY <1>1, GraphInvariant, PTL DEF Spec

-----------------------------------------------------------------------------
(***************************************************************************)
(* What topSort and dfs compute as a recursive function.  TLA+ does not say *)
(* that there is one: Size is what every round makes smaller.              *)
(***************************************************************************)

\* One round of the loop over s.left, when f says what the rounds after it make of a search.
Round(list, f, s) ==
  LET j == NextOf(s.left)
      rest == s.left \ {j}
      inner == f[SearchAt(s.used \cup {j}, s.order, SuccSteps(list, j))]
  IN  IF s.left = {} THEN s
      ELSE IF j \in s.used THEN f[SearchAt(s.used, s.order, rest)]
      ELSE f[SearchAt(inner.used, Append(inner.order, j), rest)]

\* A bound for the rounds to come: a nested loop has more to look at, but one step less
\* that is not used.
Size(list, s) ==
  Cardinality(DOMAIN list \ s.used) * (Len(list) + 1) + Cardinality(s.left)

LEMMA SearchFields ==
  /\ \A u, o, l : /\ SearchAt(u, o, l).used = u
                  /\ SearchAt(u, o, l).order = o
                  /\ SearchAt(u, o, l).left = l
  /\ \A list : \A u, o, l : SearchAt(u, o, l) \in Searches(list) <=>
       u \in SUBSET DOMAIN list /\ o \in Seq(DOMAIN list) /\ l \in SUBSET DOMAIN list
  /\ \A list : \A s \in Searches(list) :
       /\ s.used \in SUBSET DOMAIN list /\ s.order \in Seq(DOMAIN list)
       /\ s.left \in SUBSET DOMAIN list
BY DEF SearchAt, Searches

LEMMA NextIsLast ==
  ASSUME NEW n \in Nat, NEW S \in SUBSET (1 .. n), S # {}
  PROVE  NextOf(S) \in S /\ \A k \in S : k <= NextOf(S)
<1> DEFINE T == {n + 1 - k : k \in S}
<1>1. T \in SUBSET (Nat \ {0}) /\ T # {}
  OBVIOUS
<1>2. PICK t \in T : \A u \in T : t <= u
  BY <1>1, FirstPosition
<1>3. PICK k \in S : t = n + 1 - k
  OBVIOUS
<1>4. \A m \in S : k >= m
  <2> TAKE m \in S
  <2>1. n + 1 - m \in T
    OBVIOUS
  <2> QED
    BY <1>2, <1>3, <2>1
<1>5. NextOf(S) \in S /\ \A m \in S : NextOf(S) >= m
  BY <1>4 DEF NextOf, Max
<1> QED
  BY <1>5

\* The searches a round hands on are smaller.
LEMMA RoundSizes ==
  ASSUME NEW T, NEW list \in Seq(T), NEW s \in Searches(list), s.left # {}
  PROVE  LET j == NextOf(s.left)
             rest == s.left \ {j}
             again == SearchAt(s.used, s.order, rest)
             nested == SearchAt(s.used \cup {j}, s.order, SuccSteps(list, j))
             after(h) == SearchAt(h.used, Append(h.order, j), rest)
         IN  /\ j \in DOMAIN list /\ j \in s.left /\ \A k \in s.left : k <= j
             /\ again \in Searches(list) /\ Size(list, again) < Size(list, s)
             /\ nested \in Searches(list)
             /\ j \notin s.used => Size(list, nested) < Size(list, s)
             /\ \A h \in Searches(list) : after(h) \in Searches(list)
             /\ \A h \in Searches(list) : j \notin s.used /\ nested.used \subseteq h.used =>
                  Size(list, after(h)) < Size(list, s)
<1> DEFINE D == DOMAIN list
           n == Len(list)
           j == NextOf(s.left)
           rest == s.left \ {j}
           again == SearchAt(s.used, s.order, rest)
           nested == SearchAt(s.used \cup {j}, s.order, SuccSteps(list, j))
           after(h) == SearchAt(h.used, Append(h.order, j), rest)
           Free(u) == Cardinality(D \ u)
<1>1. n \in Nat /\ D = 1 .. n
  OBVIOUS
<1>2. s.used \in SUBSET D /\ s.order \in Seq(D) /\ s.left \in SUBSET D
  BY SearchFields
<1>3. j \in s.left /\ j \in D /\ \A k \in s.left : k <= j
  BY <1>1, <1>2, NextIsLast
<1>4. IsFiniteSet(D) /\ Cardinality(D) = n
  <2>1. 1 \in Int /\ n \in Int /\ n - 1 + 1 = n /\ (1 > n => n = 0)
    BY <1>1
  <2> QED
    BY <1>1, <2>1, FS_Interval
<1>5. ASSUME NEW S \in SUBSET D
      PROVE  IsFiniteSet(S) /\ Cardinality(S) \in Nat /\ Cardinality(S) <= n
  BY <1>4, FS_Subset, FS_CardinalityType
<1>6. Cardinality(rest) = Cardinality(s.left) - 1
  BY <1>2, <1>3, <1>5, FS_RemoveElement
<1>7. ASSUME NEW u \in SUBSET D, s.used \cup {j} \subseteq u, j \notin s.used
      PROVE  Free(u) \in Nat /\ Free(s.used) \in Nat /\ Free(u) + 1 <= Free(s.used)
  <2> DEFINE F == D \ s.used
  <2>1. D \ u \in SUBSET D /\ F \in SUBSET D /\ j \in F /\ D \ u \subseteq F \ {j}
    BY <1>3, <1>7
  <2>2. IsFiniteSet(F) /\ IsFiniteSet(F \ {j}) /\ Cardinality(F) \in Nat
        /\ Cardinality(D \ u) \in Nat
    BY <1>5, <2>1
  <2> HIDE DEF F
  <2>3. Cardinality(F \ {j}) = Cardinality(F) - 1
    BY <2>1, <2>2, FS_RemoveElement
  <2>4. Cardinality(D \ u) <= Cardinality(F \ {j})
    BY <2>1, <2>2, FS_Subset
  <2> QED
    BY <2>2, <2>3, <2>4 DEF F
<1>9. SuccSteps(list, j) \in SUBSET D
  BY DEF SuccSteps
<1> HIDE DEF D, n, j
<1>8. \A u, o, l : Size(list, SearchAt(u, o, l)) = Free(u) * (n + 1) + Cardinality(l)
  <2> TAKE u, o, l
  <2>1. SearchAt(u, o, l).used = u /\ SearchAt(u, o, l).left = l
    BY DEF SearchAt
  <2> QED
    BY <2>1 DEF Size, D, n
<1>16. Size(list, s) = Free(s.used) * (n + 1) + Cardinality(s.left)
  BY DEF Size, D, n
<1>10. again \in Searches(list) /\ nested \in Searches(list)
  <2>1. rest \in SUBSET D /\ s.used \cup {j} \in SUBSET D
    BY <1>2, <1>3
  <2> QED
    BY <1>2, <1>9, <2>1, SearchFields, Zenon DEF D
<1>11. \A h \in Searches(list) : after(h) \in Searches(list)
  <2> TAKE h \in Searches(list)
  <2>1. h.used \in SUBSET D /\ h.order \in Seq(D)
    BY SearchFields DEF D
  <2>2. Append(h.order, j) \in Seq(D) /\ rest \in SUBSET D
    BY <1>2, <1>3, <2>1
  <2> QED
    BY <2>1, <2>2, SearchFields DEF D
<1>12. ASSUME NEW u \in SUBSET D, NEW l \in SUBSET D, NEW o,
              s.used \cup {j} \subseteq u, j \notin s.used
       PROVE  Size(list, SearchAt(u, o, l)) < Size(list, s)
  <2>1. Free(u) \in Nat /\ Free(s.used) \in Nat /\ Free(u) + 1 <= Free(s.used)
    BY <1>7, <1>12
  <2>2. Cardinality(l) \in Nat /\ Cardinality(l) <= n /\ Cardinality(s.left) \in Nat
    BY <1>2, <1>5
  <2>3. \A a, b, c, d \in Nat : a + 1 <= b /\ c <= n => a * (n + 1) + c < b * (n + 1) + d
    BY <1>1
  <2>4. Free(u) * (n + 1) + Cardinality(l) < Free(s.used) * (n + 1) + Cardinality(s.left)
    BY <2>1, <2>2, <2>3
  <2> QED
    BY <1>8, <1>16, <2>4, Zenon
<1>13. Size(list, again) < Size(list, s)
  <2>1. Cardinality(s.left) \in Nat /\ Cardinality(D \ s.used) \in Nat
    BY <1>2, <1>5
  <2>2. \A a, c \in Nat : a * (n + 1) + (c - 1) < a * (n + 1) + c
    BY <1>1
  <2> QED
    BY <1>6, <1>8, <1>16, <2>1, <2>2
<1>14. j \notin s.used => Size(list, nested) < Size(list, s)
  BY <1>2, <1>3, <1>9, <1>12
<1>15. ASSUME NEW h \in Searches(list), j \notin s.used, nested.used \subseteq h.used
       PROVE  Size(list, after(h)) < Size(list, s)
  <2>1. nested.used = s.used \cup {j} /\ h.used \in SUBSET D
    BY SearchFields, Zenon DEF D
  <2>2. rest \in SUBSET D /\ s.used \cup {j} \subseteq h.used
    BY <1>2, <1>15, <2>1
  <2> QED
    BY <1>12, <1>15, <2>1, <2>2
<1> QED
  BY <1>3, <1>10, <1>11, <1>13, <1>14, <1>15 DEF j, D

\* A round depends on f at smaller searches only.
LEMMA RoundAgrees ==
  ASSUME NEW T, NEW list \in Seq(T), NEW s \in Searches(list),
         NEW f \in [Searches(list) -> Searches(list)],
         NEW g \in [Searches(list) -> Searches(list)],
         \A t \in Searches(list) : Size(list, t) < Size(list, s) =>
           f[t] = g[t] /\ t.used \subseteq f[t].used
  PROVE  /\ Round(list, f, s) \in Searches(list)
         /\ s.used \subseteq Round(list, f, s).used
         /\ Round(list, g, s) = Round(list, f, s)
<1> DEFINE j == NextOf(s.left)
           rest == s.left \ {j}
           again == SearchAt(s.used, s.order, rest)
           nested == SearchAt(s.used \cup {j}, s.order, SuccSteps(list, j))
           after(h) == SearchAt(h.used, Append(h.order, j), rest)
<1>1. CASE s.left = {}
  BY <1>1 DEF Round
<1>2. CASE s.left # {} /\ j \in s.used
  <2>1. again \in Searches(list) /\ Size(list, again) < Size(list, s) /\ again.used = s.used
    BY <1>2, RoundSizes DEF SearchAt
  <2>2. Round(list, f, s) = f[again] /\ Round(list, g, s) = g[again]
    BY <1>2 DEF Round
  <2> HIDE DEF again
  <2> QED
    BY <2>1, <2>2
<1>3. CASE s.left # {} /\ j \notin s.used
  <2> DEFINE h == f[nested]
  <2>1. /\ nested \in Searches(list) /\ Size(list, nested) < Size(list, s)
        /\ nested.used = s.used \cup {j}
    BY <1>3, RoundSizes DEF SearchAt
  <2>2. h \in Searches(list) /\ g[nested] = h /\ nested.used \subseteq h.used
    <3> HIDE DEF nested
    <3> QED
      BY <2>1
  <2> HIDE DEF h
  <2>3. /\ after(h) \in Searches(list) /\ Size(list, after(h)) < Size(list, s)
        /\ after(h).used = h.used
    BY <1>3, <2>2, RoundSizes DEF SearchAt
  <2>4. Round(list, f, s) = f[after(h)] /\ Round(list, g, s) = g[after(h)]
    BY <1>3, <2>2 DEF Round, h
  <2> HIDE DEF after, nested
  <2> QED
    BY <2>1, <2>2, <2>3, <2>4
<1> QED
  BY <1>1, <1>2, <1>3

LEMMA SizeBounded ==
  ASSUME NEW T, NEW list \in Seq(T)
  PROVE  \E N \in Nat \ {0} : \A s \in Searches(list) :
           Size(list, s) \in Nat /\ Size(list, s) < N
<1> DEFINE D == DOMAIN list
           n == Len(list)
<1>1. n \in Nat /\ D = 1 .. n
  OBVIOUS
<1>2. IsFiniteSet(D) /\ Cardinality(D) = n
  <2>1. 1 \in Int /\ n \in Int /\ n - 1 + 1 = n /\ (1 > n => n = 0)
    BY <1>1
  <2> QED
    BY <1>1, <2>1, FS_Interval
<1>3. ASSUME NEW S \in SUBSET D PROVE Cardinality(S) \in Nat /\ Cardinality(S) <= n
  BY <1>2, FS_Subset, FS_CardinalityType
<1> HIDE DEF D, n
<1>4. \A a, c \in Nat : a <= n /\ c <= n => /\ a * (n + 1) + c \in Nat
                                            /\ a * (n + 1) + c < n * (n + 1) + n + 1
  BY <1>1
<1>5. n * (n + 1) + n + 1 \in Nat \ {0}
  BY <1>1
<1>6. ASSUME NEW s \in Searches(list)
      PROVE  Size(list, s) \in Nat /\ Size(list, s) < n * (n + 1) + n + 1
  <2>1. D \ s.used \in SUBSET D /\ s.left \in SUBSET D
    BY SearchFields DEF D
  <2>2. /\ Cardinality(D \ s.used) \in Nat /\ Cardinality(D \ s.used) <= n
        /\ Cardinality(s.left) \in Nat /\ Cardinality(s.left) <= n
    BY <1>3, <2>1
  <2>3. Size(list, s) = Cardinality(D \ s.used) * (n + 1) + Cardinality(s.left)
    BY DEF Size, D, n
  <2> QED
    BY <1>4, <2>2, <2>3
<1> QED
  BY <1>5, <1>6

\* The recursion is well founded: some function does what Loop asks for, and a loop leaves
\* no used step unused.
LEMMA LoopExists ==
  ASSUME NEW T, NEW list \in Seq(T)
  PROVE  \E f \in [Searches(list) -> Searches(list)] :
           \A s \in Searches(list) : f[s] = Round(list, f, s) /\ s.used \subseteq f[s].used
<1> DEFINE S == Searches(list)
           Right(f, s) == f[s] = Round(list, f, s) /\ s.used \subseteq f[s].used
           Upto(N) == \E f \in [S -> S] : \A s \in S : Size(list, s) < N => Right(f, s)
<1>1. PICK M \in Nat \ {0} : \A s \in S : Size(list, s) \in Nat /\ Size(list, s) < M
  BY SizeBounded
<1>2. Upto(0)
  <2>1. [s \in S |-> s] \in [S -> S] /\ \A s \in S : ~ (Size(list, s) < 0)
    BY <1>1
  <2> QED
    BY <2>1
<1>3. ASSUME NEW N \in Nat, Upto(N) PROVE Upto(N + 1)
  <2>1. PICK f \in [S -> S] : \A s \in S : Size(list, s) < N => Right(f, s)
    BY <1>3
  <2> DEFINE g == [s \in S |-> IF Size(list, s) < N + 1 THEN Round(list, f, s) ELSE s]
  <2>2. ASSUME NEW s \in S, Size(list, s) < N + 1
        PROVE  Round(list, f, s) \in S /\ s.used \subseteq Round(list, f, s).used
    <3>1. \A t \in S : Size(list, t) < Size(list, s) => t.used \subseteq f[t].used
      BY <1>1, <2>1, <2>2
    <3> HIDE DEF S
    <3> QED
      BY <3>1, RoundAgrees DEF S
  <2>3. g \in [S -> S]
    BY <2>2
  <2>4. \A s \in S : Size(list, s) < N + 1 => g[s] = Round(list, f, s)
    OBVIOUS
  <2>5. \A s \in S : Size(list, s) < N => g[s] = f[s]
    BY <1>1, <2>1, <2>4
  <2> HIDE DEF g
  <2>6. ASSUME NEW s \in S, Size(list, s) < N + 1 PROVE Right(g, s)
    <3>1. \A t \in S : Size(list, t) < Size(list, s) => f[t] = g[t] /\ t.used \subseteq f[t].used
      BY <1>1, <2>1, <2>5, <2>6
    <3>2. Round(list, g, s) = Round(list, f, s)
      BY <2>3, <3>1, RoundAgrees
    <3> QED
      BY <2>2, <2>4, <2>6, <3>2
  <2> QED
    BY <2>3, <2>6
<1> DEFINE Bad == {N \in Nat \ {0} : ~ Upto(N)}
<1> HIDE DEF Upto
<1>4. Bad = {}
  <2> SUFFICES ASSUME Bad # {} PROVE FALSE
    OBVIOUS
  <2>1. PICK k \in Bad : \A j \in Bad : k <= j
    BY FirstPosition
  <2>2. k \in Nat \ {0} /\ ~ Upto(k)
    OBVIOUS
  <2>3. k - 1 \in Nat /\ ~ Upto(k - 1)
    <3>1. ~ Upto((k - 1) + 1)
      BY <2>2
    <3> QED
      BY <1>3, <2>2, <3>1
  <2>4. k - 1 # 0
    BY <1>2, <2>3
  <2>5. k - 1 \in Bad
    BY <2>2, <2>3, <2>4
  <2> QED
    BY <2>1, <2>2, <2>5
<1>5. Upto(M)
  BY <1>4
<1> QED
  BY <1>1, <1>5 DEF Upto

LEMMA LoopIsRecursive ==
  ASSUME NEW T, NEW list \in Seq(T)
  PROVE  \A s \in Searches(list) : Loop(list)[s] = Round(list, Loop(list), s)
<1> DEFINE S == Searches(list)
           Does(f) == f = [s \in S |-> Round(list, f, s)]
<1>1. PICK f \in [S -> S] : \A s \in S : f[s] = Round(list, f, s)
  BY LoopExists
<1>2. Does(f)
  BY <1>1
<1>3. Loop(list) = CHOOSE g : Does(g)
  BY DEF Loop, Round
<1>4. Does(Loop(list))
  BY <1>2, <1>3
<1> QED
  BY <1>4

-----------------------------------------------------------------------------
(***************************************************************************)
(* The walk computes it.                                                   *)
(***************************************************************************)

\* What the loop of i still has to look at, and whose loop is k calls deep.
LeftOf(i) == {j \in 1 .. remaining[i] : Follows(i, j)}
LoopAt(k) == IF k = 0 THEN Root ELSE calls[k]

\* R[k] is what the loop k calls deep will have made of the search in the end: the innermost
\* one goes on from here, the others from what the loop above leaves.
Outcome(R) ==
  /\ R[Len(calls)] = Loop(steps)[SearchAt(used, found, LeftOf(LoopAt(Len(calls))))]
  /\ \A k \in 0 .. Len(calls) - 1 :
       R[k] = Loop(steps)[SearchAt(R[k + 1].used, Append(R[k + 1].order, calls[k + 1]),
                                   LeftOf(LoopAt(k)))]
  /\ R[0].order = DfsOrder(steps)

\* The walk is on its way to what the recursion computes.
ComputedInv == \E R : Outcome(R)

LEMMA WalkFacts ==
  ASSUME SearchInv
  PROVE  /\ steps \in Seq(ToSet(steps)) /\ DOMAIN steps = Positions /\ Len(steps) \in Nat
         /\ calls \in Seq(Positions) /\ Len(calls) \in Nat /\ Root \notin Positions
         /\ Caller = LoopAt(Len(calls)) /\ ToVisit = LeftOf(Caller)
         /\ SearchAt(used, found, ToVisit) \in Searches(steps)
         /\ \A k \in 0 .. Len(calls) - 1 :
              LoopAt(k) # Caller /\ LoopAt(k) \in {Root} \cup Positions
<1>1. /\ steps \in Seq(ToSet(steps)) /\ DOMAIN steps = Positions /\ Len(steps) \in Nat
      /\ calls \in Seq(Positions) /\ Len(calls) \in Nat /\ Root \notin Positions
      /\ IsInjective(calls) /\ found \in Seq(Positions) /\ used \in SUBSET Positions
  BY StepsFacts, StepListsAssumption DEF SearchInv, SearchTypes
<1>2. Caller = LoopAt(Len(calls)) /\ ToVisit = LeftOf(Caller)
  <2>1. CASE calls = <<>>
    BY <2>1 DEF Caller, LoopAt, ToVisit, LeftOf
  <2>2. CASE calls # <<>>
    BY <1>1, <2>2 DEF Caller, Last, LoopAt, ToVisit, LeftOf
  <2> QED
    BY <2>1, <2>2
<1>3. ToVisit \in SUBSET Positions
  <2>1. remaining[Caller] \in 0 .. Len(steps)
    BY CallerFacts DEF SearchInv, SearchTypes
  <2> QED
    BY <1>1, <2>1 DEF ToVisit, Positions
<1>4. SearchAt(used, found, ToVisit) \in Searches(steps)
  BY <1>1, <1>3 DEF SearchAt, Searches
<1>5. ASSUME NEW k \in 0 .. Len(calls) - 1
      PROVE  LoopAt(k) # Caller /\ LoopAt(k) \in {Root} \cup Positions
  <2>1. Len(calls) \in DOMAIN calls /\ calls[Len(calls)] \in Positions /\ Len(calls) # 0
        /\ Caller = calls[Len(calls)]
    BY <1>1, <1>2 DEF LoopAt
  <2>2. CASE k = 0
    BY <1>1, <2>1, <2>2 DEF LoopAt
  <2>3. CASE k # 0
    <3>1. k \in DOMAIN calls /\ k # Len(calls) /\ LoopAt(k) = calls[k] /\ calls[k] \in Positions
      BY <1>1, <2>3 DEF LoopAt
    <3> QED
      BY <1>1, <2>1, <3>1 DEF IsInjective
  <2> QED
    BY <2>2, <2>3
<1> QED
  BY <1>1, <1>2, <1>4, <1>5

LEMMA ComputedBegins == SearchInit => ComputedInv
<1> SUFFICES ASSUME SearchInit PROVE ComputedInv
  OBVIOUS
<1>1. /\ steps \in StepLists /\ Len(steps) \in Nat /\ DOMAIN steps = Positions
      /\ calls = <<>> /\ Len(calls) = 0 /\ used = {} /\ found = <<>>
      /\ remaining[Root] = Len(steps)
  BY StepsFacts DEF SearchInit
<1>2. LeftOf(LoopAt(0)) = DOMAIN steps
  BY <1>1 DEF LoopAt, LeftOf, Follows, Positions
<1> DEFINE R == [k \in {0} |-> Loop(steps)[SearchAt({}, <<>>, DOMAIN steps)]]
<1>3. R[0] = Loop(steps)[SearchAt({}, <<>>, DOMAIN steps)] /\ R[0].order = DfsOrder(steps)
  BY DEF DfsOrder
<1> HIDE DEF R
<1>4. Outcome(R)
  BY <1>1, <1>2, <1>3 DEF Outcome
<1> QED
  BY <1>4 DEF ComputedInv

\* What is left to the loop at work, and to the others, when it has looked at the next step.
LEMMA NextLeft ==
  ASSUME SearchInv, NEW j \in ToVisit, \A k \in ToVisit : k <= j, steps' = steps,
         remaining' = [remaining EXCEPT ![Caller] = j - 1]
  PROVE  /\ NextOf(ToVisit) = j
         /\ \A i \in {Root} \cup Positions :
              LeftOf(i)' = IF i = Caller THEN ToVisit \ {j} ELSE LeftOf(i)
<1>1. /\ Len(steps) \in Nat /\ remaining \in [{Root} \cup Positions -> 0 .. Len(steps)]
      /\ Caller \in {Root} \cup Positions /\ ToVisit = LeftOf(Caller)
  BY StepsFacts, CallerFacts, WalkFacts DEF SearchInv, SearchTypes
<1>2. ToVisit \in SUBSET (1 .. Len(steps)) /\ ToVisit # {} /\ j \in Nat
  BY <1>1 DEF LeftOf
<1>3. NextOf(ToVisit) = j
  <2>1. NextOf(ToVisit) \in ToVisit /\ \A k \in ToVisit : k <= NextOf(ToVisit)
    BY <1>1, <1>2, NextIsLast
  <2>2. NextOf(ToVisit) \in 1 .. Len(steps) /\ j <= NextOf(ToVisit) /\ NextOf(ToVisit) <= j
    BY <1>2, <2>1
  <2> QED
    BY <1>1, <1>2, <2>2
<1>4. ASSUME NEW i \in {Root} \cup Positions, i # Caller PROVE LeftOf(i)' = LeftOf(i)
  BY <1>1, <1>4 DEF LeftOf, Follows
<1>5. ASSUME NEW i \in {Root} \cup Positions, i = Caller PROVE LeftOf(i)' = ToVisit \ {j}
  <2>1. remaining'[i] = j - 1 /\ remaining[i] \in 0 .. Len(steps)
    BY <1>1, <1>2, <1>5
  <2>2. ToVisit = {k \in 1 .. remaining[i] : Follows(i, k)}
    BY <1>1, <1>5 DEF LeftOf
  <2>3. LeftOf(i)' = {k \in 1 .. j - 1 : Follows(i, k)}
    BY <2>1 DEF LeftOf, Follows
  <2>4. \A k \in 1 .. remaining[i] : Follows(i, k) /\ k # j => k \in 1 .. j - 1
    BY <1>1, <1>2, <2>1, <2>2
  <2>5. \A k \in 1 .. j - 1 : k \in 1 .. remaining[i]
    BY <1>1, <1>2, <2>1, <2>2
  <2> QED
    BY <1>2, <2>2, <2>3, <2>4, <2>5
<1> QED
  BY <1>3, <1>4, <1>5

LEMMA ComputedReturn ==
  ASSUME SearchInv, NEW R, Outcome(R), Return
  PROVE  Outcome(R)'
<1>1. /\ calls # <<>> /\ ToVisit = {} /\ UNCHANGED <<steps, used, remaining>>
      /\ found' = Append(found, Last(calls)) /\ calls' = Front(calls)
  BY DEF Return, LoopEnds
<1>2. PICK m \in Nat : m = Len(calls)
  BY WalkFacts
<1>3. /\ steps \in Seq(ToSet(steps)) /\ calls \in Seq(Positions)
      /\ Caller = LoopAt(m) /\ ToVisit = LeftOf(Caller)
      /\ SearchAt(used, found, ToVisit) \in Searches(steps)
  BY <1>2, WalkFacts
<1>4. /\ m >= 1 /\ Last(calls) = calls[m] /\ Len(calls') = m - 1
      /\ \A k \in 1 .. m - 1 : calls'[k] = calls[k]
  <2>1. m \in Nat \ {0}
    BY <1>1, <1>2, CallerFacts
  <2>2. calls' = SubSeq(calls, 1, m - 1) /\ Last(calls) = calls[m]
    BY <1>1, <1>2 DEF Front, Last
  <2>3. Len(calls') = m - 1 /\ \A k \in 1 .. m - 1 : calls'[k] = calls[k]
    <3>1. \A k \in 1 .. m - 1 : calls[k] \in Positions
      BY <1>2, <1>3
    <3>2. 1 \in Int /\ m - 1 \in Int /\ (IF 1 <= m - 1 THEN (m - 1) - 1 + 1 ELSE 0) = m - 1
          /\ (m - 1) - 1 + 1 = m - 1 /\ \A k \in 1 .. m - 1 : 1 + k - 1 = k
      BY <2>1
    <3> QED
      BY <2>2, <3>1, <3>2, SubSeqProperties
  <2> QED
    BY <2>1, <2>2, <2>3
<1>5. R[m] = SearchAt(used, found, ToVisit)
  <2>1. R[m] = Round(steps, Loop(steps), SearchAt(used, found, ToVisit))
    BY <1>2, <1>3, LoopIsRecursive DEF Outcome
  <2>2. SearchAt(used, found, ToVisit).left = {}
    BY <1>1 DEF SearchAt
  <2> QED
    BY <2>1, <2>2 DEF Round
<1>6. R[m].used = used /\ R[m].order = found
  BY <1>5 DEF SearchAt
<1>7. \A k \in 0 .. m - 1 : LoopAt(k)' = LoopAt(k)
  BY <1>4 DEF LoopAt
<1>8. \A k \in 0 .. m - 1 : LeftOf(LoopAt(k))' = LeftOf(LoopAt(k))
  BY <1>1, <1>7 DEF LeftOf, Follows
<1>9. \A k \in 0 .. m - 1 :
        R[k] = Loop(steps)[SearchAt(R[k + 1].used, Append(R[k + 1].order, calls[k + 1]),
                                    LeftOf(LoopAt(k)))]
  BY <1>2 DEF Outcome
<1>10. R[Len(calls')] = Loop(steps')[SearchAt(used', found', LeftOf(LoopAt(Len(calls)))')]
  <2>1. R[m - 1] = Loop(steps)[SearchAt(used, found', LeftOf(LoopAt(m - 1)))]
    <3>1. m - 1 \in 0 .. m - 1 /\ (m - 1) + 1 = m
      BY <1>4
    <3> QED
      BY <1>1, <1>4, <1>6, <1>9, <3>1
  <2>2. LeftOf(LoopAt(m - 1))' = LeftOf(LoopAt(m - 1))
    BY <1>4, <1>8
  <2>3. LeftOf(LoopAt(Len(calls)))' = LeftOf(LoopAt(m - 1))'
    BY <1>4 DEF LeftOf, LoopAt, Follows
  <2> QED
    BY <1>1, <1>4, <2>1, <2>2, <2>3
<1>11. ASSUME NEW k \in 0 .. Len(calls') - 1
       PROVE  R[k] = Loop(steps')[SearchAt(R[k + 1].used, Append(R[k + 1].order, calls'[k + 1]),
                                           LeftOf(LoopAt(k))')]
  <2>1. k \in 0 .. m - 1 /\ k + 1 \in 1 .. m - 1
    BY <1>4
  <2> QED
    BY <1>1, <1>4, <1>8, <1>9, <2>1
<1>12. R[0].order = DfsOrder(steps')
  BY <1>1 DEF Outcome
<1> QED
  BY <1>10, <1>11, <1>12 DEF Outcome

\* The loop at work looks at its next step, which was used before.
LEMMA ComputedVisitKnown ==
  ASSUME SearchInv, NEW R, Outcome(R), NEW j \in ToVisit, \A k \in ToVisit : k <= j,
         remaining' = [remaining EXCEPT ![Caller] = j - 1], Entered(j),
         UNCHANGED <<steps, used, calls, found>>
  PROVE  Outcome(R)'
<1> DEFINE s == SearchAt(used, found, ToVisit)
<1>1. PICK m \in Nat : m = Len(calls)
  BY WalkFacts
<1>2. /\ steps \in Seq(ToSet(steps)) /\ Caller = LoopAt(m) /\ ToVisit = LeftOf(Caller)
      /\ s \in Searches(steps) /\ s.left = ToVisit /\ s.used = used /\ s.order = found
      /\ \A k \in 0 .. m - 1 : LoopAt(k) # Caller /\ LoopAt(k) \in {Root} \cup Positions
  BY <1>1, WalkFacts DEF SearchAt
<1>3. /\ NextOf(ToVisit) = j /\ Caller \in {Root} \cup Positions
      /\ \A i \in {Root} \cup Positions :
           LeftOf(i)' = IF i = Caller THEN ToVisit \ {j} ELSE LeftOf(i)
  BY NextLeft, CallerFacts
<1>4. R[m] = Loop(steps)[SearchAt(used, found, ToVisit \ {j})]
  <2>1. R[m] = Round(steps, Loop(steps), s)
    BY <1>1, <1>2, LoopIsRecursive DEF Outcome
  <2>2. Round(steps, Loop(steps), s) = Loop(steps)[SearchAt(used, found, ToVisit \ {j})]
    BY <1>2, <1>3 DEF Round, Entered
  <2> QED
    BY <2>1, <2>2
<1>5. ASSUME NEW k \in 0 .. m
      PROVE  LeftOf(LoopAt(k))' = IF k = m THEN ToVisit \ {j} ELSE LeftOf(LoopAt(k))
  <2>1. PICK i \in {Root} \cup Positions : i = LoopAt(k) /\ (i = Caller <=> k = m)
    <3>1. CASE k = m
      BY <1>2, <1>3, <3>1
    <3>2. CASE k # m
      <4>1. k \in 0 .. m - 1
        BY <3>2
      <4> QED
        BY <1>2, <3>2, <4>1
    <3> QED
      BY <3>1, <3>2
  <2>2. LeftOf(LoopAt(k))' = LeftOf(i)'
    BY <2>1 DEF LeftOf, LoopAt, Follows
  <2> QED
    BY <1>3, <2>1, <2>2
<1>6. R[Len(calls')] = Loop(steps')[SearchAt(used', found', LeftOf(LoopAt(Len(calls)))')]
  <2>1. LeftOf(LoopAt(Len(calls)))' = LeftOf(LoopAt(m))'
    BY <1>1 DEF LeftOf, LoopAt, Follows
  <2>2. LeftOf(LoopAt(m))' = ToVisit \ {j}
    BY <1>5
  <2> QED
    BY <1>1, <1>4, <2>1, <2>2
<1>7. ASSUME NEW k \in 0 .. Len(calls') - 1
      PROVE  R[k] = Loop(steps')[SearchAt(R[k + 1].used, Append(R[k + 1].order, calls'[k + 1]),
                                          LeftOf(LoopAt(k))')]
  <2>1. k \in 0 .. m - 1 /\ k \in 0 .. m /\ k # m
    BY <1>1
  <2> QED
    BY <1>1, <1>5, <2>1 DEF Outcome
<1>8. R[0].order = DfsOrder(steps')
  BY DEF Outcome
<1> QED
  BY <1>6, <1>7, <1>8 DEF Outcome

\* dfs is called: its loop is now the innermost one.
LEMMA ComputedVisitNew ==
  ASSUME SearchInv, NEW R, Outcome(R), NEW j \in ToVisit, \A k \in ToVisit : k <= j,
         remaining' = [remaining EXCEPT ![Caller] = j - 1], ~ Entered(j),
         used' = used \cup {j}, calls' = Append(calls, j), UNCHANGED <<steps, found>>
  PROVE  ComputedInv'
<1> DEFINE s == SearchAt(used, found, ToVisit)
           nested == Loop(steps)[SearchAt(used \cup {j}, found, SuccSteps(steps, j))]
<1>1. PICK m \in Nat : m = Len(calls)
  BY WalkFacts
<1>2. /\ steps \in Seq(ToSet(steps)) /\ Caller = LoopAt(m) /\ ToVisit = LeftOf(Caller)
      /\ s \in Searches(steps) /\ s.left = ToVisit /\ s.used = used /\ s.order = found
      /\ calls \in Seq(Positions) /\ Root \notin Positions
      /\ DOMAIN steps = Positions /\ Len(steps) \in Nat
      /\ \A k \in 0 .. m - 1 : LoopAt(k) # Caller /\ LoopAt(k) \in {Root} \cup Positions
  BY <1>1, WalkFacts DEF SearchAt
<1>3. /\ NextOf(ToVisit) = j /\ Caller \in {Root} \cup Positions
      /\ \A i \in {Root} \cup Positions :
           LeftOf(i)' = IF i = Caller THEN ToVisit \ {j} ELSE LeftOf(i)
  BY NextLeft, CallerFacts
<1>4. PICK inner : inner = nested
  OBVIOUS
<1>5. R[m] = Loop(steps)[SearchAt(inner.used, Append(inner.order, j), ToVisit \ {j})]
  <2>1. R[m] = Round(steps, Loop(steps), s)
    BY <1>1, <1>2, LoopIsRecursive DEF Outcome
  <2>2. ToVisit # {} /\ j \notin used
    BY DEF Entered
  <2>3. Round(steps, Loop(steps), s)
          = Loop(steps)[SearchAt(inner.used, Append(inner.order, j), ToVisit \ {j})]
    BY <1>2, <1>3, <1>4, <2>2 DEF Round
  <2> QED
    BY <2>1, <2>3
<1>6. /\ j \in Positions /\ Len(calls') = m + 1 /\ calls'[m + 1] = j
      /\ \A k \in 1 .. m : calls'[k] = calls[k]
  <2>1. j \in Positions
    BY VisitFacts
  <2> QED
    BY <1>1, <1>2, <2>1
<1>7. LeftOf(LoopAt(m + 1))' = SuccSteps(steps, j)
  <2>1. LoopAt(m + 1)' = j
    BY <1>6 DEF LoopAt
  <2>2. j # Caller /\ remaining[j] = Len(steps)
    BY <1>6, CallerFacts DEF Entered, SearchInv, Untouched
  <2>3. remaining'[j] = Len(steps)
    BY <1>6, <2>2 DEF SearchInv, SearchTypes
  <2>4. j # Root
    BY <1>2, <1>6
  <2> QED
    BY <1>2, <2>1, <2>3, <2>4 DEF LeftOf, Follows, SuccSteps, Positions
<1>8. ASSUME NEW k \in 0 .. m
      PROVE  LeftOf(LoopAt(k))' = IF k = m THEN ToVisit \ {j} ELSE LeftOf(LoopAt(k))
  <2>1. PICK i \in {Root} \cup Positions : i = LoopAt(k) /\ (i = Caller <=> k = m)
    <3>1. CASE k = m
      BY <1>2, <1>3, <3>1
    <3>2. CASE k # m
      <4>1. k \in 0 .. m - 1
        BY <3>2
      <4> QED
        BY <1>2, <3>2, <4>1
    <3> QED
      BY <3>1, <3>2
  <2>2. LoopAt(k)' = i
    BY <1>6, <2>1 DEF LoopAt
  <2>3. LeftOf(LoopAt(k))' = LeftOf(i)'
    BY <2>2 DEF LeftOf, Follows
  <2> QED
    BY <1>3, <2>1, <2>3
<1>9. PICK Q : Q[m + 1] = inner /\ \A k \in 0 .. m : Q[k] = R[k]
  <2> DEFINE F == [k \in Nat |-> IF k = m + 1 THEN inner ELSE R[k]]
  <2>1. F[m + 1] = inner /\ \A k \in 0 .. m : F[k] = R[k]
    OBVIOUS
  <2> QED
    BY <2>1
<1>10. Q[Len(calls')] = Loop(steps')[SearchAt(used', found', LeftOf(LoopAt(Len(calls)))')]
  <2>1. LeftOf(LoopAt(Len(calls)))' = LeftOf(LoopAt(m + 1))'
    BY <1>6 DEF LeftOf, LoopAt, Follows
  <2> QED
    BY <1>4, <1>6, <1>7, <1>9, <2>1
<1>11. ASSUME NEW k \in 0 .. Len(calls') - 1
       PROVE  Q[k] = Loop(steps')[SearchAt(Q[k + 1].used, Append(Q[k + 1].order, calls'[k + 1]),
                                           LeftOf(LoopAt(k))')]
  <2>1. CASE k = m
    <3>1. Q[k] = R[m] /\ Q[k + 1] = inner /\ calls'[k + 1] = j
      BY <1>6, <1>9, <2>1
    <3>2. LeftOf(LoopAt(k))' = ToVisit \ {j}
      BY <1>8, <2>1
    <3> QED
      BY <1>5, <3>1, <3>2
  <2>2. CASE k # m
    <3>1. k \in 0 .. m - 1 /\ k + 1 \in 0 .. m /\ k + 1 \in 1 .. m /\ k \in 0 .. m
      BY <1>6, <2>2
    <3>2. R[k] = Loop(steps)[SearchAt(R[k + 1].used, Append(R[k + 1].order, calls[k + 1]),
                                      LeftOf(LoopAt(k)))]
      BY <1>1, <3>1 DEF Outcome
    <3> QED
      BY <1>6, <1>8, <1>9, <2>2, <3>1, <3>2
  <2> QED
    BY <2>1, <2>2
<1>12. Q[0].order = DfsOrder(steps')
  BY <1>9 DEF Outcome
<1>13. Outcome(Q)'
  BY <1>10, <1>11, <1>12 DEF Outcome
<1> QED
  BY <1>13 DEF ComputedInv

LEMMA ComputedKept ==
  ASSUME SearchInv, ComputedInv, [Visit \/ Return]_searchVars
  PROVE  ComputedInv'
<1>1. PICK R : Outcome(R)
  BY DEF ComputedInv
<1>2. CASE UNCHANGED searchVars
  <2>1. Outcome(R)'
    <3>1. UNCHANGED <<steps, used, calls, remaining, found>>
      BY <1>2 DEF searchVars
    <3>2. \A k : LeftOf(LoopAt(k))' = LeftOf(LoopAt(k))
      BY <3>1 DEF LeftOf, LoopAt, Follows
    <3>3. LeftOf(LoopAt(Len(calls)))' = LeftOf(LoopAt(Len(calls)))
      BY <3>1 DEF LeftOf, LoopAt, Follows
    <3> QED
      BY <1>1, <3>1, <3>2, <3>3 DEF Outcome
  <2> QED
    BY <2>1 DEF ComputedInv
<1>3. CASE Return
  BY <1>1, <1>3, ComputedReturn DEF ComputedInv
<1>4. CASE Visit
  <2>1. PICK j \in ToVisit :
          /\ \A k \in ToVisit : k <= j
          /\ remaining' = [remaining EXCEPT ![Caller] = j - 1]
          /\ IF Entered(j)
               THEN UNCHANGED <<used, calls>>
               ELSE used' = used \cup {j} /\ calls' = Append(calls, j)
    BY <1>4 DEF Visit
  <2>2. UNCHANGED <<steps, found>>
    BY <1>4 DEF Visit
  <2>3. CASE Entered(j)
    <3>1. Outcome(R)'
      BY <1>1, <2>1, <2>2, <2>3, ComputedVisitKnown
    <3> QED
      BY <3>1 DEF ComputedInv
  <2>4. CASE ~ Entered(j)
    BY <1>1, <2>1, <2>2, <2>4, ComputedVisitNew
  <2> QED
    BY <2>3, <2>4
<1> QED
  BY <1>2, <1>3, <1>4

\* The walk is over: every loop has ended, and found is what the loop over all steps makes.
LEMMA SearchedAsComputed ==
  ASSUME SearchInv, ComputedInv, Searched
  PROVE  found = DfsOrder(steps)
<1>1. PICK R : Outcome(R)
  BY DEF ComputedInv
<1>2. /\ calls = <<>> /\ Len(calls) = 0 /\ ToVisit = {}
      /\ steps \in Seq(ToSet(steps)) /\ ToVisit = LeftOf(LoopAt(0))
      /\ SearchAt(used, found, ToVisit) \in Searches(steps)
  BY WalkFacts DEF Searched, LoopEnds
<1>3. R[0] = Loop(steps)[SearchAt(used, found, ToVisit)]
  BY <1>1, <1>2 DEF Outcome
<1>4. R[0] = Round(steps, Loop(steps), SearchAt(used, found, ToVisit))
  BY <1>2, <1>3, LoopIsRecursive
<1>5. SearchAt(used, found, ToVisit).left = {} /\ SearchAt(used, found, ToVisit).order = found
  BY <1>2 DEF SearchAt
<1>6. R[0].order = found
  BY <1>4, <1>5 DEF Round
<1> QED
  BY <1>1, <1>6 DEF Outcome

\* newGraph's walk, with its loops and calls one at a time, finds what the recursive
\* definition of topSort and dfs computes, for every list of steps and with cycles, too.
THEOREM ComputedAlways == Spec => []OrderAsComputed
<1>1. Init => ComputedInv
  BY ComputedBegins DEF Init
<1>2. GraphInv /\ ComputedInv /\ [Next]_graphVars => ComputedInv'
  <2> SUFFICES ASSUME GraphInv, ComputedInv, [Next]_graphVars PROVE ComputedInv'
    OBVIOUS
  <2>1. [Visit \/ Return]_searchVars
    BY DEF Next, Search, NewGraph, PickSteps, DoneStep, graphVars
  <2> QED
    BY <2>1, ComputedKept DEF GraphInv
<1>3. GraphInv /\ ComputedInv => OrderAsComputed
  <2> SUFFICES ASSUME GraphInv, ComputedInv, built PROVE topSortOrder = TopSortOrder(steps)
    BY DEF OrderAsComputed
  <2>1. found = DfsOrder(steps) /\ topSortOrder = Order
    BY SearchedAsComputed DEF GraphInv, BuiltInv
  <2> QED
    BY <2>1 DEF Order, TopSortOrder
<1> QED
  BY <1>1, <1>2, <1>3, GraphInvariant, PTL DEF Spec
=============================================================================
