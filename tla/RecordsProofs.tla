---------------------------- MODULE RecordsProofs ----------------------------
(***************************************************************************)
(* What a run leaves behind, in three parts.  Groups of the undo log that  *)
(* are closed or reverted stay as they are, however runs that share a      *)
(* manager overlap, fail and are retried, and a revert to a group gives    *)
(* back the table on which it was opened.  What a tool says that it wrote  *)
(* is in the database, and can be undone, unless other tasks share its     *)
(* connection.  And the record of a run, the client's view of it and the   *)
(* messages for the next one agree on what its calls came to.              *)
(***************************************************************************)
EXTENDS UndoLog, DbSession, RunTrace, SequenceTheorems, WellFoundedInduction,
        TLAPS

GroupFields == {"run", "status", "entries", "snapshot", "mixed"}

\* A sequence of groups; what a revert has made of the table is not said.
IsLog(gs) == /\ gs \in Seq(Range(gs))
             /\ \A g \in DOMAIN gs : DOMAIN gs[g] = GroupFields

\* What ClosedGroupsStay says of the log before a step and after it.
Keeps(gs, hs) ==
  /\ DOMAIN gs \subseteq DOMAIN hs
  /\ \A g \in DOMAIN gs : gs[g].status # "pending" =>
       /\ hs[g].entries = gs[g].entries
       /\ hs[g].status # "pending"
       /\ gs[g].status = "reverted" => hs[g].status = "reverted"

\* The current group of a manager is open, and no other manager's.
CurrentIsOpen ==
  \A m \in Managers : current[m] # None =>
    current[m] \in DOMAIN groups /\ groups[current[m]].status = "pending"
CurrentIsOwn ==
  \A m, n \in Managers : current[m] = current[n] /\ current[m] # None => m = n

LogInv == IsLog(groups) /\ CurrentIsOpen /\ CurrentIsOwn
Bindings == /\ manager \in 0..MaxManagers
            /\ current \in [Managers -> Nat]
            /\ bound \in [Runs -> 0..MaxManagers]
UndoInv == Bindings /\ LogInv

-----------------------------------------------------------------------------
(* Logs                                                                    *)

LEMMA LogLength ==
  ASSUME NEW gs, IsLog(gs)
  PROVE  Len(gs) \in Nat /\ DOMAIN gs = 1..Len(gs)
BY LenProperties DEF IsLog

\* A log whose groups are changed one by one is a log.
LEMMA SameGroups ==
  ASSUME NEW gs, IsLog(gs), NEW hs, hs \in [DOMAIN gs -> Range(hs)],
         \A g \in DOMAIN gs : DOMAIN hs[g] = GroupFields
  PROVE  IsLog(hs) /\ DOMAIN hs = DOMAIN gs
<1>1. hs \in [1..Len(gs) -> Range(hs)] /\ Len(gs) \in Nat
  BY LogLength
<1>2. hs \in Seq(Range(hs))
  BY <1>1, SeqDef
<1>3. QED
  BY <1>2 DEF IsLog

LEMMA MixedOps ==
  ASSUME NEW gs, IsLog(gs)
  PROVE  /\ IsLog(Mixed(gs)) /\ DOMAIN Mixed(gs) = DOMAIN gs
         /\ \A g \in DOMAIN gs : /\ Mixed(gs)[g].status = gs[g].status
                                 /\ Mixed(gs)[g].entries = gs[g].entries
<1>1. DOMAIN Mixed(gs) = DOMAIN gs
      /\ \A g \in DOMAIN gs : Mixed(gs)[g] = [gs[g] EXCEPT !.mixed = TRUE]
  BY DEF Mixed
<1>2. \A g \in DOMAIN gs : /\ DOMAIN Mixed(gs)[g] = GroupFields
                           /\ Mixed(gs)[g].status = gs[g].status
                           /\ Mixed(gs)[g].entries = gs[g].entries
  BY <1>1 DEF IsLog, GroupFields
<1>3. Mixed(gs) \in [DOMAIN gs -> Range(Mixed(gs))]
  BY <1>1 DEF Range, Mixed
<1>4. QED
  BY <1>1, <1>2, <1>3, SameGroups

\* The log itself, or the log with its groups marked as mixed.
LEMMA MaybeMixed ==
  ASSUME NEW gs, IsLog(gs), NEW hs, hs = gs \/ hs = Mixed(gs)
  PROVE  /\ IsLog(hs) /\ DOMAIN hs = DOMAIN gs
         /\ \A g \in DOMAIN gs : /\ hs[g].status = gs[g].status
                                 /\ hs[g].entries = gs[g].entries
BY MixedOps

\* A group is opened after all others.
LEMMA OpenedOps ==
  ASSUME NEW gs, IsLog(gs), NEW e, DOMAIN e = GroupFields
  PROVE  /\ IsLog(Append(gs, e))
         /\ DOMAIN Append(gs, e) = DOMAIN gs \cup {Len(gs) + 1}
         /\ Len(gs) + 1 \notin DOMAIN gs /\ Len(gs) + 1 \in Nat \ {0}
         /\ \A g \in DOMAIN gs : Append(gs, e)[g] = gs[g]
         /\ Append(gs, e)[Len(gs) + 1] = e
<1> DEFINE S == Range(gs) \cup {e}
           a == Append(gs, e)
<1>1. Len(gs) \in Nat /\ DOMAIN gs = 1..Len(gs)
  BY LogLength
<1>2. gs \in Seq(S) /\ e \in S
  BY SeqMonotonic DEF IsLog
<1>3. a \in Seq(S) /\ Len(a) = Len(gs) + 1
      /\ \A i \in 1..Len(gs) : a[i] = gs[i]
      /\ a[Len(gs) + 1] = e
  BY <1>1, <1>2
<1>4. DOMAIN a = 1..(Len(gs) + 1) /\ Len(a) \in Nat
  BY <1>1, <1>3, LenProperties
<1>5. DOMAIN a = DOMAIN gs \cup {Len(gs) + 1}
  BY <1>1, <1>4
<1>6. a \in [1..Len(a) -> Range(a)]
  BY <1>3, <1>4, LenProperties DEF Range
<1>7. a \in Seq(Range(a))
  BY <1>4, <1>6, SeqDef
<1>8. \A g \in DOMAIN a : DOMAIN a[g] = GroupFields
  BY <1>1, <1>3, <1>5 DEF IsLog
<1>9. QED
  BY <1>1, <1>3, <1>5, <1>7, <1>8 DEF IsLog

-----------------------------------------------------------------------------
(* The steps                                                               *)

\* The hook before a call opens a group at the end of the log, which becomes
\* the current one of the run's manager.
LEMMA StartKeeps ==
  ASSUME UndoInv, NEW r \in Runs, OnRunStart(r), UNCHANGED <<manager, bound>>
  PROVE  UndoInv' /\ Keeps(groups, groups')
<1> USE DEF UndoInv, LogInv, Bindings
<1>1. CASE bound[r] = None
  BY <1>1 DEF OnRunStart, Keeps, CurrentIsOpen, CurrentIsOwn
<1>2. CASE bound[r] # None
  <2> DEFINE n == Len(groups) + 1
             opened == Append(groups, NewGroup(r))
             m == bound[r]
  <2>1. m \in Managers
    BY <1>2 DEF Managers, None
  <2>2. DOMAIN NewGroup(r) = GroupFields /\ NewGroup(r).status = "pending"
    BY DEF NewGroup, GroupFields
  <2>3. /\ IsLog(opened) /\ DOMAIN opened = DOMAIN groups \cup {n}
        /\ n \notin DOMAIN groups /\ n \in Nat \ {0}
        /\ \A g \in DOMAIN groups : opened[g] = groups[g]
        /\ opened[n].status = "pending"
    BY <2>2, OpenedOps
  <2>4. groups' = opened \/ groups' = Mixed(opened)
    BY <1>2 DEF OnRunStart
  <2>5. current' = [current EXCEPT ![m] = n]
    BY <1>2 DEF OnRunStart
  <2> HIDE DEF n, opened, m
  <2>6. /\ IsLog(groups') /\ DOMAIN groups' = DOMAIN groups \cup {n}
        /\ \A g \in DOMAIN groups : /\ groups'[g].status = groups[g].status
                                   /\ groups'[g].entries = groups[g].entries
        /\ groups'[n].status = "pending"
    BY <2>3, <2>4, MaybeMixed
  <2>7. /\ current'[m] = n
        /\ \A k \in Managers \ {m} : current'[k] = current[k]
    BY <2>1, <2>5
  <2>8. CurrentIsOpen'
    BY <2>6, <2>7 DEF CurrentIsOpen
  <2>9. CurrentIsOwn'
    BY <2>3, <2>7 DEF CurrentIsOpen, CurrentIsOwn
  <2>10. Bindings'
    BY <2>3, <2>5
  <2>11. Keeps(groups, groups')
    BY <2>6 DEF Keeps
  <2>12. QED
    BY <2>6, <2>8, <2>9, <2>10, <2>11
<1>3. QED
  BY <1>1, <1>2

\* The hook after a call closes the current group of the run's manager, which
\* is no other manager's.
LEMMA EndKeeps ==
  ASSUME UndoInv, NEW r \in Runs, OnRunEnd(r), UNCHANGED <<manager, bound>>
  PROVE  UndoInv' /\ Keeps(groups, groups')
<1> USE DEF UndoInv, LogInv, Bindings
<1> DEFINE m == bound[r]
           g == IF m = None THEN None ELSE current[m]
<1>1. CASE g = None
  BY <1>1 DEF OnRunEnd, Keeps, CurrentIsOpen, CurrentIsOwn
<1>2. CASE g # None
  <2>1. m # None /\ m \in Managers /\ g = current[m]
    BY <1>2 DEF Managers, None
  <2>2. g \in DOMAIN groups /\ groups[g].status = "pending"
    BY <1>2, <2>1 DEF CurrentIsOpen
  <2>3. groups' = [groups EXCEPT ![g].status = "completed"]
    BY <1>2 DEF OnRunEnd
  <2>4. current' = [current EXCEPT ![m] = None]
    BY <1>2 DEF OnRunEnd
  <2> HIDE DEF g, m
  <2>5. /\ DOMAIN groups' = DOMAIN groups
        /\ \A h \in DOMAIN groups \ {g} : groups'[h] = groups[h]
        /\ DOMAIN groups'[g] = GroupFields
    BY <2>2, <2>3 DEF IsLog, GroupFields
  <2>6. groups' \in [DOMAIN groups -> Range(groups')]
    BY <2>3, <2>5 DEF Range
  <2>7. IsLog(groups')
    <3>1. \A h \in DOMAIN groups : DOMAIN groups'[h] = GroupFields
      BY <2>5 DEF IsLog
    <3>2. QED
      BY <2>6, <3>1, SameGroups
  <2>8. /\ current'[m] = None
        /\ \A k \in Managers \ {m} : current'[k] = current[k] /\ current[k] # g
    BY <1>2, <2>1, <2>4 DEF CurrentIsOwn
  <2>9. CurrentIsOpen' /\ CurrentIsOwn'
    BY <2>1, <2>5, <2>8 DEF CurrentIsOpen, CurrentIsOwn
  <2>10. Bindings'
    BY <2>4 DEF None
  <2>11. Keeps(groups, groups')
    BY <2>2, <2>5 DEF Keeps
  <2>12. QED
    BY <2>7, <2>9, <2>10, <2>11
<1>3. QED
  BY <1>1, <1>2

\* A change is recorded in the current group of its run's manager, if there
\* is one: an open group.
LEMMA WriteKeeps ==
  ASSUME UndoInv, NEW r \in Runs, NEW e, Record(r, e),
         UNCHANGED <<manager, current, bound>>
  PROVE  UndoInv' /\ Keeps(groups, groups')
<1> USE DEF UndoInv, LogInv, Bindings
<1> DEFINE m == bound[r]
           g == IF m = None THEN None ELSE current[m]
           recorded == [groups EXCEPT ![g].entries = Append(@, e)]
<1>1. CASE g = None
  <2>1. groups' = Mixed(groups)
    BY <1>1 DEF Record
  <2>2. QED
    BY <2>1, MaybeMixed DEF Keeps, CurrentIsOpen, CurrentIsOwn
<1>2. CASE g # None
  <2>1. g \in DOMAIN groups /\ groups[g].status = "pending"
    BY <1>2 DEF CurrentIsOpen, Managers, None
  <2>2. groups' = recorded \/ groups' = Mixed(recorded)
    BY <1>2 DEF Record
  <2> HIDE DEF g, m
  <2>3. /\ DOMAIN recorded = DOMAIN groups
        /\ \A h \in DOMAIN groups \ {g} : recorded[h] = groups[h]
        /\ DOMAIN recorded[g] = GroupFields
        /\ recorded[g].status = "pending"
    BY <2>1 DEF IsLog, GroupFields
  <2>4. recorded \in [DOMAIN groups -> Range(recorded)]
    BY <2>3 DEF Range
  <2>5. IsLog(recorded)
    BY <2>3, <2>4, SameGroups DEF IsLog
  <2> HIDE DEF recorded
  <2>6. /\ IsLog(groups') /\ DOMAIN groups' = DOMAIN groups
        /\ \A h \in DOMAIN groups : groups'[h].status = groups[h].status
        /\ \A h \in DOMAIN groups \ {g} : groups'[h].entries = groups[h].entries
    BY <2>1, <2>2, <2>3, <2>5, MaybeMixed
  <2>7. QED
    BY <2>1, <2>6 DEF Keeps, CurrentIsOpen, CurrentIsOwn
<1>3. QED
  BY <1>1, <1>2

\* A revert marks completed groups, none of which is current.
LEMMA RevertKeeps ==
  ASSUME UndoInv, NEW g \in DOMAIN groups, RevertTo(g)
  PROVE  UndoInv' /\ Keeps(groups, groups')
<1> USE DEF UndoInv, LogInv, Bindings
<1> DEFINE Hit(h) == h >= g /\ groups[h].status = "completed"
           marked == [h \in DOMAIN groups |->
                        IF Hit(h) THEN [groups[h] EXCEPT !.status = "reverted"]
                        ELSE groups[h]]
<1>1. UNCHANGED <<manager, current, bound>>
  BY DEF RevertTo
<1>2. groups' = marked \/ groups' = Mixed(marked)
  BY DEF RevertTo, Affected
<1>3. /\ DOMAIN marked = DOMAIN groups
      /\ \A h \in DOMAIN groups :
           /\ DOMAIN marked[h] = GroupFields
           /\ marked[h].entries = groups[h].entries
           /\ marked[h].status = IF Hit(h) THEN "reverted" ELSE groups[h].status
  BY DEF IsLog, GroupFields
<1>4. marked \in [DOMAIN groups -> Range(marked)]
  BY DEF Range
<1>5. IsLog(marked)
  BY <1>3, <1>4, SameGroups
<1> HIDE DEF marked
<1>6. /\ IsLog(groups') /\ DOMAIN groups' = DOMAIN groups
      /\ \A h \in DOMAIN groups :
           /\ groups'[h].entries = groups[h].entries
           /\ groups'[h].status = IF Hit(h) THEN "reverted" ELSE groups[h].status
  BY <1>2, <1>3, <1>5, MaybeMixed
<1>7. QED
  BY <1>1, <1>6 DEF Keeps, CurrentIsOpen, CurrentIsOwn

LEMMA EveryStepKeeps ==
  ASSUME UndoInv, [Next]_vars
  PROVE  UndoInv' /\ Keeps(groups, groups')
<1> USE UndoAssumption
<1>1. ASSUME UNCHANGED <<groups, current>>, Bindings'
      PROVE  UndoInv' /\ Keeps(groups, groups')
  BY <1>1 DEF UndoInv, LogInv, CurrentIsOpen, CurrentIsOwn, Keeps
<1>2. CASE UNCHANGED vars
  BY <1>1, <1>2 DEF vars, UndoInv, Bindings
<1>3. ASSUME NEW r \in Runs, Post(r)
      PROVE  UndoInv' /\ Keeps(groups, groups')
  BY <1>1, <1>3 DEF Post, UndoInv, Bindings
<1>4. ASSUME NEW r \in Runs, ResolveAgent(r)
      PROVE  UndoInv' /\ Keeps(groups, groups')
  BY <1>1, <1>4 DEF ResolveAgent, UndoInv, Bindings
<1>5. ASSUME NEW r \in Runs, StartCall(r) \/ RetryCall(r)
      PROVE  UndoInv' /\ Keeps(groups, groups')
  BY <1>5, StartKeeps DEF StartCall, RetryCall
<1>6. ASSUME NEW r \in Runs, EndCall(r)
      PROVE  UndoInv' /\ Keeps(groups, groups')
  BY <1>6, EndKeeps DEF EndCall
<1>7. ASSUME NEW r \in Runs, FailCall(r)
      PROVE  UndoInv' /\ Keeps(groups, groups')
  BY <1>1, <1>7 DEF FailCall, UndoInv, Bindings
<1>8. ASSUME NEW r \in Runs, NEW x \in Rows, NEW v \in Values \cup {Absent},
             Write(r, x, v)
      PROVE  UndoInv' /\ Keeps(groups, groups')
  BY <1>8, WriteKeeps DEF Write
<1>9. ASSUME NEW g \in DOMAIN groups, RevertTo(g)
      PROVE  UndoInv' /\ Keeps(groups, groups')
  BY <1>9, RevertKeeps
<1>10. QED
  BY <1>2, <1>3, <1>4, <1>5, <1>6, <1>7, <1>8, <1>9 DEF Next

-----------------------------------------------------------------------------

\* A manager's current group is open, and only its own.
THEOREM InductiveInvariant == Spec => []UndoInv
<1>1. Init => UndoInv
  <2> SUFFICES ASSUME Init PROVE UndoInv
    OBVIOUS
  <2>1. IsLog(groups)
    BY EmptySeq DEF Init, IsLog
  <2>2. CurrentIsOpen /\ CurrentIsOwn
    BY DEF Init, CurrentIsOpen, CurrentIsOwn
  <2>3. Bindings
    BY UndoAssumption DEF Init, Bindings, None
  <2>4. QED
    BY <2>1, <2>2, <2>3 DEF UndoInv, LogInv
<1>2. UndoInv /\ [Next]_vars => UndoInv'
  BY EveryStepKeeps
<1>3. QED
  BY <1>1, <1>2, PTL DEF Spec

\* What can be reverted does not change any more, whichever runs share a
\* manager and however their calls end (capabilities.py, undo/repository.py).
THEOREM ClosedGroupsAreFinal == Spec => ClosedGroupsStay
<1> DEFINE Stays == \A g \in DOMAIN groups : groups[g].status # "pending" =>
                      /\ groups'[g].entries = groups[g].entries
                      /\ groups'[g].status # "pending"
                      /\ groups[g].status = "reverted" => groups'[g].status = "reverted"
<1>1. UndoInv /\ [Next]_vars => [Stays]_vars
  BY EveryStepKeeps DEF Keeps
<1>2. QED
  BY <1>1, InductiveInvariant, PTL DEF Spec, ClosedGroupsStay
-----------------------------------------------------------------------------
(* Going back, a step at a time                                            *)

\* The least element: the order of the natural numbers is well founded.
LEMMA LeastNumber ==
  ASSUME NEW S, S \subseteq Nat, S # {}
  PROVE  \E n \in S : \A m \in S : n <= m
<1> DEFINE R == OpToRel(<, Nat)
<1>1. \A m, n \in Nat : <<m, n>> \in R <=> m < n
  BY DEF OpToRel
<1>2. IsWellFoundedOn(R, Nat)
  BY NatLessThanWellFounded
<1> HIDE DEF R
<1>3. PICK n \in S : \A m \in S : <<m, n>> \notin R
  BY <1>2, WFMin, Zenon
<1>4. \A m \in S : ~(m < n)
  BY <1>1, <1>3
<1>5. QED
  BY <1>3, <1>4

LEMMA Downwards ==
  ASSUME NEW lo \in Nat, NEW hi \in Nat, NEW S, hi \in S,
         \A n \in lo..hi : n # hi /\ n + 1 \in S => n \in S
  PROVE  \A n \in lo..hi : n \in S
<1> DEFINE B == {k \in Nat : k <= hi - lo /\ hi - k \notin S}
<1> SUFFICES ASSUME B # {} PROVE FALSE
  <2>1. ASSUME NEW n \in lo..hi, n \notin S PROVE hi - n \in B
    <3>1. hi - n \in Nat /\ hi - n <= hi - lo /\ hi - (hi - n) = n
      OBVIOUS
    <3>2. QED
      BY <2>1, <3>1
  <2>2. QED
    BY <2>1
<1>1. PICK k \in B : \A m \in B : k <= m
  <2>1. B \subseteq Nat
    OBVIOUS
  <2> HIDE DEF B
  <2>2. QED
    BY <2>1, LeastNumber
<1>2. k # 0
  OBVIOUS
<1>3. k - 1 \in Nat /\ k - 1 <= hi - lo /\ k - 1 \notin B
  BY <1>1, <1>2
<1>4. hi - (k - 1) \in S
  BY <1>3
<1>5. hi - k \in lo..hi /\ hi - k # hi /\ (hi - k) + 1 = hi - (k - 1)
  BY <1>2
<1>6. QED
  BY <1>4, <1>5

\* A chain of the steps F from last, at hi, back to lo.
GoesBack(f, lo, hi, R, last, F) ==
  /\ f \in [lo..hi -> R] /\ f[hi] = last
  /\ \A n \in lo..hi : n # hi => f[n] = F[n][f[n + 1]]

\* There is such a chain.
LEMMA BackwardsExists ==
  ASSUME NEW lo \in Nat, NEW hi \in Nat, NEW R, NEW last \in R,
         NEW F \in [lo..hi -> [R -> R]], lo <= hi
  PROVE  \E f : GoesBack(f, lo, hi, R, last, F)
<1> DEFINE S == {m \in lo..hi : \E f : GoesBack(f, m, hi, R, last, F)}
<1>1. hi \in S
  <2>1. GoesBack([n \in hi..hi |-> last], hi, hi, R, last, F)
    BY DEF GoesBack
  <2>2. QED
    BY <2>1
<1>2. ASSUME NEW m \in lo..hi, m # hi, m + 1 \in S PROVE m \in S
  <2>1. PICK f : GoesBack(f, m + 1, hi, R, last, F)
    BY <1>2
  <2>2. /\ f \in [(m + 1)..hi -> R] /\ f[hi] = last
        /\ \A n \in (m + 1)..hi : n # hi => f[n] = F[n][f[n + 1]]
    BY <2>1 DEF GoesBack
  <2>3. m + 1 \in (m + 1)..hi /\ f[m + 1] \in R
    BY <1>2, <2>2
  <2>4. F[m][f[m + 1]] \in R
    BY <2>3
  <2> DEFINE g == [n \in m..hi |-> IF n = m THEN F[m][f[m + 1]] ELSE f[n]]
  <2>5. g \in [m..hi -> R]
    BY <2>2, <2>4
  <2>6. g[hi] = last
    BY <1>2, <2>2
  <2>7. ASSUME NEW n \in m..hi, n # hi PROVE g[n] = F[n][g[n + 1]]
    <3>1. n + 1 \in m..hi /\ g[n + 1] = f[n + 1]
      BY <2>7
    <3>2. CASE n = m
      BY <3>1, <3>2
    <3>3. CASE n # m
      <4>1. n \in (m + 1)..hi /\ g[n] = f[n]
        BY <3>3
      <4>2. QED
        BY <2>2, <2>7, <3>1, <4>1
    <3>4. QED
      BY <3>2, <3>3
  <2> HIDE DEF g
  <2>8. GoesBack(g, m, hi, R, last, F)
    BY <2>5, <2>6, <2>7 DEF GoesBack
  <2>9. QED
    BY <2>8
<1> HIDE DEF S
<1>3. \A n \in lo..hi : n \in S
  BY <1>1, <1>2, Downwards
<1>4. lo \in S
  BY <1>3
<1>5. QED
  BY <1>4 DEF S

-----------------------------------------------------------------------------
(* What executing entries comes to                                         *)

Tables == [Rows -> Values \cup {Absent}]
Results == [ok : BOOLEAN, table : Tables]
Intact(t) == [ok |-> TRUE, table |-> t]

LEMMA UndoGivesResult ==
  ASSUME NEW result \in Results, NEW e \in Entries
  PROVE  Undo(result, e) \in Results
<1>1. result.table \in Tables /\ e.row \in Rows /\ e.old \in Values \cup {Absent}
      /\ e.undo \in {"insert", "update", "delete"}
  BY DEF Results, Entries
<1>2. [result EXCEPT !.table[e.row] = e.old] \in Results
  BY <1>1 DEF Results, Tables
<1>3. [result EXCEPT !.ok = FALSE] \in Results
  BY DEF Results
<1> DEFINE Set == [result EXCEPT !.table[e.row] = e.old]
<1>4. Undo(result, e) \in {result, Set, [result EXCEPT !.ok = FALSE]}
  BY <1>1 DEF Undo
<1>5. QED
  BY <1>2, <1>3, <1>4

\* The chain that Undone chooses: any other one has the same end.
LEMMA UndoneIs ==
  ASSUME NEW es, Len(es) \in Nat, NEW result, NEW f,
         f = [n \in 0..Len(es) |->
                IF n = Len(es) THEN result ELSE Undo(f[n + 1], es[n + 1])]
  PROVE  Undone(es, result) = f[0]
<1> DEFINE Back(g, n) == IF n = Len(es) THEN result ELSE Undo(g[n + 1], es[n + 1])
           IsChain(g) == g = [n \in 0..Len(es) |-> Back(g, n)]
<1>1. Undone(es, result) = (CHOOSE g : IsChain(g))[0]
  BY DEF Undone
<1>2. IsChain(f)
  OBVIOUS
<1>3. ASSUME NEW g, IsChain(g) PROVE \A n \in 0..Len(es) : g[n] = Back(g, n)
  <2> HIDE DEF Back
  <2>1. QED
    BY <1>3
<1> HIDE DEF IsChain
<1>4. PICK g : IsChain(g) /\ Undone(es, result) = g[0]
  BY <1>1, <1>2
<1>5. \A n \in 0..Len(es) : g[n] = Back(g, n) /\ f[n] = Back(f, n)
  BY <1>2, <1>3, <1>4
<1> DEFINE S == {n \in 0..Len(es) : g[n] = f[n]}
<1>6. Len(es) \in S
  <2>1. Len(es) \in 0..Len(es) /\ Back(g, Len(es)) = Back(f, Len(es))
    OBVIOUS
  <2>2. QED
    BY <1>5, <2>1
<1>7. \A n \in 0..Len(es) : n # Len(es) /\ n + 1 \in S => n \in S
  BY <1>5
<1> HIDE DEF S
<1>8. 0 \in S
  <2>1. PICK lo \in Nat : lo = 0
    OBVIOUS
  <2>2. PICK hi \in Nat : hi = Len(es)
    OBVIOUS
  <2>3. lo \in lo..hi
    BY <2>1, <2>2
  <2>4. \A n \in lo..hi : n \in S
    <3>1. hi \in S /\ \A n \in lo..hi : n # hi /\ n + 1 \in S => n \in S
      BY <1>6, <1>7, <2>1, <2>2
    <3>2. QED
      BY <3>1, Downwards
  <2>5. QED
    BY <2>1, <2>3, <2>4
<1>9. QED
  BY <1>4, <1>8 DEF S

LEMMA UndoneChain ==
  ASSUME NEW es \in Seq(Entries), NEW result \in Results
  PROVE  \E f \in [0..Len(es) -> Results] :
           /\ f[Len(es)] = result
           /\ \A n \in 0..Len(es) : n # Len(es) => f[n] = Undo(f[n + 1], es[n + 1])
           /\ Undone(es, result) = f[0]
<1>1. PICK hi \in Nat : hi = Len(es)
  OBVIOUS
<1>2. PICK lo \in Nat : lo = 0 /\ lo <= hi
  BY <1>1
<1>3. PICK F : F = [n \in lo..hi |-> [x \in Results |->
                      IF n = hi THEN x ELSE Undo(x, es[n + 1])]]
  OBVIOUS
<1>4. F \in [lo..hi -> [Results -> Results]]
  <2>1. ASSUME NEW n \in lo..hi, n # hi PROVE es[n + 1] \in Entries
    BY <1>1, <1>2, <2>1
  <2>2. \A n \in lo..hi, x \in Results :
          (IF n = hi THEN x ELSE Undo(x, es[n + 1])) \in Results
    BY <2>1, UndoGivesResult
  <2>3. QED
    BY <1>3, <2>2
<1>5. PICK f : GoesBack(f, lo, hi, Results, result, F)
  BY <1>1, <1>2, <1>4, BackwardsExists
<1>6. ASSUME NEW n \in lo..hi, n # hi PROVE f[n] = Undo(f[n + 1], es[n + 1])
  <2>1. n + 1 \in lo..hi
    BY <1>2, <1>6
  <2>2. f[n + 1] \in Results
    BY <1>5, <2>1 DEF GoesBack
  <2>3. F[n][f[n + 1]] = Undo(f[n + 1], es[n + 1])
    BY <1>3, <1>6, <2>2
  <2>4. QED
    BY <1>5, <1>6, <2>3 DEF GoesBack
<1>7. f = [n \in 0..Len(es) |->
             IF n = Len(es) THEN result ELSE Undo(f[n + 1], es[n + 1])]
  BY <1>1, <1>2, <1>5, <1>6 DEF GoesBack
<1>8. Undone(es, result) = f[0]
  BY <1>1, <1>7, UndoneIs
<1>9. QED
  BY <1>1, <1>2, <1>5, <1>6, <1>8 DEF GoesBack

LEMMA UndoneTyped ==
  ASSUME NEW es \in Seq(Entries), NEW result \in Results
  PROVE  Undone(es, result) \in Results
<1>1. PICK f \in [0..Len(es) -> Results] : Undone(es, result) = f[0]
  BY UndoneChain
<1>2. QED
  BY <1>1

LEMMA UndoneEmpty ==
  ASSUME NEW result \in Results
  PROVE  Undone(<<>>, result) = result
<1>1. PICK es : es = <<>>
  OBVIOUS
<1>2. es \in Seq(Entries) /\ Len(es) = 0
  BY <1>1
<1>3. PICK f \in [0..Len(es) -> Results] :
           /\ f[Len(es)] = result
           /\ \A n \in 0..Len(es) : n # Len(es) => f[n] = Undo(f[n + 1], es[n + 1])
           /\ Undone(es, result) = f[0]
  BY <1>2, UndoneChain
<1>4. QED
  BY <1>1, <1>2, <1>3

LEMMA IntactEmpty ==
  ASSUME NEW t \in Tables
  PROVE  Intact(t) \in Results /\ Undone(<<>>, Intact(t)) = Intact(t)
<1>1. Intact(t) \in Results
  BY DEF Intact, Results
<1>2. QED
  BY <1>1, UndoneEmpty

\* The statement recorded last is executed first.
LEMMA UndoneAppend ==
  ASSUME NEW es \in Seq(Entries), NEW e \in Entries, NEW result \in Results
  PROVE  Undone(Append(es, e), result) = Undone(es, Undo(result, e))
<1>1. PICK fs : fs = Append(es, e)
  OBVIOUS
<1>2. /\ fs \in Seq(Entries) /\ Len(fs) = Len(es) + 1 /\ fs[Len(fs)] = e
      /\ \A n \in 1..Len(es) : fs[n] = es[n]
  BY <1>1
<1>3. PICK n \in Nat : n = Len(es)
  OBVIOUS
<1>4. PICK f : /\ f \in [0..Len(es) -> Results] /\ f[Len(es)] = Undo(result, e)
               /\ \A i \in 0..Len(es) : i # Len(es) => f[i] = Undo(f[i + 1], es[i + 1])
               /\ Undone(es, Undo(result, e)) = f[0]
  BY UndoneChain, UndoGivesResult
<1> DEFINE g == [i \in 0..(n + 1) |-> IF i = n + 1 THEN result ELSE f[i]]
<1>5. ASSUME NEW i \in 0..(n + 1), i # n + 1 PROVE g[i] = Undo(g[i + 1], fs[i + 1])
  <2>1. CASE i = n
    BY <1>2, <1>3, <1>4, <2>1
  <2>2. CASE i # n
    <3>1. i \in 0..n /\ i + 1 \in 1..n /\ i + 1 # n + 1
      BY <1>5, <2>2
    <3>2. g[i] = f[i] /\ g[i + 1] = f[i + 1] /\ fs[i + 1] = es[i + 1]
      BY <1>2, <1>3, <3>1
    <3>3. QED
      BY <1>3, <1>4, <2>2, <3>1, <3>2
  <2>3. QED
    BY <2>1, <2>2
<1>6. g[n + 1] = result /\ g[0] = f[0] /\ DOMAIN g = 0..(n + 1)
  OBVIOUS
<1>7. g = [i \in 0..(n + 1) |-> IF i = n + 1 THEN result ELSE Undo(g[i + 1], fs[i + 1])]
  BY <1>5, <1>6
<1> HIDE DEF g
<1>8. Undone(fs, result) = g[0]
  BY <1>2, <1>3, <1>7, UndoneIs
<1>9. QED
  BY <1>1, <1>4, <1>6, <1>8

-----------------------------------------------------------------------------
(* What a revert to a group comes to                                       *)

Group == [run : Runs, status : {"pending", "completed", "reverted"},
          entries : Seq(Entries), snapshot : Tables, mixed : BOOLEAN]

\* The tables there were, from the one the group g was opened on to d, which
\* there is now: one for each group since, which leads back to the one before.
TracesTo(gs, g, t, d) ==
  /\ t \in [g..(Len(gs) + 1) -> Tables]
  /\ t[g] = gs[g].snapshot /\ t[Len(gs) + 1] = d
  /\ \A h \in g..Len(gs) :
       IF gs[h].status = "reverted" THEN t[h] = t[h + 1]
       ELSE Undone(gs[h].entries, Intact(t[h + 1])) = Intact(t[h])

LEMMA LogOfGroups ==
  ASSUME NEW gs \in Seq(Group)
  PROVE  /\ Len(gs) \in Nat /\ DOMAIN gs = 1..Len(gs)
         /\ \A g \in 1..Len(gs) : gs[g] \in Group
OBVIOUS

LEMMA SameLength ==
  ASSUME NEW gs \in Seq(Group), NEW hs, DOMAIN hs = DOMAIN gs,
         hs \in [DOMAIN gs -> Group]
  PROVE  hs \in Seq(Group) /\ Len(hs) = Len(gs)
<1>1. PICK n \in Nat : n = Len(gs) /\ DOMAIN gs = 1..n
  BY LogOfGroups
<1>2. hs \in Seq(Group)
  BY <1>1, SeqDef
<1>3. Len(hs) \in Nat /\ DOMAIN hs = 1..Len(hs)
  BY <1>2
<1>4. QED
  BY <1>1, <1>2, <1>3

LEMMA ReplayIs ==
  ASSUME Len(groups) \in Nat, NEW g \in 1..Len(groups), NEW f,
         f = [h \in g..(Len(groups) + 1) |->
                IF h > Len(groups) THEN [ok |-> TRUE, table |-> data]
                ELSE IF Affected(h) THEN Undone(groups[h].entries, f[h + 1])
                ELSE f[h + 1]]
  PROVE  Replay(g) = f[g]
<1> DEFINE Back(q, h) ==
             IF h > Len(groups) THEN [ok |-> TRUE, table |-> data]
             ELSE IF Affected(h) THEN Undone(groups[h].entries, q[h + 1])
             ELSE q[h + 1]
           IsChain(q) == q = [h \in g..(Len(groups) + 1) |-> Back(q, h)]
<1>1. Replay(g) = (CHOOSE q : IsChain(q))[g]
  BY DEF Replay
<1>2. IsChain(f)
  OBVIOUS
<1>3. ASSUME NEW q, IsChain(q)
      PROVE  \A h \in g..(Len(groups) + 1) : q[h] = Back(q, h)
  <2> HIDE DEF Back
  <2>1. QED
    BY <1>3
<1> HIDE DEF IsChain
<1>4. PICK q : IsChain(q) /\ Replay(g) = q[g]
  BY <1>1, <1>2
<1>5. PICK hi \in Nat : hi = Len(groups) + 1
  OBVIOUS
<1>6. \A h \in g..hi : q[h] = Back(q, h) /\ f[h] = Back(f, h)
  BY <1>2, <1>3, <1>4, <1>5
<1> DEFINE S == {h \in g..hi : q[h] = f[h]}
<1>7. hi \in S
  <2>1. hi \in g..hi /\ Back(q, hi) = Back(f, hi)
    BY <1>5
  <2>2. QED
    BY <1>6, <2>1
<1>8. \A h \in g..hi : h # hi /\ h + 1 \in S => h \in S
  <2>1. ASSUME NEW h \in g..hi, h # hi, h + 1 \in S PROVE Back(q, h) = Back(f, h)
    BY <1>5, <2>1
  <2>2. QED
    BY <1>6, <2>1
<1> HIDE DEF S
<1>9. g \in g..hi /\ g \in Nat
  BY <1>5
<1>10. g \in S
  BY <1>7, <1>8, <1>9, Downwards
<1>11. QED
  BY <1>4, <1>10 DEF S

\* Going back along the tables there were: a group that is neither completed
\* nor reverted changes nothing if it has no entries.
LEMMA ReplayFollows ==
  ASSUME data \in Tables, groups \in Seq(Group), NEW g \in 1..Len(groups),
         NEW k \in g..Len(groups), NEW t, TracesTo(groups, g, t, data),
         \A h \in g..Len(groups) :
           groups[h].status = "pending" => groups[h].entries = <<>>
  PROVE  Replay(k) = Intact(t[k])
<1>1. Len(groups) \in Nat /\ k \in 1..Len(groups)
      /\ \A h \in 1..Len(groups) : groups[h] \in Group
  BY LogOfGroups
<1> DEFINE n == Len(groups)
           f == [h \in k..(n + 1) |-> Intact(t[h])]
<1>2. \A h \in g..(n + 1) : t[h] \in Tables /\ Intact(t[h]) \in Results
  BY DEF TracesTo, Intact, Results
<1>3. ASSUME NEW h \in k..n, ~Affected(h) PROVE Intact(t[h]) = Intact(t[h + 1])
  <2>1. CASE groups[h].status = "reverted"
    BY <1>1, <2>1 DEF TracesTo
  <2>2. CASE groups[h].status = "pending"
    <3>1. h \in g..Len(groups) /\ groups[h].entries = <<>>
      BY <1>1, <2>2
    <3>2. Undone(<<>>, Intact(t[h + 1])) = Intact(t[h])
      <4>1. Undone(groups[h].entries, Intact(t[h + 1])) = Intact(t[h])
        BY <2>2, <3>1 DEF TracesTo
      <4>2. QED
        BY <3>1, <4>1
    <3>3. h + 1 \in g..(n + 1)
      BY <1>1
    <3>4. QED
      BY <1>2, <3>2, <3>3, UndoneEmpty
  <2>3. QED
    BY <1>1, <1>3, <2>1, <2>2 DEF Group, Affected
<1>4. ASSUME NEW h \in k..n, Affected(h)
      PROVE  Intact(t[h]) = Undone(groups[h].entries, Intact(t[h + 1]))
  BY <1>1, <1>4 DEF TracesTo, Affected
<1>5. Intact(t[n + 1]) = [ok |-> TRUE, table |-> data]
  BY DEF TracesTo, Intact
<1>6. \A h \in k..(n + 1) :
        f[h] = IF h > n THEN [ok |-> TRUE, table |-> data]
               ELSE IF Affected(h) THEN Undone(groups[h].entries, f[h + 1])
               ELSE f[h + 1]
  <2> SUFFICES ASSUME NEW h \in k..(n + 1)
               PROVE  f[h] = IF h > n THEN [ok |-> TRUE, table |-> data]
                             ELSE IF Affected(h) THEN Undone(groups[h].entries, f[h + 1])
                             ELSE f[h + 1]
    OBVIOUS
  <2>1. CASE h > n
    BY <1>1, <1>5, <2>1
  <2>2. CASE h <= n
    <3>1. h \in k..n /\ h + 1 \in k..(n + 1) /\ ~(h > n)
      BY <1>1, <2>2
    <3>2. f[h] = Intact(t[h]) /\ f[h + 1] = Intact(t[h + 1])
      BY <3>1
    <3> HIDE DEF f
    <3>3. QED
      BY <1>3, <1>4, <3>1, <3>2
  <2>3. QED
    BY <1>1, <2>1, <2>2
<1>7. DOMAIN f = k..(n + 1) /\ k \in k..(n + 1)
  BY <1>1
<1>8. f[k] = Intact(t[k])
  BY <1>7
<1>9. f = [h \in k..(n + 1) |-> f[h]]
  OBVIOUS
<1> HIDE DEF f
<1>10. f = [h \in k..(n + 1) |->
              IF h > n THEN [ok |-> TRUE, table |-> data]
              ELSE IF Affected(h) THEN Undone(groups[h].entries, f[h + 1])
              ELSE f[h + 1]]
  BY <1>6, <1>9
<1>11. Replay(k) = f[k]
  BY <1>1, <1>10, ReplayIs
<1>12. QED
  BY <1>8, <1>11

\* What executing the entry of a change comes to, right after the change.
LEMMA EntryUndoes ==
  ASSUME data \in Tables, NEW r \in Runs, NEW x \in Rows,
         NEW v \in Values \cup {Absent}, data[x] # v, NEW d,
         d = [data EXCEPT ![x] = v]
  PROVE  /\ Entry(r, x, v) \in Entries
         /\ Undo(Intact(d), Entry(r, x, v)) = Intact(data)
<1>1. PICK e : e = Entry(r, x, v)
  OBVIOUS
<1>2. /\ e \in Entries /\ e.row = x /\ e.old = data[x]
      /\ data[x] = Absent => e.undo = "delete"
      /\ data[x] # Absent /\ v = Absent => e.undo = "insert"
      /\ data[x] # Absent /\ v # Absent => e.undo = "update"
  BY <1>1 DEF Entry, Entries, Tables
<1>3. PICK i : i = Intact(d)
  OBVIOUS
<1>4. i.ok = TRUE /\ i.table = d /\ d[x] = v
  BY <1>3 DEF Intact, Tables
<1>5. [i EXCEPT !.table[e.row] = e.old] = Intact(data)
  BY <1>2, <1>3, <1>4 DEF Intact, Tables
<1>6. Undo(i, e) = [i EXCEPT !.table[e.row] = e.old]
  BY <1>2, <1>4 DEF Undo
<1>7. QED
  BY <1>1, <1>2, <1>3, <1>5, <1>6

LEMMA ReplayTyped ==
  ASSUME data \in Tables, groups \in Seq(Group), NEW g \in 1..Len(groups)
  PROVE  Replay(g) \in Results
<1>1. PICK n \in Nat : n = Len(groups)
  BY LogOfGroups
<1>2. PICK hi \in Nat : hi = n + 1
  OBVIOUS
<1>3. PICK F : F = [h \in g..hi |-> [x \in Results |->
                      IF h <= n /\ Affected(h) THEN Undone(groups[h].entries, x) ELSE x]]
  OBVIOUS
<1>4. F \in [g..hi -> [Results -> Results]]
  <2>1. ASSUME NEW h \in g..hi, h <= n PROVE groups[h].entries \in Seq(Entries)
    <3>1. h \in 1..Len(groups)
      BY <1>1, <2>1
    <3>2. groups[h] \in Group
      BY <3>1, LogOfGroups
    <3>3. QED
      BY <3>2 DEF Group
  <2>2. \A h \in g..hi, x \in Results :
          (IF h <= n /\ Affected(h) THEN Undone(groups[h].entries, x) ELSE x) \in Results
    BY <2>1, UndoneTyped
  <2>3. QED
    BY <1>3, <2>2
<1>5. [ok |-> TRUE, table |-> data] \in Results
  BY DEF Results
<1>6. g \in Nat /\ g <= hi
  BY <1>1, <1>2
<1>7. PICK f : GoesBack(f, g, hi, Results, [ok |-> TRUE, table |-> data], F)
  BY <1>4, <1>5, <1>6, BackwardsExists
<1>8. ASSUME NEW h \in g..hi, h # hi
      PROVE  f[h] = IF Affected(h) THEN Undone(groups[h].entries, f[h + 1]) ELSE f[h + 1]
  <2>1. h + 1 \in g..hi /\ h <= n
    BY <1>2, <1>8
  <2>2. f[h + 1] \in Results
    BY <1>7, <2>1 DEF GoesBack
  <2>3. F[h][f[h + 1]] =
          IF Affected(h) THEN Undone(groups[h].entries, f[h + 1]) ELSE f[h + 1]
    BY <1>3, <2>1, <2>2
  <2>4. QED
    BY <1>7, <1>8, <2>3 DEF GoesBack
<1>9. \A h \in g..hi : h > n <=> h = hi
  BY <1>2
<1>10. f = [h \in g..(n + 1) |->
             IF h > n THEN [ok |-> TRUE, table |-> data]
             ELSE IF Affected(h) THEN Undone(groups[h].entries, f[h + 1])
             ELSE f[h + 1]]
  <2>1. f = [h \in g..hi |-> f[h]] /\ f[hi] = [ok |-> TRUE, table |-> data]
    BY <1>7 DEF GoesBack
  <2>2. QED
    BY <1>2, <1>8, <1>9, <2>1
<1>11. Replay(g) = f[g]
  BY <1>1, <1>10, ReplayIs
<1>12. QED
  BY <1>6, <1>7, <1>11 DEF GoesBack

-----------------------------------------------------------------------------
(* The table as it was when a group was opened                             *)

\* A run that is being answered writes into the group h.
Live(h) ==
  \E r \in Runs : phase[r] = "running" /\ bound[r] # None /\ current[bound[r]] = h

\* A group whose changes count: no other run was active, all were recorded,
\* and whatever group since has entries can be reverted, or will be closed.
Sealed(g) ==
  \A h \in g..Len(groups) :
    groups[h].status = "pending" /\ groups[h].entries # <<>> => Live(h)
Restorable(g) ==
  /\ ~groups[g].mixed /\ Sealed(g)
  /\ groups[g].status = "completed" \/ Live(g)

\* While there is such a group, runs write into the last one only.
WritesLast ==
  (\E g \in DOMAIN groups : ~groups[g].mixed) =>
    \A r \in Runs : phase[r] = "running" /\ bound[r] # None =>
      current[bound[r]] \in {None, Len(groups)}

\* From the table there is now, the entries lead back to the group's snapshot.
TracesBack ==
  \A g \in DOMAIN groups : Restorable(g) => \E t : TracesTo(groups, g, t, data)

RevertInv == TypeOK /\ UndoInv /\ WritesLast /\ TracesBack

LEMMA LogTyped ==
  ASSUME TypeOK
  PROVE  data \in Tables /\ groups \in Seq(Group)
BY DEF TypeOK, Tables, Group

\* Nothing is restorable in a log whose groups are all marked as mixed.
LEMMA MixedCounts ==
  ASSUME NEW gs \in Seq(Group)
  PROVE  /\ Mixed(gs) \in Seq(Group) /\ Len(Mixed(gs)) = Len(gs)
         /\ \A g \in DOMAIN Mixed(gs) : Mixed(gs)[g].mixed
<1>1. PICK hs : hs = Mixed(gs)
  OBVIOUS
<1>2. DOMAIN hs = DOMAIN gs /\ \A g \in DOMAIN gs : hs[g] = [gs[g] EXCEPT !.mixed = TRUE]
  BY <1>1 DEF Mixed
<1>3. ASSUME NEW g \in DOMAIN gs PROVE hs[g] \in Group /\ hs[g].mixed
  <2>1. gs[g] \in Group
    BY LogOfGroups
  <2>2. PICK x \in Group : x = gs[g] /\ hs[g] = [x EXCEPT !.mixed = TRUE]
    BY <1>2, <2>1
  <2>3. [x EXCEPT !.mixed = TRUE] \in Group /\ [x EXCEPT !.mixed = TRUE].mixed
    BY DEF Group
  <2>4. QED
    BY <2>2, <2>3
<1>4. hs \in [DOMAIN gs -> Group]
  BY <1>1, <1>3 DEF Mixed
<1>5. QED
  BY <1>1, <1>2, <1>3, <1>4, SameLength

LEMMA MixedNothing ==
  ASSUME \A g \in DOMAIN groups' : groups'[g].mixed
  PROVE  WritesLast' /\ TracesBack'
BY DEF WritesLast, TracesBack, Restorable

\* A step after which fewer groups are being written.
LEMMA FewerLive ==
  ASSUME WritesLast, TracesBack, UNCHANGED <<groups, data, current>>,
         \A r \in Runs : phase'[r] = "running" =>
           phase[r] = "running" /\ bound'[r] = bound[r]
  PROVE  WritesLast' /\ TracesBack'
<1>1. \A h : Live(h)' => Live(h)
  BY DEF Live
<1>2. \A g : Restorable(g)' => Restorable(g)
  BY <1>1 DEF Restorable, Sealed
<1>3. WritesLast'
  BY DEF WritesLast
<1>4. TracesBack'
  BY <1>2 DEF TracesBack
<1>5. QED
  BY <1>3, <1>4

\* A group is opened on the table there is.  Only its own run is active, so all
\* others that are restorable are closed, or have no entries.
LEMMA StartTraces ==
  ASSUME TypeOK, WritesLast, TracesBack, NEW r \in Runs, OnRunStart(r),
         UNCHANGED <<data, bound>>,
         \A q \in Runs \ {r} : phase'[q] = phase[q],
         bound[r] # None
  PROVE  WritesLast' /\ TracesBack'
<1> DEFINE e == NewGroup(r)
           opened == Append(groups, e)
<1>1. PICK n \in Nat : n = Len(groups) + 1
  BY LogTyped, LogOfGroups
<1>2. e \in Group /\ e.status = "pending" /\ e.entries = <<>> /\ e.snapshot = data
  BY LogTyped DEF NewGroup, Group
<1> HIDE DEF e
<1>3. /\ opened \in Seq(Group) /\ Len(opened) = n /\ DOMAIN opened = 1..n
      /\ opened[n] = e /\ \A g \in 1..(n - 1) : opened[g] = groups[g]
  BY <1>1, <1>2, LogTyped
<1>4. groups' = IF Alone(r) THEN opened ELSE Mixed(opened)
  BY DEF OnRunStart, e
<1>5. current' = [current EXCEPT ![bound[r]] = n]
  BY <1>1 DEF OnRunStart
<1> HIDE DEF opened
<1>6. CASE ~Alone(r)
  BY <1>3, <1>4, <1>6, MixedCounts, MixedNothing
<1>7. CASE Alone(r)
  <2>1. \A q \in Runs \ {r} : phase'[q] # "running"
    BY <1>7 DEF Alone, Active
  <2>2. current'[bound[r]] = n
    BY <1>5 DEF TypeOK, None
  <2>3. \A h : Live(h)' => h = n
    BY <2>1, <2>2 DEF Live
  <2>4. WritesLast'
    BY <1>3, <1>4, <1>7, <2>1, <2>2 DEF WritesLast
  <2>5. ASSUME NEW g \in 1..n, Restorable(g)'
        PROVE  \E t : TracesTo(opened, g, t, data)
    <3>1. CASE g = n
      <4> DEFINE t == [h \in n..(n + 1) |-> data]
      <4>1. t \in [n..(n + 1) -> Tables] /\ t[n] = data /\ t[n + 1] = data
        BY LogTyped
      <4>2. Undone(<<>>, Intact(data)) = Intact(data)
        BY LogTyped, IntactEmpty
      <4>3. TracesTo(opened, n, t, data)
        BY <1>2, <1>3, <4>1, <4>2 DEF TracesTo
      <4>4. QED
        BY <3>1, <4>3
    <3>2. CASE g # n
      <4>1. g \in 1..(n - 1) /\ g \in DOMAIN groups /\ opened[g] = groups[g]
        BY <1>1, <1>3, <3>2, LogTyped, LogOfGroups
      <4>2. Restorable(g)
        <5>1. ~groups[g].mixed /\ groups[g].status = "completed"
          BY <1>4, <1>7, <2>3, <2>5, <3>2, <4>1 DEF Restorable
        <5>2. ASSUME NEW h \in g..Len(groups), groups[h].status = "pending"
              PROVE  groups[h].entries = <<>>
          <6>1. h \in 1..(n - 1) /\ h \in g..n /\ h # n
            BY <1>1
          <6>2. opened[h] = groups[h] /\ groups' = opened /\ Len(groups') = n
            BY <1>3, <1>4, <1>7, <6>1
          <6>3. QED
            BY <2>3, <2>5, <5>2, <6>1, <6>2 DEF Restorable, Sealed
        <5>3. QED
          BY <5>1, <5>2 DEF Restorable, Sealed
      <4>3. PICK t : TracesTo(groups, g, t, data)
        BY <4>1, <4>2 DEF TracesBack
      <4> DEFINE u == [h \in g..(n + 1) |-> IF h = n + 1 THEN data ELSE t[h]]
      <4>4. /\ t \in [g..n -> Tables] /\ t[g] = groups[g].snapshot /\ t[n] = data
            /\ \A h \in g..(n - 1) :
                 IF groups[h].status = "reverted" THEN t[h] = t[h + 1]
                 ELSE Undone(groups[h].entries, Intact(t[h + 1])) = Intact(t[h])
        BY <1>1, <4>3 DEF TracesTo
      <4>5. /\ u \in [g..(n + 1) -> Tables] /\ u[g] = opened[g].snapshot
            /\ u[n] = data /\ u[n + 1] = data
        BY <4>1, <4>4, LogTyped
      <4>6. ASSUME NEW h \in g..n
            PROVE  IF opened[h].status = "reverted" THEN u[h] = u[h + 1]
                   ELSE Undone(opened[h].entries, Intact(u[h + 1])) = Intact(u[h])
        <5>1. CASE h = n
          <6>1. Undone(<<>>, Intact(data)) = Intact(data)
            BY LogTyped, IntactEmpty
          <6>2. QED
            BY <1>2, <1>3, <4>5, <5>1, <6>1
        <5>2. CASE h # n
          <6>1. h \in g..(n - 1) /\ h \in 1..(n - 1) /\ h + 1 \in g..n
            BY <4>1, <5>2
          <6>2. u[h] = t[h] /\ u[h + 1] = t[h + 1] /\ opened[h] = groups[h]
            BY <1>3, <6>1
          <6> HIDE DEF u
          <6>3. QED
            BY <4>4, <6>1, <6>2
        <5>3. QED
          BY <5>1, <5>2
      <4> HIDE DEF u
      <4>7. TracesTo(opened, g, u, data)
        BY <1>3, <4>5, <4>6 DEF TracesTo
      <4>8. QED
        BY <4>7
    <3>3. QED
      BY <3>1, <3>2
  <2>6. TracesBack'
    BY <1>3, <1>4, <1>7, <2>5 DEF TracesBack
  <2>7. QED
    BY <2>4, <2>6
<1>8. QED
  BY <1>6, <1>7

\* Closing the run's group: what it holds stays.
LEMMA EndTraces ==
  ASSUME TypeOK, CurrentIsOpen, WritesLast, TracesBack, NEW r \in Runs,
         phase[r] = "running", phase'[r] # "running",
         \A q \in Runs \ {r} : phase'[q] = phase[q],
         OnRunEnd(r), UNCHANGED <<data, bound>>
  PROVE  WritesLast' /\ TracesBack'
<1> DEFINE m == bound[r]
           c == IF m = None THEN None ELSE current[m]
<1>1. CASE c = None
  <2>1. UNCHANGED <<groups, current>>
    BY <1>1 DEF OnRunEnd
  <2>2. QED
    BY <2>1, FewerLive
<1>2. CASE c # None
  <2>1. m # None /\ m \in Managers /\ c = current[m]
    BY <1>2 DEF TypeOK
  <2>2. c \in DOMAIN groups /\ groups[c].status = "pending" /\ Live(c)
    BY <1>2, <2>1 DEF CurrentIsOpen, Live
  <2>3. groups' = [groups EXCEPT ![c].status = "completed"]
        /\ current' = [current EXCEPT ![m] = None]
    BY <1>2 DEF OnRunEnd
  <2> HIDE DEF c, m
  <2>4. groups \in Seq(Group) /\ DOMAIN groups = 1..Len(groups) /\ Len(groups) \in Nat
        /\ \A g \in 1..Len(groups) : groups[g] \in Group
    BY LogTyped, LogOfGroups
  <2>5. /\ DOMAIN groups' = DOMAIN groups
        /\ \A h \in DOMAIN groups \ {c} : groups'[h] = groups[h]
        /\ groups'[c] = [groups[c] EXCEPT !.status = "completed"]
    BY <2>2, <2>3
  <2>6. groups'[c] \in Group /\ groups'[c].mixed = groups[c].mixed
        /\ groups'[c].entries = groups[c].entries
        /\ groups'[c].snapshot = groups[c].snapshot
        /\ groups'[c].status = "completed"
    BY <2>2, <2>4, <2>5 DEF Group
  <2>7. Len(groups') = Len(groups)
    <3>1. groups' \in [DOMAIN groups -> Group]
      BY <2>3, <2>4, <2>5, <2>6
    <3>2. QED
      BY <2>4, <2>5, <3>1, SameLength
  <2>8. \A k \in Managers : current'[k] = IF k = m THEN None ELSE current[k]
    BY <2>1, <2>3 DEF TypeOK
  <2>9. \A q \in Runs : phase'[q] = "running" => phase[q] = "running"
    OBVIOUS
  <2>10. \A q \in Runs : bound[q] # None => bound[q] \in Managers
    BY DEF TypeOK
  <2>11. \A h \in DOMAIN groups : Live(h)' => Live(h)
    BY <2>4, <2>8, <2>9, <2>10 DEF Live, None
  <2>12. WritesLast'
    <3>1. ASSUME NEW g \in DOMAIN groups, ~groups'[g].mixed PROVE ~groups[g].mixed
      BY <2>5, <2>6, <3>1
    <3>2. QED
      BY <2>5, <2>7, <2>8, <2>9, <2>10, <3>1 DEF WritesLast
  <2>13. ASSUME NEW g \in DOMAIN groups, Restorable(g)' PROVE Restorable(g)
    <3>1. ~groups[g].mixed
      BY <2>5, <2>6, <2>13 DEF Restorable
    <3>2. groups[g].status = "completed" \/ Live(g)
      BY <2>2, <2>5, <2>11, <2>13 DEF Restorable
    <3>3. ASSUME NEW h \in g..Len(groups), groups[h].status = "pending",
                 groups[h].entries # <<>>
          PROVE  Live(h)
      <4>1. h \in DOMAIN groups /\ h \in g..Len(groups')
        BY <2>4, <2>7
      <4>2. CASE h = c
        BY <2>2, <4>2
      <4>3. CASE h # c
        <5>1. groups'[h] = groups[h]
          BY <2>5, <4>1, <4>3
        <5>2. Live(h)'
          BY <2>13, <3>3, <4>1, <5>1 DEF Restorable, Sealed
        <5>3. QED
          BY <2>11, <4>1, <5>2
      <4>4. QED
        BY <4>2, <4>3
    <3>4. QED
      BY <3>1, <3>2, <3>3 DEF Restorable, Sealed
  <2>14. ASSUME NEW g \in DOMAIN groups, NEW t, TracesTo(groups, g, t, data)
         PROVE  TracesTo(groups, g, t, data)'
    <3>1. groups'[g].snapshot = groups[g].snapshot
      BY <2>5, <2>6
    <3>2. ASSUME NEW h \in g..Len(groups)
          PROVE  /\ groups'[h].entries = groups[h].entries
                 /\ groups'[h].status = "reverted" <=> groups[h].status = "reverted"
      <4>1. h \in DOMAIN groups
        BY <2>4
      <4>2. QED
        BY <2>2, <2>5, <2>6, <4>1
    <3>3. QED
      BY <2>7, <2>14, <3>1, <3>2 DEF TracesTo
  <2>15. TracesBack'
    BY <2>5, <2>13, <2>14 DEF TracesBack
  <2>16. QED
    BY <2>12, <2>15
<1>3. QED
  BY <1>1, <1>2

\* A change that counts is recorded in the last group: the new entry leads back
\* to the table before, and the older entries from there on as they did.
LEMMA WriteTraces ==
  ASSUME TypeOK, CurrentIsOpen, WritesLast, TracesBack, NEW r \in Runs, NEW x \in Rows,
         NEW v \in Values \cup {Absent}, Write(r, x, v)
  PROVE  WritesLast' /\ TracesBack'
<1> DEFINE m == bound[r]
           c == IF m = None THEN None ELSE current[m]
           e == Entry(r, x, v)
           recorded == [groups EXCEPT ![c].entries = Append(@, e)]
<1>1. phase[r] = "running" /\ UNCHANGED <<current, phase, bound>>
  BY DEF Write
<1>2. e \in Entries /\ Undo(Intact(data'), e) = Intact(data) /\ data' \in Tables
  <2>1. data[x] # v /\ data' = [data EXCEPT ![x] = v]
    BY DEF Write
  <2>2. data' \in Tables
    BY <2>1, LogTyped DEF Tables
  <2>3. QED
    BY <2>1, <2>2, EntryUndoes, LogTyped
<1>3. IF c = None THEN groups' = Mixed(groups)
      ELSE groups' = IF Alone(r) THEN recorded ELSE Mixed(recorded)
  BY DEF Write, Record
<1> HIDE DEF e
<1>4. CASE c = None
  BY <1>3, <1>4, LogTyped, MixedCounts, MixedNothing
<1>5. CASE c # None
  <2>1. m # None /\ m \in Managers /\ c = current[m]
    BY <1>5 DEF TypeOK
  <2>2. c \in DOMAIN groups /\ groups[c].status = "pending"
        /\ Live(c)
    BY <1>1, <1>5, <2>1 DEF CurrentIsOpen, Live
  <2> HIDE DEF c, m
  <2>3. groups \in Seq(Group) /\ DOMAIN groups = 1..Len(groups) /\ Len(groups) \in Nat
        /\ \A g \in 1..Len(groups) : groups[g] \in Group
    BY LogTyped, LogOfGroups
  <2>4. /\ DOMAIN recorded = DOMAIN groups
        /\ \A h \in DOMAIN groups \ {c} : recorded[h] = groups[h]
        /\ recorded[c] = [groups[c] EXCEPT !.entries = Append(@, e)]
    BY <2>2
  <2>5. /\ recorded[c] \in Group /\ recorded[c].mixed = groups[c].mixed
        /\ recorded[c].entries = Append(groups[c].entries, e)
        /\ recorded[c].snapshot = groups[c].snapshot
        /\ recorded[c].status = groups[c].status
    <3>1. groups[c].entries \in Seq(Entries)
      BY <2>2, <2>3 DEF Group
    <3>2. Append(groups[c].entries, e) \in Seq(Entries)
      BY <1>2, <3>1
    <3>3. QED
      BY <2>2, <2>3, <2>4, <3>2 DEF Group
  <2>6. recorded \in Seq(Group) /\ Len(recorded) = Len(groups)
    <3>1. recorded \in [DOMAIN groups -> Group]
      BY <2>3, <2>4, <2>5
    <3>2. QED
      BY <2>3, <2>4, <3>1, SameLength
  <2> HIDE DEF recorded
  <2>7. CASE ~Alone(r)
    BY <1>3, <1>5, <2>6, <2>7, MixedCounts, MixedNothing
  <2>8. CASE Alone(r)
    <3>1. groups' = recorded
      BY <1>3, <1>5, <2>8
    <3>2. \A h : Live(h)' <=> Live(h)
      BY <1>1 DEF Live
    <3>3. \A g \in DOMAIN groups : recorded[g].mixed = groups[g].mixed
      BY <2>4, <2>5
    <3>4. WritesLast'
      BY <1>1, <2>4, <2>6, <3>1, <3>3 DEF WritesLast
    <3>5. ASSUME NEW g \in DOMAIN groups, Restorable(g)'
          PROVE  \E t : TracesTo(recorded, g, t, data')
      <4>1. PICK n \in Nat : n = Len(groups)
        BY <2>3
      <4>2. c = n
        <5>1. ~groups[g].mixed
          BY <3>1, <3>3, <3>5 DEF Restorable
        <5>2. bound[r] # None /\ current[bound[r]] = c /\ c # None
          BY <1>5, <2>1 DEF m
        <5>3. QED
          BY <1>1, <4>1, <5>1, <5>2 DEF WritesLast
      <4>3. Restorable(g)
        <5>1. ~groups[g].mixed
          BY <3>1, <3>3, <3>5 DEF Restorable
        <5>2. groups[g].status = "completed" \/ Live(g)
          BY <2>4, <2>5, <3>1, <3>2, <3>5 DEF Restorable
        <5>3. ASSUME NEW h \in g..Len(groups), groups[h].status = "pending",
                     groups[h].entries # <<>>
              PROVE  Live(h)
          <6>1. CASE h = c
            BY <2>2, <6>1
          <6>2. CASE h # c
            <7>1. groups'[h] = groups[h] /\ h \in g..Len(groups')
              BY <2>3, <2>4, <2>6, <3>1, <6>2
            <7>2. QED
              BY <3>2, <3>5, <5>3, <7>1 DEF Restorable, Sealed
          <6>3. QED
            BY <6>1, <6>2
        <5>4. QED
          BY <5>1, <5>2, <5>3 DEF Restorable, Sealed
      <4>4. PICK t : TracesTo(groups, g, t, data)
        BY <4>3 DEF TracesBack
      <4>5. /\ t \in [g..(n + 1) -> Tables] /\ t[g] = groups[g].snapshot /\ t[n + 1] = data
            /\ \A h \in g..n :
                 IF groups[h].status = "reverted" THEN t[h] = t[h + 1]
                 ELSE Undone(groups[h].entries, Intact(t[h + 1])) = Intact(t[h])
        BY <4>1, <4>4 DEF TracesTo
      <4>6. PICK d : d = data'
        OBVIOUS
      <4> DEFINE u == [h \in g..(n + 1) |-> IF h = n + 1 THEN d ELSE t[h]]
      <4>7. g \in 1..n /\ n \in g..n /\ n + 1 \in g..(n + 1)
        BY <2>3, <4>1
      <4>8. /\ u \in [g..(n + 1) -> Tables] /\ u[g] = recorded[g].snapshot
            /\ u[n] = t[n] /\ u[n + 1] = d
        <5>1. u \in [g..(n + 1) -> Tables] /\ u[n + 1] = d
          BY <1>2, <4>5, <4>6, <4>7
        <5>2. g # n + 1 /\ n # n + 1 /\ g \in g..(n + 1) /\ n \in g..(n + 1)
          BY <4>7
        <5>3. u[g] = t[g] /\ u[n] = t[n]
          BY <5>2
        <5>4. recorded[g].snapshot = groups[g].snapshot
          BY <2>4, <2>5
        <5> HIDE DEF u
        <5>5. QED
          BY <4>5, <5>1, <5>3, <5>4
      <4>9. ASSUME NEW h \in g..n
            PROVE  IF recorded[h].status = "reverted" THEN u[h] = u[h + 1]
                   ELSE Undone(recorded[h].entries, Intact(u[h + 1])) = Intact(u[h])
        <5>1. CASE h = n
          <6>1. Intact(d) \in Results /\ groups[c].entries \in Seq(Entries)
            BY <1>2, <2>2, <2>3, <4>6, IntactEmpty DEF Group
          <6>2. Undone(recorded[c].entries, Intact(d)) =
                  Undone(groups[c].entries, Intact(data))
            BY <1>2, <2>5, <4>6, <6>1, UndoneAppend
          <6>3. Undone(groups[c].entries, Intact(data)) = Intact(t[c])
            BY <2>2, <4>2, <4>5, <4>7
          <6> HIDE DEF u
          <6>4. QED
            BY <2>2, <2>5, <4>2, <4>8, <5>1, <6>2, <6>3
        <5>2. CASE h # n
          <6>1. h \in g..(n + 1) /\ h + 1 \in g..(n + 1) /\ h + 1 # n + 1 /\ h # n + 1
            BY <4>7, <5>2
          <6>2. u[h] = t[h] /\ u[h + 1] = t[h + 1]
            BY <6>1
          <6>3. recorded[h] = groups[h]
            <7>1. h \in DOMAIN groups
              BY <2>3, <4>1, <4>7
            <7>2. QED
              BY <2>4, <4>2, <5>2, <7>1
          <6> HIDE DEF u
          <6>4. QED
            BY <4>5, <6>2, <6>3
        <5>3. QED
          BY <5>1, <5>2
      <4> HIDE DEF u
      <4>10. TracesTo(recorded, g, u, d)
        BY <2>6, <4>1, <4>8, <4>9 DEF TracesTo
      <4>11. QED
        BY <4>6, <4>10
    <3>6. TracesBack'
      BY <2>4, <3>1, <3>5 DEF TracesBack
    <3>7. QED
      BY <3>4, <3>6
  <2>9. QED
    BY <2>7, <2>8
<1>6. QED
  BY <1>4, <1>5

\* The log whose groups from k on are marked as reverted, if they are completed.
Marked(k) ==
  [h \in DOMAIN groups |->
     IF h >= k /\ Affected(h) THEN [groups[h] EXCEPT !.status = "reverted"]
     ELSE groups[h]]

LEMMA Marking ==
  ASSUME groups \in Seq(Group), NEW k \in DOMAIN groups, NEW gs, gs = Marked(k)
  PROVE  /\ gs \in Seq(Group) /\ Len(gs) = Len(groups) /\ DOMAIN gs = DOMAIN groups
         /\ \A h \in DOMAIN groups :
              /\ gs[h].mixed = groups[h].mixed /\ gs[h].entries = groups[h].entries
              /\ gs[h].snapshot = groups[h].snapshot
              /\ gs[h].status = IF h >= k /\ Affected(h) THEN "reverted"
                                ELSE groups[h].status
<1>1. \A h \in DOMAIN groups : groups[h] \in Group
  BY LogOfGroups
<1>2. DOMAIN gs = DOMAIN groups
  BY DEF Marked
<1>3. ASSUME NEW h \in DOMAIN groups
      PROVE  /\ gs[h] \in Group
             /\ gs[h].mixed = groups[h].mixed /\ gs[h].entries = groups[h].entries
             /\ gs[h].snapshot = groups[h].snapshot
             /\ gs[h].status = IF h >= k /\ Affected(h) THEN "reverted"
                               ELSE groups[h].status
  <2>1. CASE h >= k /\ Affected(h)
    <3>1. gs[h] = [groups[h] EXCEPT !.status = "reverted"]
      BY <2>1 DEF Marked
    <3>2. QED
      BY <1>1, <2>1, <3>1 DEF Group
  <2>2. CASE ~(h >= k /\ Affected(h))
    <3>1. gs[h] = groups[h]
      BY <2>2 DEF Marked
    <3>2. QED
      BY <1>1, <2>2, <3>1
  <2>3. QED
    BY <2>1, <2>2
<1>4. gs \in [DOMAIN groups -> Group]
  BY <1>3 DEF Marked
<1>5. QED
  BY <1>2, <1>3, <1>4, SameLength

\* A revert to the group k gives the table that was there then, so older groups
\* lead back to their snapshots from there.
LEMMA RevertTraces ==
  ASSUME TypeOK, TracesBack, NEW k \in DOMAIN groups, RevertTo(k)
  PROVE  WritesLast' /\ TracesBack'
<1>1. PICK gs : gs = Marked(k)
  OBVIOUS
<1>2. /\ gs \in Seq(Group) /\ Len(gs) = Len(groups) /\ DOMAIN gs = DOMAIN groups
      /\ \A h \in DOMAIN groups :
           /\ gs[h].mixed = groups[h].mixed /\ gs[h].entries = groups[h].entries
           /\ gs[h].snapshot = groups[h].snapshot
           /\ gs[h].status = IF h >= k /\ Affected(h) THEN "reverted"
                             ELSE groups[h].status
  <2>1. groups \in Seq(Group)
    BY LogTyped
  <2>2. QED
    BY <1>1, <2>1, Marking
<1>3. /\ data' = Replay(k).table /\ UNCHANGED <<current, phase, bound>>
      /\ groups' = IF \E r \in Runs : Active(r) THEN Mixed(gs) ELSE gs
  BY <1>1 DEF RevertTo, Marked
<1>4. CASE \E r \in Runs : Active(r)
  BY <1>2, <1>3, <1>4, MixedCounts, MixedNothing
<1>5. CASE \A r \in Runs : ~Active(r)
  <2>1. groups' = gs
    BY <1>3, <1>5
  <2>2. \A h : ~Live(h) /\ ~Live(h)'
    BY <1>3, <1>5 DEF Live, Active
  <2>3. WritesLast'
    BY <1>3, <1>5 DEF WritesLast, Active
  <2>4. ASSUME NEW g \in DOMAIN groups, Restorable(g)'
        PROVE  \E t : TracesTo(gs, g, t, data')
    <3>1. PICK n \in Nat : n = Len(groups) /\ DOMAIN groups = 1..n
      BY LogTyped, LogOfGroups
    <3>2. gs[g].status = "completed" /\ ~groups[g].mixed
      BY <1>2, <2>1, <2>2, <2>4 DEF Restorable
    <3>3. g < k /\ groups[g].status = "completed"
      BY <1>2, <3>1, <3>2 DEF Affected
    <3>4. ASSUME NEW h \in g..n, groups[h].status = "pending"
          PROVE  groups[h].entries = <<>>
      <4>1. gs[h].status = "pending" /\ gs[h].entries = groups[h].entries
        BY <1>2, <3>1, <3>4 DEF Affected
      <4>2. QED
        BY <1>2, <2>1, <2>2, <2>4, <3>1, <4>1 DEF Restorable, Sealed
    <3>5. Restorable(g)
      BY <3>1, <3>2, <3>3, <3>4 DEF Restorable, Sealed
    <3>6. PICK t : TracesTo(groups, g, t, data)
      BY <3>5 DEF TracesBack
    <3>7. Replay(k) = Intact(t[k])
      BY <3>1, <3>3, <3>4, <3>6, LogTyped, ReplayFollows
    <3>8. data' = t[k]
      BY <1>3, <3>7 DEF Intact
    <3>9. PICK d : d = data'
      OBVIOUS
    <3>10. /\ t \in [g..(n + 1) -> Tables] /\ t[g] = groups[g].snapshot
           /\ \A h \in g..n :
                IF groups[h].status = "reverted" THEN t[h] = t[h + 1]
                ELSE Undone(groups[h].entries, Intact(t[h + 1])) = Intact(t[h])
      BY <3>1, <3>6 DEF TracesTo
    <3>11. d \in Tables
      BY <3>1, <3>3, <3>8, <3>9, <3>10
    <3> DEFINE u == [h \in g..(n + 1) |-> IF h < k THEN t[h] ELSE d]
    <3>12. /\ u \in [g..(n + 1) -> Tables] /\ u[g] = t[g] /\ u[n + 1] = d
      BY <3>1, <3>3, <3>10, <3>11
    <3>13. ASSUME NEW h \in g..n
           PROVE  IF gs[h].status = "reverted" THEN u[h] = u[h + 1]
                  ELSE Undone(gs[h].entries, Intact(u[h + 1])) = Intact(u[h])
      <4>1. h \in g..(n + 1) /\ h + 1 \in g..(n + 1) /\ h \in DOMAIN groups
        BY <3>1
      <4>2. CASE h < k
        <5>1. u[h] = t[h] /\ u[h + 1] = t[h + 1]
          BY <3>1, <3>8, <3>9, <4>1, <4>2
        <5>2. gs[h].status = groups[h].status /\ gs[h].entries = groups[h].entries
          BY <1>2, <3>1, <4>1, <4>2
        <5> HIDE DEF u
        <5>3. QED
          BY <3>10, <5>1, <5>2
      <4>3. CASE ~(h < k)
        <5>1. u[h] = d /\ u[h + 1] = d
          BY <3>1, <4>1, <4>3
        <5> HIDE DEF u
        <5>2. CASE gs[h].status = "reverted"
          BY <5>1, <5>2
        <5>3. CASE gs[h].status # "reverted"
          <6>1. groups[h].status = "pending"
            <7>1. h >= k
              BY <3>1, <4>1, <4>3
            <7>2. gs[h] \in Group /\ groups[h] \in Group
              BY <1>2, <4>1, LogTyped, LogOfGroups
            <7>3. QED
              BY <1>2, <4>1, <5>3, <7>1, <7>2 DEF Group, Affected
          <6>2. gs[h].entries = <<>>
            BY <1>2, <3>4, <4>1, <6>1
          <6>3. Undone(<<>>, Intact(d)) = Intact(d)
            BY <3>11, IntactEmpty
          <6>4. QED
            BY <5>1, <5>3, <6>2, <6>3
        <5>4. QED
          BY <5>2, <5>3
      <4>4. QED
        BY <4>2, <4>3
    <3> HIDE DEF u
    <3>14. TracesTo(gs, g, u, d)
      BY <1>2, <3>1, <3>10, <3>12, <3>13 DEF TracesTo
    <3>15. QED
      BY <3>9, <3>14
  <2>5. TracesBack'
    BY <1>2, <2>1, <2>4 DEF TracesBack
  <2>6. QED
    BY <2>3, <2>5
<1>6. QED
  BY <1>4, <1>5

-----------------------------------------------------------------------------

Phases == {"new", "posted", "ready", "running", "approved", "ended"}

\* The table, the log and the runs; managers and their groups are in UndoInv.
StateTyped ==
  data \in Tables /\ groups \in Seq(Group) /\ phase \in [Runs -> Phases]

LEMMA TypesOfParts == UndoInv => (TypeOK <=> StateTyped)
<1> SUFFICES ASSUME UndoInv PROVE TypeOK <=> StateTyped
  OBVIOUS
<1>1. manager \in {None} \cup Managers /\ bound \in [Runs -> {None} \cup Managers]
  BY UndoAssumption DEF UndoInv, Bindings, None, Managers
<1>2. current \in [Managers -> {None} \cup DOMAIN groups]
  BY DEF UndoInv, Bindings, LogInv, CurrentIsOpen
<1>3. QED
  BY <1>1, <1>2 DEF TypeOK, StateTyped, Tables, Group, Phases

LEMMA StartTyped ==
  ASSUME StateTyped, NEW r \in Runs, OnRunStart(r)
  PROVE  groups' \in Seq(Group)
<1>1. CASE bound[r] = None
  BY <1>1 DEF OnRunStart, StateTyped
<1>2. CASE bound[r] # None
  <2>1. NewGroup(r) \in Group
    BY DEF NewGroup, Group, StateTyped
  <2>2. PICK opened : opened = Append(groups, NewGroup(r))
    OBVIOUS
  <2>3. opened \in Seq(Group)
    BY <2>1, <2>2 DEF StateTyped
  <2>4. groups' = opened \/ groups' = Mixed(opened)
    BY <1>2, <2>2 DEF OnRunStart
  <2>5. QED
    BY <2>3, <2>4, MixedCounts
<1>3. QED
  BY <1>1, <1>2

LEMMA EndTyped ==
  ASSUME StateTyped, NEW r \in Runs, OnRunEnd(r)
  PROVE  groups' \in Seq(Group)
<1> DEFINE c == IF bound[r] = None THEN None ELSE current[bound[r]]
<1>1. groups' = groups \/ groups' = [groups EXCEPT ![c].status = "completed"]
  BY DEF OnRunEnd
<1> HIDE DEF c
<1>2. PICK gs : gs = [groups EXCEPT ![c].status = "completed"]
  OBVIOUS
<1>3. DOMAIN gs = DOMAIN groups
      /\ \A g \in DOMAIN groups : groups[g] \in Group /\
           (gs[g] = groups[g] \/ gs[g] = [groups[g] EXCEPT !.status = "completed"])
  BY <1>2, LogOfGroups DEF StateTyped
<1>4. ASSUME NEW g \in DOMAIN groups PROVE gs[g] \in Group
  <2>1. [groups[g] EXCEPT !.status = "completed"] \in Group
    BY <1>3 DEF Group
  <2>2. QED
    BY <1>3, <2>1
<1>5. gs \in [DOMAIN groups -> Group]
  BY <1>2, <1>3, <1>4
<1>6. gs \in Seq(Group)
  BY <1>3, <1>5, SameLength DEF StateTyped
<1>7. QED
  BY <1>1, <1>2, <1>6 DEF StateTyped

LEMMA WriteTyped ==
  ASSUME StateTyped, NEW r \in Runs, NEW x \in Rows, NEW v \in Values \cup {Absent},
         Write(r, x, v)
  PROVE  groups' \in Seq(Group) /\ data' \in Tables
<1> DEFINE c == IF bound[r] = None THEN None ELSE current[bound[r]]
<1>1. PICK e : e = Entry(r, x, v)
  OBVIOUS
<1>2. e \in Entries /\ data' \in Tables
  <2>1. data[x] # v /\ data' = [data EXCEPT ![x] = v]
    BY DEF Write
  <2>2. QED
    BY <1>1, <2>1, EntryUndoes DEF StateTyped, Tables
<1>3. PICK gs : gs = [groups EXCEPT ![c].entries = Append(@, e)]
  OBVIOUS
<1>4. groups' = Mixed(groups) \/ groups' = gs \/ groups' = Mixed(gs)
  BY <1>1, <1>3 DEF Write, Record
<1> HIDE DEF c
<1>5. DOMAIN gs = DOMAIN groups
      /\ \A g \in DOMAIN groups : groups[g] \in Group /\
           (gs[g] = groups[g] \/ gs[g] = [groups[g] EXCEPT !.entries = Append(@, e)])
  BY <1>3, LogOfGroups DEF StateTyped
<1>6. ASSUME NEW g \in DOMAIN groups PROVE gs[g] \in Group
  <2>1. Append(groups[g].entries, e) \in Seq(Entries)
    BY <1>2, <1>5 DEF Group
  <2>2. QED
    BY <1>5, <2>1 DEF Group
<1>7. gs \in [DOMAIN groups -> Group]
  BY <1>3, <1>5, <1>6
<1>8. gs \in Seq(Group)
  BY <1>5, <1>7, SameLength DEF StateTyped
<1>9. QED
  BY <1>2, <1>4, <1>8, MixedCounts DEF StateTyped

LEMMA RevertTyped ==
  ASSUME StateTyped, NEW k \in DOMAIN groups, RevertTo(k)
  PROVE  groups' \in Seq(Group) /\ data' \in Tables
<1>1. PICK gs : gs = Marked(k)
  OBVIOUS
<1>2. gs \in Seq(Group)
  BY <1>1, Marking DEF StateTyped
<1>3. groups' = gs \/ groups' = Mixed(gs)
  BY <1>1 DEF RevertTo, Marked
<1>4. Replay(k) \in Results /\ data' = Replay(k).table
  <2>1. k \in 1..Len(groups)
    BY LogOfGroups DEF StateTyped
  <2>2. QED
    BY <2>1, ReplayTyped DEF StateTyped, RevertTo
<1>5. QED
  BY <1>2, <1>3, <1>4, MixedCounts DEF Results

LEMMA EveryStepTraces ==
  ASSUME RevertInv, [Next]_vars
  PROVE  RevertInv'
<1>1. UndoInv' /\ StateTyped /\ CurrentIsOpen
  BY EveryStepKeeps, TypesOfParts DEF RevertInv, UndoInv, LogInv
<1>2. ASSUME UNCHANGED vars
      PROVE  StateTyped' /\ WritesLast' /\ TracesBack'
  <2>1. UNCHANGED <<data, groups, current, phase, bound>>
    BY <1>2 DEF vars
  <2>2. StateTyped'
    BY <1>1, <2>1 DEF StateTyped
  <2>3. \A r \in Runs :
          phase'[r] = "running" => phase[r] = "running" /\ bound'[r] = bound[r]
    BY <2>1
  <2>4. QED
    BY <2>1, <2>2, <2>3, FewerLive DEF RevertInv
<1>3. ASSUME NEW r \in Runs, Post(r)
      PROVE  StateTyped' /\ WritesLast' /\ TracesBack'
  <2>1. phase'[r] = "posted" /\ \A q \in Runs \ {r} :
          phase'[q] = phase[q] /\ bound'[q] = bound[q]
    BY <1>1, <1>3 DEF Post, StateTyped, RevertInv, TypeOK
  <2>2. StateTyped'
    BY <1>1, <1>3 DEF Post, StateTyped, Phases
  <2>3. QED
    BY <1>3, <2>1, <2>2, FewerLive DEF Post, RevertInv
<1>4. ASSUME NEW r \in Runs, ResolveAgent(r) \/ FailCall(r)
      PROVE  StateTyped' /\ WritesLast' /\ TracesBack'
  <2>1. /\ UNCHANGED <<data, groups, current, bound>>
        /\ \E next \in Phases \ {"running"} : phase' = [phase EXCEPT ![r] = next]
    BY <1>4 DEF ResolveAgent, FailCall, Phases
  <2>2. StateTyped' /\ \A q \in Runs : phase'[q] = "running" => phase[q] = "running"
    BY <1>1, <2>1 DEF StateTyped
  <2>3. QED
    BY <2>1, <2>2, FewerLive DEF RevertInv
<1>5. ASSUME NEW r \in Runs, StartCall(r) \/ RetryCall(r)
      PROVE  StateTyped' /\ WritesLast' /\ TracesBack'
  <2>1. /\ OnRunStart(r) /\ UNCHANGED <<data, bound>>
        /\ phase' = [phase EXCEPT ![r] = "running"]
    BY <1>1, <1>5 DEF StartCall, RetryCall, StateTyped
  <2>2. StateTyped' /\ \A q \in Runs \ {r} : phase'[q] = phase[q]
    BY <1>1, <2>1, StartTyped DEF StateTyped, Phases
  <2>3. CASE bound[r] = None
    <3>1. UNCHANGED <<groups, current>>
      BY <2>1, <2>3 DEF OnRunStart
    <3>2. \A h : Live(h)' => Live(h)
      BY <2>1, <2>2, <2>3, <3>1 DEF Live
    <3>3. \A g : Restorable(g)' => Restorable(g)
      BY <3>1, <3>2 DEF Restorable, Sealed
    <3>4. WritesLast'
      BY <2>1, <2>2, <2>3, <3>1 DEF WritesLast, RevertInv
    <3>5. TracesBack'
      BY <2>1, <3>1, <3>3 DEF TracesBack, RevertInv
    <3>6. QED
      BY <2>2, <3>4, <3>5
  <2>4. CASE bound[r] # None
    BY <2>1, <2>2, <2>4, StartTraces DEF RevertInv
  <2>5. QED
    BY <2>3, <2>4
<1>6. ASSUME NEW r \in Runs, EndCall(r)
      PROVE  StateTyped' /\ WritesLast' /\ TracesBack'
  <2>1. /\ phase[r] = "running" /\ OnRunEnd(r) /\ UNCHANGED <<data, bound>>
        /\ \E next \in Phases \ {"running"} : phase' = [phase EXCEPT ![r] = next]
    BY <1>6 DEF EndCall, Phases
  <2>2. /\ StateTyped' /\ phase'[r] # "running"
        /\ \A q \in Runs \ {r} : phase'[q] = phase[q]
    BY <1>1, <2>1, EndTyped DEF StateTyped
  <2>3. QED
    BY <1>1, <2>1, <2>2, EndTraces DEF RevertInv
<1>7. ASSUME NEW r \in Runs, NEW x \in Rows, NEW v \in Values \cup {Absent},
             Write(r, x, v)
      PROVE  StateTyped' /\ WritesLast' /\ TracesBack'
  <2>1. StateTyped'
    BY <1>1, <1>7, WriteTyped DEF Write, StateTyped
  <2>2. QED
    BY <1>1, <1>7, <2>1, WriteTraces DEF RevertInv
<1>8. ASSUME NEW k \in DOMAIN groups, RevertTo(k)
      PROVE  StateTyped' /\ WritesLast' /\ TracesBack'
  <2>1. StateTyped'
    BY <1>1, <1>8, RevertTyped DEF RevertTo, StateTyped
  <2>2. QED
    BY <1>8, <2>1, RevertTraces DEF RevertInv
<1>9. StateTyped' /\ WritesLast' /\ TracesBack'
  BY <1>2, <1>3, <1>4, <1>5, <1>6, <1>7, <1>8 DEF Next
<1>10. TypeOK'
  <2>1. (UndoInv => (TypeOK <=> StateTyped))'
    BY TypesOfParts, PTL
  <2>2. QED
    BY <1>1, <1>9, <2>1
<1>11. QED
  BY <1>1, <1>9, <1>10 DEF RevertInv

-----------------------------------------------------------------------------

\* The log and the table are of their types, and the entries of the log lead
\* back from the table there is to the one on which each group was opened.
THEOREM RevertInvariant == Spec => []RevertInv
<1>1. Init /\ UndoInv => RevertInv
  <2> SUFFICES ASSUME Init, UndoInv PROVE RevertInv
    OBVIOUS
  <2>1. groups = <<>> /\ DOMAIN groups = {}
    BY DEF Init
  <2>2. StateTyped
    BY <2>1 DEF Init, StateTyped, Tables, Phases
  <2>3. TypeOK
    BY <2>2, TypesOfParts
  <2>4. WritesLast /\ TracesBack
    BY <2>1 DEF WritesLast, TracesBack
  <2>5. QED
    BY <2>3, <2>4 DEF RevertInv
<1>2. RevertInv /\ [Next]_vars => RevertInv'
  BY EveryStepTraces
<1>3. QED
  BY <1>1, <1>2, InductiveInvariant, PTL DEF Spec

\* A revert gives back the table as it was when the group was opened, however
\* many calls, retries and reverts there were since (undo/repository.py): if
\* all changes were recorded, in groups that were closed, and runs never
\* overlapped.
THEOREM RevertGivesBack == Spec => []RevertRestores
<1>1. RevertInv => RevertRestores
  <2> SUFFICES ASSUME RevertInv, NEW g \in DOMAIN groups,
                      groups[g].status = "completed", ~groups[g].mixed,
                      \A h \in g..Len(groups) :
                        groups[h].status = "pending" => groups[h].entries = <<>>
               PROVE  Replay(g) = [ok |-> TRUE, table |-> groups[g].snapshot]
    BY DEF RevertRestores
  <2>1. data \in Tables /\ groups \in Seq(Group) /\ g \in 1..Len(groups)
        /\ g \in g..Len(groups)
    BY LogTyped, LogOfGroups DEF RevertInv
  <2>2. Restorable(g)
    BY DEF Restorable, Sealed
  <2>3. PICK t : TracesTo(groups, g, t, data)
    BY <2>2 DEF RevertInv, TracesBack
  <2>4. Replay(g) = Intact(t[g])
    BY <2>1, <2>3, ReplayFollows
  <2>5. QED
    BY <2>3, <2>4 DEF TracesTo, Intact
<1>2. QED
  BY <1>1, RevertInvariant, PTL

-----------------------------------------------------------------------------
(* Sessions of the database                                                *)

\* The numbered changes of a task's session that are committed, and those in
\* the open transaction of its connection.
OnDisk(t, s) == {n \in Nat \ {0} : <<t, s, n>> \in disk}
InOpen(t, s) == {n \in Nat \ {0} : <<t, s, n>> \in pending[Connection(t, s)]}

\* What a task has done when it is at step p, in its own session and in those
\* of record_undo.  On SQLite, the first entry commits the write.
Fresh(p, o, own, log, owned, logged) ==
  p = Nowhere /\ o = "none" /\ own = {} /\ log = {} /\ owned = {} /\ logged = {}

Recorded(d, i, own, log, owned) ==
  /\ log = 1..i
  /\ own = IF d = "sqlite" /\ i > 0 THEN {1} ELSE {}
  /\ owned = IF d = "sqlite" /\ i > 0 THEN {} ELSE {1}

Writing(d, p, o, r, own, log, owned, logged) ==
  /\ o = "none"
  /\ \/ p = Step("dml", "own", 1) /\ own = {} /\ log = {} /\ owned = {} /\ logged = {}
     \/ \E i \in 1..r : \/ p = Step("dml", "log", i) /\ logged = {}
                           /\ Recorded(d, i - 1, own, log, owned)
                        \/ p = Step("commit", "log", i) /\ logged = {i}
                           /\ Recorded(d, i - 1, own, log, owned)
                        \/ p = Step("close", "log", i) /\ logged = {}
                           /\ Recorded(d, i, own, log, owned)
     \/ p = Step("commit", "own", 0) /\ logged = {} /\ Recorded(d, r, own, log, owned)
     \/ p = Step("close", "own", 0) /\ own = {1} /\ log = 1..r /\ owned = {} /\ logged = {}

Filling(p, o, own, owned, logged) ==
  /\ o = "none" /\ logged = {}
  /\ \/ p = Step("ddl", "own", 0) /\ own = {} /\ owned = {}
     \/ \E i \in 1..Batches : p = Step("dml", "own", i) /\ own = {} /\ owned = 1..(i - 1)
     \/ p = Step("commit", "own", 0) /\ own = {} /\ owned = 1..Batches
     \/ p = Step("close", "own", 0) /\ own = 1..Batches /\ owned = {}

Looking(p, o, k, own, owned, logged) ==
  /\ o = "none" /\ own = {} /\ owned = {} /\ logged = {}
  /\ \/ k = "create" /\ p = Step("ddl", "own", 0)
     \/ \E n \in {0, 1} : p \in {Step("commit", "own", n), Step("close", "own", n)}

Over(p, o, k, r, own, log, owned, logged) ==
  /\ p = Nowhere /\ o = "done" /\ owned = {} /\ logged = {}
  /\ k = "write" => own = {1} /\ log = 1..r
  /\ k \in {"import", "append"} => own = 1..Batches
  /\ k \in {"create", "read"} => own = {}

Failing(d, p, o, k, r, own, log, owned, logged) ==
  /\ o = "failed"
  /\ p = Nowhere => owned = {}
  /\ p.do \in {"none", "commit", "rollback", "close"}
  /\ p.do = "none" => p = Nowhere
  /\ p.do = "commit" => p.session = "own" /\ owned = {} /\ k = "import"
  /\ p.session = "own" => logged = {}
  /\ \/ own = {}
     \/ k = "write" /\ own = {1} /\ d = "sqlite" /\ (r = 1 => log = {1})

Stage(d, p, o, k, r, own, log, owned, logged) ==
  \/ Fresh(p, o, own, log, owned, logged)
  \/ k = "write" /\ Writing(d, p, o, r, own, log, owned, logged)
  \/ k \in {"import", "append"} /\ Filling(p, o, own, owned, logged)
  \/ k \in {"create", "read"} /\ Looking(p, o, k, own, owned, logged)
  \/ Over(p, o, k, r, own, log, owned, logged)
  \/ Failing(d, p, o, k, r, own, log, owned, logged)

Progress(t) == Stage(dialect, at[t], outcome[t], kind[t], rows[t],
                     OnDisk(t, "own"), OnDisk(t, "log"), InOpen(t, "own"), InOpen(t, "log"))

\* A change waits in the transaction of the connection it was made on.
PendingIsOwn ==
  \A t \in Tasks, s \in Sessions, n \in Nat, c \in Connections :
    <<t, s, n>> \in pending[c] => c = Connection(t, s)

AnswerIsOutcome ==
  \A t \in Tasks : answer[t] = "done" => outcome[t] = "done" /\ ~UnderWay(t)

OneAtATime == ~overlapped => \A t, u \in Tasks : UnderWay(t) /\ UnderWay(u) => t = u

DbInv == /\ DbTypeOK
         /\ PendingIsOwn
         /\ AnswerIsOutcome
         /\ OneAtATime
         /\ Separate => \A t \in Tasks : Progress(t)

-----------------------------------------------------------------------------
\* The steps that a task can be at are steps.
LEMMA FollowingTypes ==
  ASSUME DbTypeOK, NEW t \in Tasks
  PROVE  LET P == [do : {"none", "dml", "ddl", "commit", "rollback", "close"},
                   session : Sessions, n : Nat]
         IN  /\ First(t) \in P
             /\ Leave("own", 0) \in P
             /\ Abandon(at[t].session) \in P
             /\ UnderWay(t) /\ at[t].do # "none" => Following(t) \in P
<1> DEFINE P == [do : {"none", "dml", "ddl", "commit", "rollback", "close"},
                 session : Sessions, n : Nat]
<1>1. /\ at[t] \in P /\ rows[t] \in Nat /\ Batches \in Nat
      /\ kind[t] \in {"write", "import", "append", "create", "read"}
  BY DbSessionAssumption DEF DbTypeOK
<1>2. /\ "own" \in Sessions /\ "log" \in Sessions
      /\ at[t].session \in Sessions /\ at[t].n \in Nat
      /\ at[t].session = "own" \/ at[t].session = "log"
  BY <1>1 DEF Sessions
<1>3. \A do \in {"none", "dml", "ddl", "commit", "rollback", "close"}, s \in Sessions, n \in Nat :
        Step(do, s, n) \in P
  BY DEF Step
<1> HIDE DEF P
<1>4. /\ \A s \in Sessions, n \in Nat : Leave(s, n) \in P
      /\ \A s \in Sessions : Abandon(s) \in P
      /\ Nowhere \in P
  BY <1>2, <1>3 DEF Leave, Abandon, Nowhere
<1>5. \A n \in Nat : InsertBatch(n) \in P /\ RecordUndo(t, n) \in P
  BY <1>2, <1>3, <1>4 DEF InsertBatch, RecordUndo
<1>6. First(t) \in P
  BY <1>1, <1>2, <1>3, <1>4, <1>5 DEF First, ReadOnly
<1>7. AfterDdl(t) \in P
  BY <1>2, <1>4, <1>5 DEF AfterDdl
<1>8. AfterDml(t) \in P
  BY <1>2, <1>4, <1>5 DEF AfterDml
<1>9. AfterClose(t) \in P
  BY <1>2, <1>4, <1>5 DEF AfterClose
<1>10. at[t].do # "none" => Following(t) \in P
  <2>1. at[t].do \in {"none", "dml", "ddl", "commit", "rollback", "close"}
    BY <1>1 DEF P
  <2> QED  BY <2>1, <1>2, <1>3, <1>7, <1>8, <1>9 DEF Following, At
<1> QED  BY <1>2, <1>4, <1>6, <1>10 DEF P

\* The step of a task that is under way leads to a step.
LEMMA AdvanceTypes ==
  ASSUME DbTypeOK, NEW t \in Tasks, at[t].do # "none", Advance(t)
  PROVE  /\ at' \in [Tasks -> [do : {"none", "dml", "ddl", "commit", "rollback", "close"},
                               session : Sessions, n : Nat]]
         /\ outcome' \in [Tasks -> {"none", "done", "failed"}]
         /\ answer' \in [Tasks -> {"none", "done", "failed", "timeout"}]
<1>1. at[t] # Nowhere
  BY DEF Nowhere, Step
<1>2. at' \in [Tasks -> [do : {"none", "dml", "ddl", "commit", "rollback", "close"},
                         session : Sessions, n : Nat]]
  BY <1>1, FollowingTypes DEF Advance, UnderWay, DbTypeOK
<1>3. CASE Following(t) # Nowhere
  BY <1>2, <1>3 DEF Advance, DbTypeOK
<1>4. CASE Following(t) = Nowhere
  <2> DEFINE o == IF outcome[t] = "none" THEN "done" ELSE outcome[t]
  <2>1. o \in {"done", "failed"}
    BY DEF DbTypeOK
  <2>2. outcome' = [outcome EXCEPT ![t] = o]
        /\ answer' = [answer EXCEPT ![t] = IF @ = "none" THEN o ELSE @]
    BY <1>4 DEF Advance
  <2> HIDE DEF o
  <2> QED  BY <1>2, <2>1, <2>2 DEF DbTypeOK
<1> QED  BY <1>3, <1>4

\* The connection that a task is about to use, and the change it is to make.
LEMMA OwnConnection ==
  ASSUME DbTypeOK, NEW t \in Tasks
  PROVE  /\ at[t].session \in Sessions
         /\ Conn(t) \in Connections
         /\ Change(t) \in Tasks \X Sessions \X Nat
         /\ pending[Conn(t)] \subseteq Tasks \X Sessions \X Nat
<1>1. at[t].session \in Sessions /\ at[t].n \in Nat
  BY DEF DbTypeOK
<1>2. Conn(t) \in Connections
  BY <1>1 DEF Conn, Connections
<1> QED  BY <1>1, <1>2 DEF Change, DbTypeOK

\* The connections are the same as long as the database is.
LEMMA SameConnections ==
  ASSUME dialect' = dialect
  PROVE  /\ \A t \in Tasks, s \in Sessions : Connection(t, s)' = Connection(t, s)
         /\ Connections' = Connections
<1>1. \A t \in Tasks, s \in Sessions : Connection(t, s)' = Connection(t, s)
  BY DEF Connection
<1>2. Connections' = {Connection(t, s)' : t \in Tasks, s \in Sessions}
  BY DEF Connections
<1>3. Connections = {Connection(t, s) : t \in Tasks, s \in Sessions}
  BY DEF Connections
<1>4. \A c : c \in Connections' <=> c \in Connections
  BY <1>1, <1>2, <1>3
<1>5. Connections' = Connections
  BY <1>4
<1> QED  BY <1>1, <1>5

\* A step keeps the types, and which database it is.
LEMMA DbTypeStep ==
  ASSUME DbTypeOK, [DbNext]_dbVars
  PROVE  DbTypeOK' /\ dialect' = dialect /\ kind' = kind /\ rows' = rows
<1>1. CASE UNCHANGED dbVars
  BY <1>1, SameConnections DEF dbVars, DbTypeOK
<1>2. ASSUME NEW t \in Tasks,
             Begin(t) \/ TableExists(t) \/ Unreadable(t) \/ Fail(t) \/ TimeOut(t)
      PROVE  DbTypeOK' /\ dialect' = dialect /\ kind' = kind /\ rows' = rows
  <2>1. UNCHANGED <<dialect, kind, rows, disk, pending>>
    BY <1>2 DEF Begin, TableExists, Unreadable, Fail, TimeOut
  <2>2. overlapped' \in BOOLEAN
    BY <1>2, Zenon DEF Begin, TableExists, Unreadable, Fail, TimeOut, DbTypeOK
  <2>3. at' \in [Tasks -> [do : {"none", "dml", "ddl", "commit", "rollback", "close"},
                           session : Sessions, n : Nat]]
    BY <1>2, FollowingTypes DEF Begin, TableExists, Unreadable, Fail, TimeOut, DbTypeOK
  <2>4. /\ outcome' \in [Tasks -> {"none", "done", "failed"}]
        /\ answer' \in [Tasks -> {"none", "done", "failed", "timeout"}]
    BY <1>2 DEF Begin, TableExists, Unreadable, Fail, TimeOut, DbTypeOK
  <2> QED  BY <2>1, <2>2, <2>3, <2>4, SameConnections DEF DbTypeOK
<1>3. ASSUME NEW t \in Tasks, Dml(t) \/ Ddl(t) \/ Commit(t) \/ RollBack(t)
      PROVE  DbTypeOK' /\ dialect' = dialect /\ kind' = kind /\ rows' = rows
  <2>1. UNCHANGED <<dialect, kind, rows, overlapped>> /\ Advance(t)
    BY <1>3 DEF Dml, Ddl, Commit, RollBack
  <2>2. at[t].do # "none"
    BY <1>3 DEF Dml, Ddl, Commit, RollBack, At
  <2>3. disk' \subseteq Tasks \X Sessions \X Nat
    BY <1>3, OwnConnection DEF Dml, Ddl, Commit, RollBack, DbTypeOK
  <2>4. pending' \in [Connections -> SUBSET (Tasks \X Sessions \X Nat)]
    BY <1>3, OwnConnection DEF Dml, Ddl, Commit, RollBack, DbTypeOK
  <2> QED  BY <2>1, <2>2, <2>3, <2>4, AdvanceTypes, SameConnections DEF DbTypeOK
<1> QED  BY <1>1, <1>2, <1>3 DEF DbNext

\* What the four actions on the database do to it, whichever it is.
LEMMA Effects ==
  ASSUME DbTypeOK, PendingIsOwn, NEW t \in Tasks, at[t].do # "none",
         Dml(t) \/ Ddl(t) \/ Commit(t) \/ RollBack(t)
  PROVE  /\ disk \subseteq disk'
         /\ disk' \subseteq disk \cup pending[Conn(t)] \cup {Change(t)}
         /\ pending'[Conn(t)] \subseteq pending[Conn(t)] \cup {Change(t)}
         /\ \A c \in Connections : c # Conn(t) => pending'[c] = pending[c]
<1>1. Conn(t) \in Connections /\ pending \in [Connections -> SUBSET (Tasks \X Sessions \X Nat)]
  BY OwnConnection DEF DbTypeOK
<1>2. CASE Dml(t)
  BY <1>1, <1>2 DEF Dml
<1>3. CASE Ddl(t)
  BY <1>1, <1>3 DEF Ddl
<1>4. CASE Commit(t)
  BY <1>1, <1>4 DEF Commit
<1>5. CASE RollBack(t)
  BY <1>1, <1>5 DEF RollBack
<1> QED  BY <1>2, <1>3, <1>4, <1>5

LEMMA PendingStep ==
  ASSUME DbTypeOK, PendingIsOwn, [DbNext]_dbVars
  PROVE  PendingIsOwn'
<1>1. dialect' = dialect
  BY DbTypeStep
<1>2. CASE UNCHANGED pending
  BY <1>1, <1>2, SameConnections DEF PendingIsOwn
<1>3. ASSUME NEW t \in Tasks, Dml(t) \/ Ddl(t) \/ Commit(t) \/ RollBack(t)
      PROVE  PendingIsOwn'
  <2>1. at[t].do # "none"
    BY <1>3 DEF Dml, Ddl, Commit, RollBack, At
  <2>2. SUFFICES ASSUME NEW u \in Tasks, NEW s \in Sessions, NEW n \in Nat, NEW c \in Connections,
                        <<u, s, n>> \in pending'[c]
                 PROVE  c = Connection(u, s)
    BY <1>1, SameConnections DEF PendingIsOwn
  <2>3. CASE <<u, s, n>> \in pending[c]
    BY <2>3 DEF PendingIsOwn
  <2>4. CASE <<u, s, n>> \notin pending[c]
    <3>1. c = Conn(t) /\ <<u, s, n>> = Change(t)
      BY <1>3, <2>1, <2>2, <2>4, Effects
    <3>2. u = t /\ s = at[t].session
      BY <3>1 DEF Change
    <3> QED  BY <3>1, <3>2 DEF Conn
  <2> QED  BY <2>3, <2>4
<1> QED
  BY <1>2, <1>3 DEF DbNext, dbVars, Begin, TableExists, Unreadable, Fail, TimeOut

LEMMA AnswerStep ==
  ASSUME DbTypeOK, AnswerIsOutcome, [DbNext]_dbVars
  PROVE  AnswerIsOutcome'
<1>1. CASE UNCHANGED dbVars
  BY <1>1 DEF dbVars, AnswerIsOutcome, UnderWay
<1>2. SUFFICES ASSUME NEW t \in Tasks, NEW u \in Tasks,
                      \/ Begin(t) \/ TableExists(t) \/ Unreadable(t)
                      \/ Dml(t) \/ Ddl(t) \/ Commit(t) \/ RollBack(t)
                      \/ Fail(t) \/ TimeOut(t),
                      answer'[u] = "done"
               PROVE  outcome'[u] = "done" /\ at'[u] = Nowhere
  BY <1>1 DEF DbNext, AnswerIsOutcome, UnderWay
<1>3. CASE u # t
  <2>1. at'[u] = at[u] /\ outcome'[u] = outcome[u] /\ answer'[u] = answer[u]
    BY <1>2, <1>3 DEF Begin, TableExists, Unreadable, Dml, Ddl, Commit, RollBack, Fail,
                      TimeOut, Advance, DbTypeOK
  <2> QED  BY <1>2, <2>1 DEF AnswerIsOutcome, UnderWay
<1>4. CASE u = t /\ (Begin(t) \/ TableExists(t) \/ Unreadable(t) \/ Fail(t) \/ TimeOut(t))
  <2>1. Nowhere.do = "none"
    BY DEF Nowhere, Step
  <2>2. answer[t] = "done" => outcome[t] = "done" /\ at[t] = Nowhere
    BY DEF AnswerIsOutcome, UnderWay
  <2> QED
    BY <1>2, <1>4, <2>1, <2>2 DEF Begin, TableExists, Unreadable, Fail, TimeOut, At, UnderWay,
                                  DbTypeOK
<1>5. CASE u = t /\ (Dml(t) \/ Ddl(t) \/ Commit(t) \/ RollBack(t))
  <2>1. at[t].do # "none" /\ Advance(t)
    BY <1>5 DEF Dml, Ddl, Commit, RollBack, At
  <2>2. at[t] # Nowhere
    BY <2>1 DEF Nowhere, Step
  <2>3. answer[t] # "done"
    BY <2>2 DEF AnswerIsOutcome, UnderWay
  <2>4. Following(t) = Nowhere
    BY <1>2, <1>5, <2>1, <2>3 DEF Advance
  <2>5. outcome[t] \in {"none", "done", "failed"}
    BY DEF DbTypeOK
  <2> DEFINE o == IF outcome[t] = "none" THEN "done" ELSE outcome[t]
  <2>6. /\ at' = [at EXCEPT ![t] = Nowhere]
        /\ outcome' = [outcome EXCEPT ![t] = o]
        /\ answer' = [answer EXCEPT ![t] = IF @ = "none" THEN o ELSE @]
    BY <2>1, <2>4 DEF Advance
  <2>7. at'[t] = Nowhere /\ outcome'[t] = o /\ answer'[t] \in {answer[t], o}
    BY <2>6 DEF DbTypeOK
  <2> QED  BY <1>2, <1>5, <2>3, <2>7
<1> QED  BY <1>2, <1>3, <1>4, <1>5

LEMMA OneStep ==
  ASSUME DbTypeOK, OneAtATime, [DbNext]_dbVars
  PROVE  OneAtATime'
<1>1. CASE UNCHANGED dbVars
  BY <1>1 DEF dbVars, OneAtATime, UnderWay
<1>2. ASSUME NEW t \in Tasks, Begin(t) \/ TableExists(t)
      PROVE  OneAtATime'
  <2>1. overlapped' <=> overlapped \/ \E u \in Tasks : UnderWay(u)
    BY <1>2, Zenon DEF Begin, TableExists
  <2>2. \A u \in Tasks : u # t => at'[u] = at[u]
    BY <1>2 DEF Begin, TableExists, DbTypeOK
  <2> QED  BY <2>1, <2>2 DEF OneAtATime, UnderWay
<1>3. ASSUME NEW t \in Tasks,
             \/ Unreadable(t) \/ Dml(t) \/ Ddl(t) \/ Commit(t) \/ RollBack(t)
             \/ Fail(t) \/ TimeOut(t)
      PROVE  OneAtATime'
  <2>1. overlapped' = overlapped
    BY <1>3 DEF Unreadable, Dml, Ddl, Commit, RollBack, Fail, TimeOut
  <2>2. \A u \in Tasks : at'[u] = at[u] \/ at[u] # Nowhere
    BY <1>3 DEF Unreadable, Dml, Ddl, Commit, RollBack, Fail, TimeOut, Advance, At, Nowhere, Step,
                DbTypeOK
  <2> QED  BY <2>1, <2>2 DEF OneAtATime, UnderWay
<1> QED  BY <1>1, <1>2, <1>3 DEF DbNext

\* Two sessions of a database that is alone share a connection only on SQLite.
LEMMA ConnectionsDiffer ==
  ASSUME dialect \in {"sqlite", "mysql"}, NEW t \in Tasks, NEW u \in Tasks,
         NEW s \in Sessions, NEW v \in Sessions
  PROVE  Connection(t, s) = Connection(u, v) <=> dialect = "sqlite" \/ (t = u /\ s = v)
<1>1. CASE dialect = "sqlite"
  BY <1>1 DEF Connection
<1>2. CASE dialect = "mysql"
  <2>1. Connection(t, s) = {<<t, s>>} /\ Connection(u, v) = {<<u, v>>} /\ dialect # "sqlite"
    BY <1>2 DEF Connection
  <2>2. <<t, s>> = <<u, v>> <=> t = u /\ s = v
    OBVIOUS
  <2>3. {<<t, s>>} = {<<u, v>>} => <<t, s>> \in {<<u, v>>}
    BY <<t, s>> \in {<<t, s>>}, Zenon
  <2> QED  BY <2>1, <2>2, <2>3
<1> QED  BY <1>1, <1>2

\* A task that is not under way has nothing in an open transaction.
LEMMA IdleHasNothingOpen ==
  ASSUME NEW t \in Tasks, Progress(t), ~UnderWay(t), NEW s \in Sessions
  PROVE  InOpen(t, s) = {}
<1>1. at[t] = Nowhere /\ s \in {"own", "log"}
  BY DEF UnderWay, Sessions
<1>2. Nowhere.do = "none" /\ Nowhere.session = "own"
  BY DEF Nowhere, Step
<1>3. \A do, v, n : Step(do, v, n).do = do
  BY DEF Step
<1> QED
  BY <1>1, <1>2, <1>3 DEF Progress, Stage, Fresh, Writing, Filling, Looking, Over, Failing

\* A step of one task leaves the changes of the others where they are.
LEMMA OthersAreUntouched ==
  ASSUME DbInv, NEW t \in Tasks, NEW u \in Tasks, u # t, at[t].do # "none",
         Dml(t) \/ Ddl(t) \/ Commit(t) \/ RollBack(t), Separate, dialect' = dialect,
         NEW s \in Sessions
  PROVE  OnDisk(u, s)' = OnDisk(u, s) /\ InOpen(u, s)' = InOpen(u, s)
<1>1. at[t] # Nowhere /\ dialect \in {"sqlite", "mysql"}
  BY DEF Nowhere, Step, DbInv, DbTypeOK
<1>2. Connection(u, s) \in Connections /\ Connection(u, s)' = Connection(u, s)
  BY SameConnections DEF Connections
<1>3. \A n \in Nat : <<u, s, n>> # Change(t)
  BY DEF Change
<1>4. at[t].session \in Sessions /\ Conn(t) \in Connections
  BY OwnConnection DEF DbInv
<1>5. /\ disk \subseteq disk'
      /\ disk' \subseteq disk \cup pending[Conn(t)] \cup {Change(t)}
      /\ pending'[Conn(t)] \subseteq pending[Conn(t)] \cup {Change(t)}
      /\ \A c \in Connections : c # Conn(t) => pending'[c] = pending[c]
  BY Effects DEF DbInv
<1>6. \A n \in Nat \ {0} : <<u, s, n>> \notin pending[Conn(t)]
  <2>1. CASE dialect = "mysql"
    <3>1. Conn(t) # Connection(u, s)
      BY <1>4, <2>1, ConnectionsDiffer DEF Conn
    <3> QED  BY <1>4, <3>1 DEF DbInv, PendingIsOwn
  <2>2. CASE dialect = "sqlite"
    <3>1. ~UnderWay(u)
      BY <1>1, <2>2 DEF DbInv, OneAtATime, Separate, UnderWay
    <3>2. InOpen(u, s) = {}
      BY <3>1, IdleHasNothingOpen DEF DbInv
    <3>3. Connection(u, s) = Conn(t)
      BY <1>4, <2>2, ConnectionsDiffer DEF Conn
    <3> QED  BY <3>2, <3>3 DEF InOpen
  <2> QED  BY <1>1, <2>1, <2>2
<1>7. OnDisk(u, s)' = OnDisk(u, s)
  BY <1>3, <1>5, <1>6 DEF OnDisk
<1>8. \A n \in Nat \ {0} : <<u, s, n>> \in pending'[Connection(u, s)]
                             <=> <<u, s, n>> \in pending[Connection(u, s)]
  <2>1. CASE Connection(u, s) = Conn(t)
    BY <1>3, <1>5, <1>6, <2>1
  <2>2. CASE Connection(u, s) # Conn(t)
    BY <1>2, <1>5, <2>2
  <2> QED  BY <2>1, <2>2
<1>9. InOpen(u, s)' = InOpen(u, s)
  BY <1>2, <1>8 DEF InOpen
<1> QED  BY <1>7, <1>9

\* What a step does to the changes of the task that takes it: s is the session
\* it is in, and v another with the same connection or not.
LEMMA DmlEffect ==
  ASSUME DbTypeOK, NEW t \in Tasks, Dml(t), dialect' = dialect, NEW v \in Sessions,
         at[t].n \in Nat \ {0}
  PROVE  /\ OnDisk(t, v)' = OnDisk(t, v)
         /\ InOpen(t, v)' = InOpen(t, v) \cup (IF v = at[t].session THEN {at[t].n} ELSE {})
<1>1. Connection(t, v)' = Connection(t, v) /\ Connection(t, v) \in Connections
  BY SameConnections DEF Connections
<1>2. at[t].session \in Sessions /\ Conn(t) \in Connections
  BY OwnConnection
<1>3. disk' = disk /\ pending' = [pending EXCEPT ![Conn(t)] = @ \cup {Change(t)}]
  BY DEF Dml
<1>4. pending'[Connection(t, v)] = pending[Connection(t, v)]
                                     \cup (IF Connection(t, v) = Conn(t) THEN {Change(t)} ELSE {})
  BY <1>1, <1>3 DEF DbTypeOK
<1>5. v = at[t].session => Connection(t, v) = Conn(t)
  BY DEF Conn
<1>6. \A n : <<t, v, n>> = Change(t) <=> v = at[t].session /\ n = at[t].n
  BY DEF Change
<1>7. InOpen(t, v)' = {n \in Nat \ {0} : <<t, v, n>> \in pending'[Connection(t, v)]}
  BY <1>1 DEF InOpen
<1>8. \A n \in Nat \ {0} : <<t, v, n>> \in pending'[Connection(t, v)]
        <=> <<t, v, n>> \in pending[Connection(t, v)] \/ (v = at[t].session /\ n = at[t].n)
  BY <1>4, <1>5, <1>6
<1>9. \A n : n \in InOpen(t, v)' <=> n \in InOpen(t, v) \/ (v = at[t].session /\ n = at[t].n)
  BY <1>7, <1>8 DEF InOpen
<1>10. InOpen(t, v)' = InOpen(t, v) \cup (IF v = at[t].session THEN {at[t].n} ELSE {})
  BY <1>9
<1> QED  BY <1>3, <1>10 DEF OnDisk

Shares(t, v) == dialect = "sqlite" \/ v = at[t].session

LEMMA CommitEffect ==
  ASSUME DbTypeOK, PendingIsOwn, NEW t \in Tasks, Commit(t), dialect' = dialect, NEW v \in Sessions
  PROVE  /\ OnDisk(t, v)' = OnDisk(t, v) \cup (IF Shares(t, v) THEN InOpen(t, v) ELSE {})
         /\ InOpen(t, v)' = IF Shares(t, v) THEN {} ELSE InOpen(t, v)
<1>1. Connection(t, v)' = Connection(t, v) /\ Connection(t, v) \in Connections
  BY SameConnections DEF Connections
<1>2. at[t].session \in Sessions /\ Conn(t) \in Connections
  BY OwnConnection
<1>3. disk' = disk \cup pending[Conn(t)] /\ pending' = [pending EXCEPT ![Conn(t)] = {}]
  BY DEF Commit
<1>4. Connection(t, v) = Conn(t) <=> Shares(t, v)
  BY <1>2, ConnectionsDiffer DEF Conn, Shares, DbTypeOK
<1>5. pending'[Connection(t, v)] = IF Shares(t, v) THEN {} ELSE pending[Connection(t, v)]
  BY <1>1, <1>3, <1>4 DEF DbTypeOK
<1>6. \A n \in Nat : <<t, v, n>> \in pending[Conn(t)]
                       <=> Shares(t, v) /\ <<t, v, n>> \in pending[Connection(t, v)]
  BY <1>2, <1>4 DEF PendingIsOwn
<1>7. OnDisk(t, v)' = OnDisk(t, v) \cup (IF Shares(t, v) THEN InOpen(t, v) ELSE {})
  BY <1>3, <1>6 DEF OnDisk, InOpen
<1>8. InOpen(t, v)' = {n \in Nat \ {0} : <<t, v, n>> \in pending'[Connection(t, v)]}
  BY <1>1 DEF InOpen
<1>9. InOpen(t, v)' = IF Shares(t, v) THEN {} ELSE InOpen(t, v)
  BY <1>5, <1>8 DEF InOpen
<1> QED  BY <1>7, <1>9

LEMMA RollBackEffect ==
  ASSUME DbTypeOK, NEW t \in Tasks, RollBack(t), dialect' = dialect, NEW v \in Sessions
  PROVE  /\ OnDisk(t, v)' = OnDisk(t, v)
         /\ InOpen(t, v)' = IF Shares(t, v) THEN {} ELSE InOpen(t, v)
<1>1. Connection(t, v)' = Connection(t, v) /\ Connection(t, v) \in Connections
  BY SameConnections DEF Connections
<1>2. at[t].session \in Sessions /\ Conn(t) \in Connections
  BY OwnConnection
<1>3. disk' = disk /\ pending' = [pending EXCEPT ![Conn(t)] = {}]
  BY DEF RollBack
<1>4. Connection(t, v) = Conn(t) <=> Shares(t, v)
  BY <1>2, ConnectionsDiffer DEF Conn, Shares, DbTypeOK
<1>5. pending'[Connection(t, v)] = IF Shares(t, v) THEN {} ELSE pending[Connection(t, v)]
  BY <1>1, <1>3, <1>4 DEF DbTypeOK
<1>6. InOpen(t, v)' = {n \in Nat \ {0} : <<t, v, n>> \in pending'[Connection(t, v)]}
  BY <1>1 DEF InOpen
<1>7. InOpen(t, v)' = IF Shares(t, v) THEN {} ELSE InOpen(t, v)
  BY <1>5, <1>6 DEF InOpen
<1> QED  BY <1>3, <1>7 DEF OnDisk

\* A statement of DDL is not numbered, and comes when nothing else is open.
LEMMA DdlEffect ==
  ASSUME DbTypeOK, PendingIsOwn, NEW t \in Tasks, Ddl(t), dialect' = dialect, NEW v \in Sessions,
         at[t].n = 0, InOpen(t, v) = {}
  PROVE  OnDisk(t, v)' = OnDisk(t, v) /\ InOpen(t, v)' = {}
<1>1. Connection(t, v)' = Connection(t, v) /\ Connection(t, v) \in Connections
  BY SameConnections DEF Connections
<1>2. Conn(t) \in Connections /\ Change(t) = <<t, at[t].session, 0>>
  BY OwnConnection DEF Change
<1>3. \A n \in Nat \ {0} : <<t, v, n>> # Change(t)
  BY <1>2
<1>4. \A n \in Nat \ {0} : <<t, v, n>> \notin pending[Connection(t, v)]
  BY DEF InOpen
<1>5. \A n \in Nat \ {0} : <<t, v, n>> \notin pending[Conn(t)]
  BY <1>2, <1>4 DEF PendingIsOwn
<1>6. /\ disk \subseteq disk'
      /\ disk' \subseteq disk \cup pending[Conn(t)] \cup {Change(t)}
      /\ pending'[Connection(t, v)] \subseteq pending[Connection(t, v)] \cup {Change(t)}
  BY <1>1, <1>2 DEF Ddl, DbTypeOK
<1>7. OnDisk(t, v)' = OnDisk(t, v)
  BY <1>3, <1>5, <1>6 DEF OnDisk
<1>8. InOpen(t, v)' = {n \in Nat \ {0} : <<t, v, n>> \in pending'[Connection(t, v)]}
  BY <1>1 DEF InOpen
<1>9. InOpen(t, v)' = {}
  BY <1>3, <1>4, <1>6, <1>8
<1> QED  BY <1>7, <1>9

LEMMA StepFields ==
  /\ \A do, s, n : Step(do, s, n).do = do /\ Step(do, s, n).session = s /\ Step(do, s, n).n = n
  /\ Nowhere.do = "none" /\ Nowhere.session = "own" /\ Nowhere.n = 0
BY DEF Step, Nowhere

\* The step that is done, and what is known of a task once it is.
LEMMA AdvanceEffect ==
  ASSUME DbTypeOK, NEW t \in Tasks, Advance(t)
  PROVE  /\ at'[t] = Following(t)
         /\ Following(t) # Nowhere => outcome'[t] = outcome[t]
         /\ Following(t) = Nowhere /\ outcome[t] = "none" => outcome'[t] = "done"
         /\ Following(t) = Nowhere /\ outcome[t] # "none" => outcome'[t] = outcome[t]
<1>1. at'[t] = Following(t)
  BY DEF Advance, DbTypeOK
<1>2. CASE Following(t) # Nowhere
  BY <1>1, <1>2 DEF Advance
<1>3. CASE Following(t) = Nowhere
  BY <1>1, <1>3 DEF Advance, DbTypeOK
<1> QED  BY <1>2, <1>3

LEMMA UnderWayIsOneOf ==
  ASSUME NEW d, NEW p, NEW o, NEW k, NEW r, NEW own, NEW log, NEW owned, NEW logged,
         Stage(d, p, o, k, r, own, log, owned, logged), p.do # "none"
  PROVE  \/ k = "write" /\ Writing(d, p, o, r, own, log, owned, logged)
         \/ k \in {"import", "append"} /\ Filling(p, o, own, owned, logged)
         \/ k \in {"create", "read"} /\ Looking(p, o, k, own, owned, logged)
         \/ Failing(d, p, o, k, r, own, log, owned, logged)
BY StepFields DEF Stage, Fresh, Over

LEMMA DmlProgress ==
  ASSUME DbInv, Separate, NEW t \in Tasks, Dml(t), dialect' = dialect, kind' = kind, rows' = rows
  PROVE  Progress(t)'
<1> DEFINE p == at[t]
<1>1. p.do = "dml" /\ DbTypeOK /\ Advance(t) /\ rows[t] \in Nat \ {0} /\ Batches \in Nat
  BY DbSessionAssumption DEF Dml, At, DbInv, DbTypeOK
<1>2. /\ at'[t] = Following(t) /\ Following(t) = AfterDml(t)
      /\ AfterDml(t) # Nowhere => outcome'[t] = outcome[t]
  BY <1>1, AdvanceEffect DEF Following, At
<1>3. Stage(dialect, p, outcome[t], kind[t], rows[t],
            OnDisk(t, "own"), OnDisk(t, "log"), InOpen(t, "own"), InOpen(t, "log"))
  BY DEF DbInv, Progress
<1>4. p.n \in Nat \ {0} =>
        /\ OnDisk(t, "own")' = OnDisk(t, "own") /\ OnDisk(t, "log")' = OnDisk(t, "log")
        /\ InOpen(t, "own")' = InOpen(t, "own") \cup (IF "own" = p.session THEN {p.n} ELSE {})
        /\ InOpen(t, "log")' = InOpen(t, "log") \cup (IF "log" = p.session THEN {p.n} ELSE {})
  BY <1>1, DmlEffect DEF Sessions
<1>5. CASE kind[t] = "write" /\ Writing(dialect, p, outcome[t], rows[t], OnDisk(t, "own"),
                                        OnDisk(t, "log"), InOpen(t, "own"), InOpen(t, "log"))
  <2>1. CASE p = Step("dml", "own", 1) /\ OnDisk(t, "own") = {} /\ OnDisk(t, "log") = {}
             /\ InOpen(t, "own") = {} /\ InOpen(t, "log") = {}
    <3>1. p.session = "own" /\ p.n = 1
      BY <2>1, StepFields
    <3>2. AfterDml(t) = Step("dml", "log", 1)
      BY <1>1, <1>5, <3>1 DEF AfterDml, RecordUndo
    <3>3. /\ at'[t] = Step("dml", "log", 1) /\ outcome'[t] = outcome[t]
      BY <1>2, <3>2, StepFields
    <3>4. Recorded(dialect, 0, {}, {}, {1})
      BY DEF Recorded
    <3>5. Writing(dialect, Step("dml", "log", 1), outcome[t], rows[t], {}, {}, {1}, {})
      BY <1>1, <1>5, <3>4 DEF Writing
    <3> QED  BY <1>4, <1>5, <2>1, <3>1, <3>3, <3>5 DEF Progress, Stage
  <2>2. ASSUME NEW i \in 1..rows[t], p = Step("dml", "log", i), InOpen(t, "log") = {},
               Recorded(dialect, i - 1, OnDisk(t, "own"), OnDisk(t, "log"), InOpen(t, "own"))
        PROVE  Progress(t)'
    <3>1. p.session = "log" /\ p.n = i /\ i \in Nat \ {0}
      BY <1>1, <2>2, StepFields
    <3>2. AfterDml(t) = Step("commit", "log", i)
      BY <3>1 DEF AfterDml, Leave
    <3>3. at'[t] = Step("commit", "log", i) /\ outcome'[t] = outcome[t]
      BY <1>2, <3>2, StepFields
    <3>4. Writing(dialect, Step("commit", "log", i), outcome[t], rows[t],
                  OnDisk(t, "own"), OnDisk(t, "log"), InOpen(t, "own"), {i})
      BY <1>5, <2>2 DEF Writing
    <3> QED  BY <1>4, <1>5, <2>2, <3>1, <3>3, <3>4 DEF Progress, Stage
  <2> QED  BY <1>1, <1>5, <2>1, <2>2, StepFields DEF Writing
<1>6. CASE kind[t] \in {"import", "append"} /\ Filling(p, outcome[t], OnDisk(t, "own"),
                                                       InOpen(t, "own"), InOpen(t, "log"))
  <2>1. PICK i \in 1..Batches : p = Step("dml", "own", i) /\ OnDisk(t, "own") = {}
                                /\ InOpen(t, "own") = 1..(i - 1)
    BY <1>1, <1>6, StepFields DEF Filling
  <2>2. p.session = "own" /\ p.n = i /\ i \in Nat \ {0}
    BY <1>1, <2>1, StepFields
  <2>3. AfterDml(t) = InsertBatch(i + 1)
    BY <1>6, <2>2 DEF AfterDml
  <2>4. InOpen(t, "own")' = 1..i /\ InOpen(t, "log")' = {} /\ OnDisk(t, "own")' = {}
    <3>1. 1..(i - 1) \cup {i} = 1..i
      BY <2>2
    <3> QED  BY <1>4, <1>6, <2>1, <2>2, <3>1 DEF Filling
  <2>5. CASE i + 1 <= Batches
    <3>1. at'[t] = Step("dml", "own", i + 1) /\ outcome'[t] = outcome[t]
      BY <1>2, <2>3, <2>5, StepFields DEF InsertBatch
    <3>2. i + 1 \in 1..Batches /\ 1..((i + 1) - 1) = 1..i
      BY <1>1, <2>2, <2>5
    <3>3. Filling(Step("dml", "own", i + 1), outcome[t], {}, 1..i, {})
      BY <1>6, <3>2 DEF Filling
    <3> QED  BY <1>6, <2>4, <3>1, <3>3 DEF Progress, Stage
  <2>6. CASE ~(i + 1 <= Batches)
    <3>1. at'[t] = Step("commit", "own", 0) /\ outcome'[t] = outcome[t]
      BY <1>2, <2>3, <2>6, StepFields DEF InsertBatch, Leave
    <3>2. i = Batches
      BY <1>1, <2>6
    <3>3. Filling(Step("commit", "own", 0), outcome[t], {}, 1..i, {})
      BY <1>6, <3>2 DEF Filling
    <3> QED  BY <1>6, <2>4, <3>1, <3>3 DEF Progress, Stage
  <2> QED  BY <2>5, <2>6
<1> QED  BY <1>1, <1>3, <1>5, <1>6, UnderWayIsOneOf, StepFields DEF Looking, Failing

LEMMA CommitProgress ==
  ASSUME DbInv, Separate, NEW t \in Tasks, Commit(t), dialect' = dialect, kind' = kind, rows' = rows
  PROVE  Progress(t)'
<1> DEFINE p == at[t]
           d == dialect
<1>1. p.do = "commit" /\ DbTypeOK /\ PendingIsOwn /\ Advance(t) /\ rows[t] \in Nat \ {0}
      /\ d \in {"sqlite", "mysql"}
  BY DEF Commit, At, DbInv, DbTypeOK
<1>2. Following(t) = Step("close", p.session, p.n)
  BY <1>1 DEF Following, At
<1>3. at'[t] = Step("close", p.session, p.n) /\ outcome'[t] = outcome[t]
  BY <1>1, <1>2, AdvanceEffect, StepFields
<1>4. Stage(d, p, outcome[t], kind[t], rows[t],
            OnDisk(t, "own"), OnDisk(t, "log"), InOpen(t, "own"), InOpen(t, "log"))
  BY DEF DbInv, Progress
<1> DEFINE ownShares == d = "sqlite" \/ "own" = p.session
           logShares == d = "sqlite" \/ "log" = p.session
<1>5. /\ OnDisk(t, "own")' = OnDisk(t, "own") \cup (IF ownShares THEN InOpen(t, "own") ELSE {})
      /\ OnDisk(t, "log")' = OnDisk(t, "log") \cup (IF logShares THEN InOpen(t, "log") ELSE {})
      /\ InOpen(t, "own")' = IF ownShares THEN {} ELSE InOpen(t, "own")
      /\ InOpen(t, "log")' = IF logShares THEN {} ELSE InOpen(t, "log")
  BY <1>1, CommitEffect DEF Sessions, Shares
<1>6. CASE kind[t] = "write" /\ Writing(d, p, outcome[t], rows[t], OnDisk(t, "own"),
                                        OnDisk(t, "log"), InOpen(t, "own"), InOpen(t, "log"))
  <2>1. ASSUME NEW i \in 1..rows[t], p = Step("commit", "log", i), InOpen(t, "log") = {i},
               Recorded(d, i - 1, OnDisk(t, "own"), OnDisk(t, "log"), InOpen(t, "own"))
        PROVE  Progress(t)'
    <3>1. p.session = "log" /\ p.n = i
      BY <2>1, StepFields
    <3>2. at'[t] = Step("close", "log", i)
      BY <1>3, <3>1
    <3>3. 1..(i - 1) \cup {i} = 1..i
      BY <1>1
    <3>4. OnDisk(t, "log")' = 1..i /\ InOpen(t, "log")' = {}
      BY <1>5, <2>1, <3>1, <3>3 DEF Recorded
    <3>5. Recorded(d, i, OnDisk(t, "own")', 1..i, InOpen(t, "own")')
      BY <1>1, <1>5, <2>1, <3>1 DEF Recorded
    <3>6. Writing(d, Step("close", "log", i), outcome[t], rows[t],
                  OnDisk(t, "own")', 1..i, InOpen(t, "own")', {})
      BY <1>6, <2>1, <3>5 DEF Writing
    <3> QED  BY <1>3, <1>6, <3>2, <3>4, <3>6 DEF Progress, Stage
  <2>2. CASE p = Step("commit", "own", 0) /\ InOpen(t, "log") = {}
             /\ Recorded(d, rows[t], OnDisk(t, "own"), OnDisk(t, "log"), InOpen(t, "own"))
    <3>1. p.session = "own" /\ p.n = 0
      BY <2>2, StepFields
    <3>2. /\ OnDisk(t, "own")' = {1} /\ OnDisk(t, "log")' = 1..rows[t]
          /\ InOpen(t, "own")' = {} /\ InOpen(t, "log")' = {}
      BY <1>1, <1>5, <2>2, <3>1 DEF Recorded
    <3>3. Writing(d, Step("close", "own", 0), outcome[t], rows[t], {1}, 1..rows[t], {}, {})
      BY <1>6 DEF Writing
    <3> QED  BY <1>3, <1>6, <3>1, <3>2, <3>3 DEF Progress, Stage
  <2> QED  BY <1>1, <1>6, <2>1, <2>2, StepFields DEF Writing
<1>7. CASE kind[t] \in {"import", "append"} /\ Filling(p, outcome[t], OnDisk(t, "own"),
                                                       InOpen(t, "own"), InOpen(t, "log"))
  <2>1. p = Step("commit", "own", 0) /\ OnDisk(t, "own") = {} /\ InOpen(t, "own") = 1..Batches
        /\ InOpen(t, "log") = {}
    BY <1>1, <1>7, StepFields DEF Filling
  <2>2. p.session = "own" /\ p.n = 0
    BY <2>1, StepFields
  <2>3. OnDisk(t, "own")' = 1..Batches /\ InOpen(t, "own")' = {} /\ InOpen(t, "log")' = {}
    BY <1>5, <2>1, <2>2
  <2>4. Filling(Step("close", "own", 0), outcome[t], 1..Batches, {}, {})
    BY <1>7 DEF Filling
  <2> QED  BY <1>3, <1>7, <2>2, <2>3, <2>4 DEF Progress, Stage
<1>8. CASE kind[t] \in {"create", "read"} /\ Looking(p, outcome[t], kind[t], OnDisk(t, "own"),
                                                     InOpen(t, "own"), InOpen(t, "log"))
  <2>1. PICK n \in {0, 1} : p = Step("commit", "own", n)
    BY <1>1, <1>8, StepFields DEF Looking
  <2>2. at'[t] = Step("close", "own", n)
    BY <1>3, <2>1, StepFields
  <2>3. OnDisk(t, "own")' = {} /\ InOpen(t, "own")' = {} /\ InOpen(t, "log")' = {}
    BY <1>5, <1>8 DEF Looking
  <2>4. Looking(Step("close", "own", n), outcome[t], kind[t], {}, {}, {})
    BY <1>8 DEF Looking
  <2> QED  BY <1>3, <1>8, <2>2, <2>3, <2>4 DEF Progress, Stage
<1>9. CASE Failing(d, p, outcome[t], kind[t], rows[t], OnDisk(t, "own"), OnDisk(t, "log"),
                   InOpen(t, "own"), InOpen(t, "log"))
  <2>1. p.session = "own" /\ InOpen(t, "own") = {} /\ InOpen(t, "log") = {} /\ kind[t] = "import"
        /\ OnDisk(t, "own") = {} /\ outcome[t] = "failed"
    BY <1>1, <1>9 DEF Failing
  <2>2. OnDisk(t, "own")' = {} /\ InOpen(t, "own")' = {} /\ InOpen(t, "log")' = {}
    BY <1>5, <2>1
  <2>3. Failing(d, Step("close", "own", p.n), "failed", kind[t], rows[t],
                {}, OnDisk(t, "log")', {}, {})
    BY StepFields DEF Failing
  <2> QED  BY <1>3, <2>1, <2>2, <2>3 DEF Progress, Stage
<1> QED  BY <1>1, <1>4, <1>6, <1>7, <1>8, <1>9, UnderWayIsOneOf

LEMMA DdlProgress ==
  ASSUME DbInv, Separate, NEW t \in Tasks, Ddl(t), dialect' = dialect, kind' = kind, rows' = rows
  PROVE  Progress(t)'
<1> DEFINE p == at[t]
<1>1. p.do = "ddl" /\ DbTypeOK /\ PendingIsOwn /\ Advance(t) /\ Batches \in Nat
  BY DbSessionAssumption DEF Ddl, At, DbInv
<1>2. at'[t] = AfterDdl(t) /\ (AfterDdl(t) # Nowhere => outcome'[t] = outcome[t])
  BY <1>1, AdvanceEffect DEF Following, At
<1>3. Stage(dialect, p, outcome[t], kind[t], rows[t],
            OnDisk(t, "own"), OnDisk(t, "log"), InOpen(t, "own"), InOpen(t, "log"))
  BY DEF DbInv, Progress
<1>4. \/ kind[t] \in {"import", "append"} /\ Filling(p, outcome[t], OnDisk(t, "own"),
                                                     InOpen(t, "own"), InOpen(t, "log"))
      \/ kind[t] \in {"create", "read"} /\ Looking(p, outcome[t], kind[t], OnDisk(t, "own"),
                                                   InOpen(t, "own"), InOpen(t, "log"))
  BY <1>1, <1>3, UnderWayIsOneOf, StepFields DEF Writing, Failing
<1>5. /\ p = Step("ddl", "own", 0) /\ kind[t] \in {"import", "append", "create"}
      /\ outcome[t] = "none" /\ OnDisk(t, "own") = {}
      /\ InOpen(t, "own") = {} /\ InOpen(t, "log") = {}
  BY <1>1, <1>4, StepFields DEF Filling, Looking
<1>6. OnDisk(t, "own")' = {} /\ InOpen(t, "own")' = {} /\ InOpen(t, "log")' = {}
  BY <1>1, <1>5, DdlEffect, StepFields DEF Sessions
<1>7. CASE kind[t] = "create"
  <2>1. at'[t] = Step("commit", "own", 0) /\ outcome'[t] = "none"
    BY <1>2, <1>5, <1>7, StepFields DEF AfterDdl, Leave
  <2>2. Looking(Step("commit", "own", 0), "none", "create", {}, {}, {})
    BY DEF Looking
  <2> QED  BY <1>6, <1>7, <2>1, <2>2 DEF Progress, Stage
<1>8. CASE kind[t] \in {"import", "append"} /\ 1 <= Batches
  <2>1. at'[t] = Step("dml", "own", 1) /\ outcome'[t] = "none"
    BY <1>2, <1>5, <1>8, StepFields DEF AfterDdl, InsertBatch
  <2>2. 1 \in 1..Batches /\ 1..(1 - 1) = {}
    BY <1>1, <1>8
  <2>3. Filling(Step("dml", "own", 1), "none", {}, {}, {})
    BY <2>2 DEF Filling
  <2> QED  BY <1>6, <1>8, <2>1, <2>3 DEF Progress, Stage
<1>9. CASE kind[t] \in {"import", "append"} /\ ~(1 <= Batches)
  <2>1. at'[t] = Step("commit", "own", 0) /\ outcome'[t] = "none"
    BY <1>2, <1>5, <1>9, StepFields DEF AfterDdl, InsertBatch, Leave
  <2>2. 1..Batches = {}
    BY <1>1, <1>9
  <2>3. Filling(Step("commit", "own", 0), "none", {}, {}, {})
    BY <2>2 DEF Filling
  <2> QED  BY <1>6, <1>9, <2>1, <2>3 DEF Progress, Stage
<1> QED  BY <1>5, <1>7, <1>8, <1>9

LEMMA RollBackProgress ==
  ASSUME DbInv, Separate, NEW t \in Tasks, RollBack(t), dialect' = dialect, kind' = kind,
         rows' = rows
  PROVE  Progress(t)'
<1> DEFINE p == at[t]
           d == dialect
<1>1. p.do \in {"rollback", "close"} /\ DbTypeOK /\ Advance(t) /\ rows[t] \in Nat \ {0}
      /\ d \in {"sqlite", "mysql"} /\ p.session \in {"own", "log"}
  BY DEF RollBack, At, DbInv, DbTypeOK, Sessions
<1>2. /\ at'[t] = Following(t)
      /\ p.do = "rollback" => Following(t) = Step("close", p.session, p.n)
      /\ p.do = "close" => Following(t) = AfterClose(t)
      /\ Following(t) # Nowhere => outcome'[t] = outcome[t]
      /\ Following(t) = Nowhere /\ outcome[t] = "none" => outcome'[t] = "done"
      /\ Following(t) = Nowhere /\ outcome[t] # "none" => outcome'[t] = outcome[t]
  BY <1>1, AdvanceEffect DEF Following, At
<1>3. Stage(d, p, outcome[t], kind[t], rows[t],
            OnDisk(t, "own"), OnDisk(t, "log"), InOpen(t, "own"), InOpen(t, "log"))
  BY DEF DbInv, Progress
<1>4. /\ OnDisk(t, "own")' = OnDisk(t, "own") /\ OnDisk(t, "log")' = OnDisk(t, "log")
      /\ InOpen(t, "own")' = IF d = "sqlite" \/ "own" = p.session THEN {} ELSE InOpen(t, "own")
      /\ InOpen(t, "log")' = IF d = "sqlite" \/ "log" = p.session THEN {} ELSE InOpen(t, "log")
  BY <1>1, RollBackEffect DEF Sessions, Shares
<1>5. CASE kind[t] = "write" /\ Writing(d, p, outcome[t], rows[t], OnDisk(t, "own"),
                                        OnDisk(t, "log"), InOpen(t, "own"), InOpen(t, "log"))
  <2>1. ASSUME NEW i \in 1..rows[t], p = Step("close", "log", i), InOpen(t, "log") = {},
               Recorded(d, i, OnDisk(t, "own"), OnDisk(t, "log"), InOpen(t, "own"))
        PROVE  Progress(t)'
    <3>1. p.do = "close" /\ p.session = "log" /\ p.n = i
      BY <2>1, StepFields
    <3>2. outcome[t] = "none" /\ AfterClose(t) = RecordUndo(t, i + 1)
      BY <1>5, <3>1 DEF AfterClose, Writing
    <3>3. InOpen(t, "own")' = InOpen(t, "own") /\ InOpen(t, "log")' = {}
      <4>1. i > 0
        BY <1>1
      <4>2. d = "sqlite" => InOpen(t, "own") = {}
        BY <2>1, <4>1 DEF Recorded
      <4> QED  BY <1>1, <1>4, <3>1, <4>2
    <3>4. CASE i + 1 <= rows[t]
      <4>1. at'[t] = Step("dml", "log", i + 1) /\ outcome'[t] = "none"
        BY <1>2, <3>1, <3>2, <3>4, StepFields DEF RecordUndo
      <4>2. i + 1 \in 1..rows[t] /\ (i + 1) - 1 = i
        BY <1>1, <3>4
      <4>3. Writing(d, Step("dml", "log", i + 1), "none", rows[t],
                    OnDisk(t, "own"), OnDisk(t, "log"), InOpen(t, "own"), {})
        BY <2>1, <4>2 DEF Writing
      <4> QED  BY <1>4, <1>5, <3>3, <4>1, <4>3 DEF Progress, Stage
    <3>5. CASE ~(i + 1 <= rows[t])
      <4>1. at'[t] = Step("commit", "own", 0) /\ outcome'[t] = "none"
        BY <1>2, <3>1, <3>2, <3>5, StepFields DEF RecordUndo, Leave
      <4>2. i = rows[t]
        BY <1>1, <3>5
      <4>3. Writing(d, Step("commit", "own", 0), "none", rows[t],
                    OnDisk(t, "own"), OnDisk(t, "log"), InOpen(t, "own"), {})
        BY <2>1, <4>2 DEF Writing
      <4> QED  BY <1>4, <1>5, <3>3, <4>1, <4>3 DEF Progress, Stage
    <3> QED  BY <3>4, <3>5
  <2>2. CASE p = Step("close", "own", 0) /\ OnDisk(t, "own") = {1} /\ OnDisk(t, "log") = 1..rows[t]
             /\ InOpen(t, "own") = {} /\ InOpen(t, "log") = {}
    <3>1. p.do = "close" /\ p.session = "own" /\ outcome[t] = "none"
      BY <1>5, <2>2, StepFields DEF Writing
    <3>2. AfterClose(t) = Nowhere
      BY <1>5, <3>1 DEF AfterClose
    <3>3. at'[t] = Nowhere /\ outcome'[t] = "done"
      BY <1>2, <3>1, <3>2
    <3>4. Over(Nowhere, "done", "write", rows[t], {1}, 1..rows[t], {}, {})
      BY DEF Over
    <3> QED  BY <1>4, <1>5, <2>2, <3>3, <3>4 DEF Progress, Stage
  <2> QED  BY <1>1, <1>5, <2>1, <2>2, StepFields DEF Writing
<1>6. CASE kind[t] \in {"import", "append"} /\ Filling(p, outcome[t], OnDisk(t, "own"),
                                                       InOpen(t, "own"), InOpen(t, "log"))
  <2>1. p = Step("close", "own", 0) /\ OnDisk(t, "own") = 1..Batches /\ InOpen(t, "own") = {}
        /\ InOpen(t, "log") = {} /\ outcome[t] = "none"
    BY <1>1, <1>6, StepFields DEF Filling
  <2>2. p.do = "close" /\ p.session = "own"
    BY <2>1, StepFields
  <2>3. AfterClose(t) = Nowhere
    BY <1>6, <2>2 DEF AfterClose
  <2>4. at'[t] = Nowhere /\ outcome'[t] = "done"
    BY <1>2, <2>1, <2>2, <2>3
  <2>5. Over(Nowhere, "done", kind[t], rows[t], 1..Batches, OnDisk(t, "log"), {}, {})
    BY <1>6 DEF Over
  <2> QED  BY <1>4, <2>1, <2>4, <2>5 DEF Progress, Stage
<1>7. CASE kind[t] \in {"create", "read"} /\ Looking(p, outcome[t], kind[t], OnDisk(t, "own"),
                                                     InOpen(t, "own"), InOpen(t, "log"))
  <2>1. PICK n \in {0, 1} : p = Step("close", "own", n)
    BY <1>1, <1>7, StepFields DEF Looking
  <2>2. /\ p.do = "close" /\ p.session = "own" /\ p.n = n /\ outcome[t] = "none"
        /\ OnDisk(t, "own") = {} /\ InOpen(t, "own") = {} /\ InOpen(t, "log") = {}
    BY <1>7, <2>1, StepFields DEF Looking
  <2>3. CASE kind[t] = "create" /\ n = 0
    <3>1. AfterClose(t) = Step("commit", "own", 1)
      BY <2>2, <2>3 DEF AfterClose, Leave
    <3>2. at'[t] = Step("commit", "own", 1) /\ outcome'[t] = "none"
      BY <1>2, <2>2, <3>1, StepFields
    <3>3. Looking(Step("commit", "own", 1), "none", kind[t], {}, {}, {})
      BY DEF Looking
    <3> QED  BY <1>4, <1>7, <2>2, <3>2, <3>3 DEF Progress, Stage
  <2>4. CASE ~(kind[t] = "create" /\ n = 0)
    <3>1. AfterClose(t) = Nowhere
      BY <2>2, <2>4 DEF AfterClose
    <3>2. at'[t] = Nowhere /\ outcome'[t] = "done"
      BY <1>2, <2>2, <3>1
    <3>3. Over(Nowhere, "done", kind[t], rows[t], {}, OnDisk(t, "log"), {}, {})
      BY <1>7 DEF Over
    <3> QED  BY <1>4, <2>2, <3>2, <3>3 DEF Progress, Stage
  <2> QED  BY <2>3, <2>4
<1>8. CASE Failing(d, p, outcome[t], kind[t], rows[t], OnDisk(t, "own"), OnDisk(t, "log"),
                   InOpen(t, "own"), InOpen(t, "log"))
  <2>1. /\ outcome[t] = "failed" /\ outcome'[t] = "failed"
        /\ p.session = "own" => InOpen(t, "log") = {}
        /\ p.session = "own" => InOpen(t, "own")' = {} /\ InOpen(t, "log")' = {}
        /\ p.session = "log" => InOpen(t, "log")' = {}
    BY <1>2, <1>4, <1>8 DEF Failing
  <2>2. \A q : Failing(d, q, "failed", kind[t], rows[t], OnDisk(t, "own"), OnDisk(t, "log"),
                       InOpen(t, "own")', InOpen(t, "log")') /\ at'[t] = q => Progress(t)'
    BY <1>4, <2>1 DEF Progress, Stage
  <2>3. CASE p.do = "rollback"
    <3>1. at'[t] = Step("close", p.session, p.n)
      BY <1>2, <2>3
    <3>2. Failing(d, Step("close", p.session, p.n), "failed", kind[t], rows[t], OnDisk(t, "own"),
                  OnDisk(t, "log"), InOpen(t, "own")', InOpen(t, "log")')
      BY <1>8, <2>1, StepFields DEF Failing
    <3> QED  BY <2>2, <3>1, <3>2
  <2>4. CASE p.do = "close" /\ p.session = "log"
    <3>1. at'[t] = Step("rollback", "own", 0)
      BY <1>2, <2>1, <2>4 DEF AfterClose, Abandon
    <3>2. Failing(d, Step("rollback", "own", 0), "failed", kind[t], rows[t], OnDisk(t, "own"),
                  OnDisk(t, "log"), InOpen(t, "own")', InOpen(t, "log")')
      BY <1>8, <2>1, <2>4, StepFields DEF Failing
    <3> QED  BY <2>2, <3>1, <3>2
  <2>5. CASE p.do = "close" /\ p.session = "own"
    <3>1. at'[t] = Nowhere
      BY <1>2, <2>1, <2>5 DEF AfterClose
    <3>2. Failing(d, Nowhere, "failed", kind[t], rows[t], OnDisk(t, "own"),
                  OnDisk(t, "log"), InOpen(t, "own")', InOpen(t, "log")')
      BY <1>8, <2>1, <2>5, StepFields DEF Failing
    <3> QED  BY <2>2, <3>1, <3>2
  <2> QED  BY <1>1, <2>3, <2>4, <2>5
<1> QED  BY <1>1, <1>3, <1>5, <1>6, <1>7, <1>8, UnderWayIsOneOf

LEMMA FailProgress ==
  ASSUME DbInv, Separate, NEW t \in Tasks, Fail(t)
  PROVE  Progress(t)'
<1> DEFINE p == at[t]
           q == Step("rollback", p.session, 0)
<1>1. p.do \in {"dml", "ddl", "commit"} /\ rows[t] \in Nat \ {0} /\ DbTypeOK
      /\ p.session \in {"own", "log"}
  BY DEF Fail, At, DbInv, DbTypeOK, Sessions
<1>2. at'[t] = q /\ outcome'[t] = "failed" /\ dialect' = dialect /\ kind'[t] = kind[t]
      /\ rows'[t] = rows[t]
  BY <1>1 DEF Fail, Abandon, DbTypeOK
<1>3. \A s \in Sessions : OnDisk(t, s)' = OnDisk(t, s) /\ InOpen(t, s)' = InOpen(t, s)
  BY SameConnections DEF Fail, OnDisk, InOpen
<1>4. Stage(dialect, p, outcome[t], kind[t], rows[t],
            OnDisk(t, "own"), OnDisk(t, "log"), InOpen(t, "own"), InOpen(t, "log"))
  BY DEF DbInv, Progress
<1>5. /\ p.session = "own" => InOpen(t, "log") = {}
      /\ \/ OnDisk(t, "own") = {}
         \/ /\ kind[t] = "write" /\ OnDisk(t, "own") = {1} /\ dialect = "sqlite"
            /\ rows[t] = 1 => OnDisk(t, "log") = {1}
  <2>1. CASE kind[t] = "write" /\ Writing(dialect, p, outcome[t], rows[t], OnDisk(t, "own"),
                                          OnDisk(t, "log"), InOpen(t, "own"), InOpen(t, "log"))
    BY <1>1, <2>1, StepFields DEF Writing, Recorded
  <2>2. CASE kind[t] \in {"import", "append"} /\ Filling(p, outcome[t], OnDisk(t, "own"),
                                                         InOpen(t, "own"), InOpen(t, "log"))
    BY <1>1, <2>2, StepFields DEF Filling
  <2>3. CASE kind[t] \in {"create", "read"} /\ Looking(p, outcome[t], kind[t], OnDisk(t, "own"),
                                                       InOpen(t, "own"), InOpen(t, "log"))
    BY <2>3 DEF Looking
  <2>4. CASE Failing(dialect, p, outcome[t], kind[t], rows[t], OnDisk(t, "own"),
                     OnDisk(t, "log"), InOpen(t, "own"), InOpen(t, "log"))
    BY <2>4 DEF Failing
  <2> QED  BY <1>1, <1>4, <2>1, <2>2, <2>3, <2>4, UnderWayIsOneOf
<1>6. Failing(dialect, q, "failed", kind[t], rows[t], OnDisk(t, "own"), OnDisk(t, "log"),
              InOpen(t, "own"), InOpen(t, "log"))
  BY <1>5, StepFields DEF Failing
<1> QED  BY <1>2, <1>3, <1>6 DEF Progress, Stage, Sessions

LEMMA BeginProgress ==
  ASSUME DbInv, NEW t \in Tasks, Begin(t) \/ TableExists(t) \/ Unreadable(t), Progress(t)
  PROVE  Progress(t)'
<1>1. DbTypeOK /\ Batches \in Nat /\ rows[t] \in Nat \ {0}
      /\ kind[t] \in {"write", "import", "append", "create", "read"}
  BY DbSessionAssumption DEF DbInv, DbTypeOK
<1>2. /\ dialect' = dialect /\ kind' = kind /\ rows' = rows
      /\ \A s \in Sessions : OnDisk(t, s)' = OnDisk(t, s) /\ InOpen(t, s)' = InOpen(t, s)
  BY SameConnections DEF Begin, TableExists, Unreadable, OnDisk, InOpen
<1>3. at[t] = Nowhere /\ outcome[t] = "none"
  BY DEF Begin, TableExists, Unreadable, UnderWay
<1>4. /\ OnDisk(t, "own") = {} /\ OnDisk(t, "log") = {}
      /\ InOpen(t, "own") = {} /\ InOpen(t, "log") = {}
  BY <1>3, StepFields DEF Progress, Stage, Fresh, Writing, Filling, Looking, Over, Failing
<1>5. /\ OnDisk(t, "own")' = {} /\ OnDisk(t, "log")' = {}
      /\ InOpen(t, "own")' = {} /\ InOpen(t, "log")' = {}
  BY <1>2, <1>4 DEF Sessions
<1>6. CASE Begin(t)
  <2>1. at'[t] = First(t) /\ outcome'[t] = "none"
    BY <1>1, <1>3, <1>6 DEF Begin, DbTypeOK
  <2>2. CASE kind[t] = "write"
    <3>1. at'[t] = Step("dml", "own", 1)
      BY <2>1, <2>2 DEF First
    <3>2. Writing(dialect, Step("dml", "own", 1), "none", rows[t], {}, {}, {}, {})
      BY DEF Writing
    <3> QED  BY <1>2, <1>5, <2>1, <2>2, <3>1, <3>2 DEF Progress, Stage
  <2>3. CASE kind[t] \in {"import", "append"}
    <3>1. at'[t] \in {Step("ddl", "own", 0), InsertBatch(1)}
      BY <2>1, <2>3 DEF First
    <3>2. Filling(at'[t], "none", {}, {}, {})
      <4>1. CASE at'[t] = Step("ddl", "own", 0)
        BY <4>1 DEF Filling
      <4>2. CASE at'[t] = InsertBatch(1) /\ 1 <= Batches
        <5>1. at'[t] = Step("dml", "own", 1) /\ 1 \in 1..Batches /\ 1..(1 - 1) = {}
          BY <1>1, <4>2 DEF InsertBatch
        <5> QED  BY <5>1 DEF Filling
      <4>3. CASE at'[t] = InsertBatch(1) /\ ~(1 <= Batches)
        <5>1. at'[t] = Step("commit", "own", 0) /\ 1..Batches = {}
          BY <1>1, <4>3 DEF InsertBatch, Leave
        <5> QED  BY <5>1 DEF Filling
      <4> QED  BY <3>1, <4>1, <4>2, <4>3
    <3> QED  BY <1>2, <1>5, <2>1, <2>3, <3>2 DEF Progress, Stage
  <2>4. CASE kind[t] \in {"create", "read"}
    <3>1. \/ kind[t] = "create" /\ at'[t] = Step("ddl", "own", 0)
          \/ at'[t] = Step("commit", "own", 0)
      BY <2>1, <2>4 DEF First, ReadOnly, Leave
    <3>2. Looking(at'[t], "none", kind[t], {}, {}, {})
      BY <3>1 DEF Looking
    <3> QED  BY <1>2, <1>5, <2>1, <2>4, <3>2 DEF Progress, Stage
  <2> QED  BY <1>1, <2>2, <2>3, <2>4
<1>7. CASE TableExists(t) \/ Unreadable(t)
  <2>1. /\ outcome'[t] = "failed"
        /\ \/ at'[t] = Nowhere
           \/ at'[t] = Step("commit", "own", 0) /\ kind[t] = "import"
    BY <1>1, <1>3, <1>7 DEF TableExists, Unreadable, Leave, DbTypeOK
  <2>2. Failing(dialect, at'[t], "failed", kind[t], rows[t], {}, {}, {}, {})
    BY <2>1, StepFields DEF Failing
  <2> QED  BY <1>2, <1>5, <2>1, <2>2 DEF Progress, Stage
<1> QED  BY <1>6, <1>7

\* Once two tasks have overlapped on SQLite, nothing is promised any more.
LEMMA SeparateBefore ==
  ASSUME DbTypeOK, [DbNext]_dbVars, Separate'
  PROVE  Separate
<1>1. dialect' = dialect
  BY DbTypeStep
<1>2. overlapped => overlapped'
  BY Zenon DEF DbNext, dbVars, Begin, TableExists, Unreadable, Dml, Ddl, Commit, RollBack, Fail,
               TimeOut
<1> QED  BY <1>1, <1>2 DEF Separate

LEMMA ProgressStep ==
  ASSUME DbInv, [DbNext]_dbVars, Separate', NEW u \in Tasks
  PROVE  Progress(u)'
<1>1. DbTypeOK /\ Separate /\ Progress(u)
  BY SeparateBefore DEF DbInv
<1>2. dialect' = dialect /\ kind' = kind /\ rows' = rows
  BY <1>1, DbTypeStep
<1>3. ASSUME at'[u] = at[u], outcome'[u] = outcome[u],
             \A s \in Sessions : OnDisk(u, s)' = OnDisk(u, s) /\ InOpen(u, s)' = InOpen(u, s)
      PROVE  Progress(u)'
  BY <1>1, <1>2, <1>3 DEF Progress, Sessions
<1>4. ASSUME UNCHANGED <<disk, pending>>
      PROVE  \A s \in Sessions : OnDisk(u, s)' = OnDisk(u, s) /\ InOpen(u, s)' = InOpen(u, s)
  BY <1>2, <1>4, SameConnections DEF OnDisk, InOpen
<1>5. CASE UNCHANGED dbVars
  BY <1>3, <1>4, <1>5 DEF dbVars
<1>6. ASSUME NEW t \in Tasks, t # u,
             Begin(t) \/ TableExists(t) \/ Unreadable(t) \/ Fail(t) \/ TimeOut(t)
      PROVE  Progress(u)'
  BY <1>1, <1>3, <1>4, <1>6 DEF Begin, TableExists, Unreadable, Fail, TimeOut, DbTypeOK
<1>7. ASSUME NEW t \in Tasks, t # u, Dml(t) \/ Ddl(t) \/ Commit(t) \/ RollBack(t)
      PROVE  Progress(u)'
  <2>1. at[t].do # "none" /\ Advance(t)
    BY <1>7 DEF Dml, Ddl, Commit, RollBack, At
  <2>2. at'[u] = at[u] /\ outcome'[u] = outcome[u]
    BY <1>1, <1>7, <2>1 DEF Advance, DbTypeOK
  <2> QED  BY <1>1, <1>2, <1>3, <1>7, <2>1, <2>2, OthersAreUntouched
<1>8. CASE TimeOut(u)
  BY <1>3, <1>4, <1>8 DEF TimeOut
<1>9. CASE Begin(u) \/ TableExists(u) \/ Unreadable(u)
  BY <1>1, <1>9, BeginProgress
<1>10. CASE Fail(u)
  BY <1>1, <1>10, FailProgress
<1>11. CASE Dml(u) \/ Ddl(u) \/ Commit(u) \/ RollBack(u)
  BY <1>1, <1>2, <1>11, DmlProgress, DdlProgress, CommitProgress, RollBackProgress
<1> QED  BY <1>5, <1>6, <1>7, <1>8, <1>9, <1>10, <1>11 DEF DbNext

LEMMA DbInvInit == ASSUME DbInit PROVE DbInv
<1>1. DbTypeOK
  <2>1. /\ disk = {} /\ overlapped = FALSE
        /\ at = [t \in Tasks |-> Nowhere]
        /\ pending = [c \in Connections |-> {}]
    BY DEF DbInit
  <2>2. Nowhere \in [do : {"none", "dml", "ddl", "commit", "rollback", "close"},
                     session : Sessions, n : Nat]
    BY DEF Nowhere, Step, Sessions
  <2>3. at \in [Tasks -> [do : {"none", "dml", "ddl", "commit", "rollback", "close"},
                          session : Sessions, n : Nat]]
    BY <2>1, <2>2
  <2>4. pending \in [Connections -> SUBSET (Tasks \X Sessions \X Nat)]
    BY <2>1
  <2> QED  BY <2>1, <2>3, <2>4, DbSessionAssumption DEF DbInit, DbTypeOK
<1>2. PendingIsOwn /\ AnswerIsOutcome /\ OneAtATime
  BY DEF DbInit, PendingIsOwn, AnswerIsOutcome, OneAtATime, UnderWay
<1>3. ASSUME NEW t \in Tasks
      PROVE  Progress(t)
  <2>1. Connection(t, "own") \in Connections /\ Connection(t, "log") \in Connections
    BY DEF Connections, Sessions
  <2>2. /\ OnDisk(t, "own") = {} /\ OnDisk(t, "log") = {}
        /\ InOpen(t, "own") = {} /\ InOpen(t, "log") = {}
    BY <2>1 DEF DbInit, OnDisk, InOpen
  <2>3. at[t] = Nowhere /\ outcome[t] = "none"
    BY DEF DbInit
  <2> QED  BY <2>2, <2>3 DEF Progress, Stage, Fresh
<1> QED  BY <1>1, <1>2, <1>3 DEF DbInv

LEMMA DbInvStep == ASSUME DbInv, [DbNext]_dbVars PROVE DbInv'
<1>1. DbTypeOK' /\ PendingIsOwn' /\ AnswerIsOutcome' /\ OneAtATime'
  BY DbTypeStep, PendingStep, AnswerStep, OneStep DEF DbInv
<1>2. Separate' => \A t \in Tasks : Progress(t)'
  BY ProgressStep
<1> QED  BY <1>1, <1>2 DEF DbInv

\* What the database holds, and what waits in its transactions, fits the step
\* that each task is at.
THEOREM DbInvariant == DbSpec => []DbInv
<1>1. DbInit => DbInv
  BY DbInvInit
<1>2. DbInv /\ [DbNext]_dbVars => DbInv'
  BY DbInvStep
<1> QED  BY <1>1, <1>2, PTL DEF DbSpec

\* The changes that the properties speak of are the numbered ones on the disk.
LEMMA KeptIsOnDisk ==
  ASSUME NEW t \in Tasks, NEW s \in Sessions, NEW N \in Nat, N <= MaxRows + Batches,
         OnDisk(t, s) \subseteq 1..N
  PROVE  Kept(t, s) = OnDisk(t, s)
<1>1. MaxRows \in Nat /\ Batches \in Nat
  BY DbSessionAssumption
<1>2. \A n : n \in Kept(t, s) <=> n \in 1..(MaxRows + Batches) /\ <<t, s, n>> \in disk
  BY DEF Kept
<1>3. \A n : n \in OnDisk(t, s) <=> n \in Nat \ {0} /\ <<t, s, n>> \in disk
  BY DEF OnDisk
<1>4. \A n \in OnDisk(t, s) : n \in 1..(MaxRows + Batches)
  BY <1>1
<1>5. \A n \in 1..(MaxRows + Batches) : n \in Nat \ {0}
  BY <1>1
<1>6. \A n : n \in Kept(t, s) <=> n \in OnDisk(t, s)
  BY <1>2, <1>3, <1>4, <1>5, Zenon
<1> QED  BY <1>6

\* A tool that answers that it wrote something has written it, all of it and
\* for good, unless other tasks used its connection.
THEOREM AcknowledgedWritesAreDurable == DbSpec => []AcknowledgedIsDurable
<1>1. DbInv => AcknowledgedIsDurable
  <2>1. SUFFICES ASSUME DbInv, NEW t \in Tasks, Separate, answer[t] = "done"
                 PROVE  Kept(t, "own") = Statements(t)
    BY DEF AcknowledgedIsDurable
  <2>2. /\ outcome[t] = "done" /\ Progress(t)
        /\ rows[t] \in 1..MaxRows /\ MaxRows \in Nat /\ Batches \in Nat
        /\ kind[t] \in {"write", "import", "append", "create", "read"}
    BY <2>1, DbSessionAssumption DEF DbInv, DbTypeOK, AnswerIsOutcome
  <2>3. /\ kind[t] = "write" => OnDisk(t, "own") = {1}
        /\ kind[t] \in {"import", "append"} => OnDisk(t, "own") = 1..Batches
        /\ kind[t] \in {"create", "read"} => OnDisk(t, "own") = {}
    BY <2>2 DEF Progress, Stage, Fresh, Writing, Filling, Looking, Over, Failing
  <2>4. OnDisk(t, "own") = Statements(t)
    BY <2>2, <2>3 DEF Statements
  <2>5. OnDisk(t, "own") \subseteq 1..(MaxRows + Batches)
    BY <2>2, <2>3
  <2>6. Kept(t, "own") = OnDisk(t, "own")
    BY <2>2, <2>5, KeptIsOnDisk DEF Sessions
  <2> QED  BY <2>4, <2>6
<1> QED  BY <1>1, DbInvariant, PTL

\* A tool that fails leaves none of its rows, and one under way has written all
\* of them or none; on SQLite this is not so for a write.
THEOREM ChangesAreAllOrNothing == DbSpec => []AllOrNothing
<1>1. DbInv => AllOrNothing
  <2>1. SUFFICES ASSUME DbInv, NEW t \in Tasks, Separate, dialect = "sqlite" => kind[t] # "write"
                 PROVE  /\ Kept(t, "own") \in {{}, Statements(t)}
                        /\ outcome[t] = "failed" => Kept(t, "own") = {}
    BY DEF AllOrNothing
  <2>2. /\ Progress(t) /\ dialect \in {"sqlite", "mysql"}
        /\ rows[t] \in 1..MaxRows /\ MaxRows \in Nat /\ Batches \in Nat
        /\ kind[t] \in {"write", "import", "append", "create", "read"}
    BY <2>1, DbSessionAssumption DEF DbInv, DbTypeOK
  <2>3. /\ \/ OnDisk(t, "own") = {}
           \/ kind[t] = "write" /\ OnDisk(t, "own") = {1}
           \/ kind[t] \in {"import", "append"} /\ OnDisk(t, "own") = 1..Batches
        /\ outcome[t] = "failed" => OnDisk(t, "own") = {}
    BY <2>1, <2>2 DEF Progress, Stage, Fresh, Writing, Recorded, Filling, Looking, Over, Failing
  <2>4. OnDisk(t, "own") \in {{}, Statements(t)}
    BY <2>2, <2>3 DEF Statements
  <2>5. OnDisk(t, "own") \subseteq 1..(MaxRows + Batches)
    BY <2>2, <2>3
  <2>6. Kept(t, "own") = OnDisk(t, "own")
    BY <2>2, <2>5, KeptIsOnDisk DEF Sessions
  <2> QED  BY <2>3, <2>4, <2>6
<1> QED  BY <1>1, DbInvariant, PTL

\* Whenever a write is committed, the entries that undo it are; on SQLite this
\* is so for a write of one row.
THEOREM CommittedWritesAreUndoable == DbSpec => []CommittedIsUndoable
<1>1. DbInv => CommittedIsUndoable
  <2>1. SUFFICES ASSUME DbInv, NEW t \in Tasks, Separate, dialect = "sqlite" => rows[t] = 1,
                        kind[t] = "write", <<t, "own", 1>> \in disk
                 PROVE  Kept(t, "log") = 1..rows[t]
    BY DEF CommittedIsUndoable
  <2>2. /\ Progress(t) /\ dialect \in {"sqlite", "mysql"} /\ 1 \in OnDisk(t, "own")
        /\ rows[t] \in 1..MaxRows /\ MaxRows \in Nat /\ Batches \in Nat
    BY <2>1, DbSessionAssumption DEF DbInv, DbTypeOK, OnDisk
  <2>3. ASSUME Writing(dialect, at[t], outcome[t], rows[t], OnDisk(t, "own"), OnDisk(t, "log"),
                       InOpen(t, "own"), InOpen(t, "log"))
        PROVE  OnDisk(t, "log") = 1..rows[t]
    <3>1. \/ OnDisk(t, "own") = {}
          \/ /\ OnDisk(t, "own") = {1}
             /\ OnDisk(t, "log") = 1..rows[t]
          \/ \E i \in 1..rows[t] : \E j \in {i - 1, i} :
               Recorded(dialect, j, OnDisk(t, "own"), OnDisk(t, "log"), InOpen(t, "own"))
      BY <2>3 DEF Writing, Recorded
    <3>2. ASSUME NEW i \in 1..rows[t], NEW j \in {i - 1, i},
                 Recorded(dialect, j, OnDisk(t, "own"), OnDisk(t, "log"), InOpen(t, "own"))
          PROVE  OnDisk(t, "log") = 1..rows[t]
      <4>1. dialect = "sqlite" /\ j > 0 /\ OnDisk(t, "log") = 1..j
        BY <2>2, <3>2 DEF Recorded
      <4>2. rows[t] = 1 /\ j = 1
        BY <2>1, <4>1
      <4> QED  BY <4>1, <4>2
    <3> QED  BY <2>2, <3>1, <3>2
  <2>4. ASSUME Failing(dialect, at[t], outcome[t], kind[t], rows[t], OnDisk(t, "own"),
                       OnDisk(t, "log"), InOpen(t, "own"), InOpen(t, "log"))
        PROVE  OnDisk(t, "log") = 1..rows[t]
    <3>1. dialect = "sqlite" /\ OnDisk(t, "log") = {1}
      BY <2>1, <2>2, <2>4 DEF Failing
    <3>2. rows[t] = 1
      BY <2>1, <3>1
    <3>3. 1..1 = {1}
      OBVIOUS
    <3> QED  BY <3>1, <3>2, <3>3
  <2>5. OnDisk(t, "log") = 1..rows[t]
    BY <2>1, <2>2, <2>3, <2>4 DEF Progress, Stage, Fresh, Over
  <2>6. rows[t] \in Nat /\ rows[t] <= MaxRows + Batches
    BY <2>2
  <2> QED  BY <2>5, <2>6, KeptIsOnDisk DEF Sessions
<1> QED  BY <1>1, DbInvariant, PTL

-----------------------------------------------------------------------------
(* The trace of a run                                                      *)

Decided == granted \cup denied

\* What the agent is at says which calls are open, deferred and decided on, and
\* which messages have them.
AgentOK ==
  /\ issued \subseteq Calls
  /\ open \subseteq issued /\ asked \subseteq issued /\ human \subseteq asked
  /\ Decided \subseteq collected.calls /\ Decided \subseteq issued
  /\ agent \in {"model", "deferring", "deferred", "waiting", "done", "error"} => open = {}
  /\ agent \notin {"deferring", "deferred", "waiting"} => asked = {}
  /\ agent \in {"calling", "site"} => open \cap Decided = {}
  /\ agent = "resuming" => open \subseteq Decided
  /\ open \subseteq Decided \/ open \cap Decided = {}
  /\ agent = "waiting" => asked \subseteq collected.calls

MessagesOK ==
  /\ turn \in [calls : SUBSET Calls, returns : SUBSET Calls]
  /\ collected \in [calls : SUBSET Calls, returns : SUBSET Calls]
  /\ collected.returns \subseteq collected.calls
  /\ turn.returns \cup open \cup asked \subseteq turn.calls \cup collected.calls
  /\ history.calls = history.returns

\* All that is sent to the client, in order: published, or about to be.
Sent == bus \o queue

SentEvents ==
  [type : {"text_delta"}, text : Nat] \cup [type : {"tool_call"}, call : Calls]
    \cup [type : {"tool_result"}, call : Calls, ok : BOOLEAN]
    \cup [type : {"metadata"}, output : Seq(Nat)]
    \cup [type : {"run_start", "approval_request", "error", "run_end", "takeover_cancelled"}]

\* What the first n of the events E say of a call: that it was made, that it
\* has no result, or that its last event is the result ok.
Has(E, n, type) == \E j \in 1..n : E[j].type = type
IsCall(e, c) == e.type = "tool_call" /\ e.call = c
IsResult(e, c) == e.type = "tool_result" /\ e.call = c
Announced(E, n, c) == \E j \in 1..n : IsCall(E[j], c)
NoResult(E, n, c) == \A j \in 1..n : ~IsResult(E[j], c)
SettledBy(E, n, c, ok) ==
  \E j \in 1..n : /\ IsResult(E[j], c) /\ E[j].ok = ok
                  /\ \A k \in j + 1..n : ~IsCall(E[k], c) /\ ~IsResult(E[k], c)

\* A view's entries, the tracker's or the client's, say the same.
CallsShown(calls, E, n) ==
  /\ calls \in Seq(CallEntries)
  /\ \A c \in Calls : Announced(E, n, c) <=> \E i \in DOMAIN calls : calls[i].id = c
  /\ \A i \in DOMAIN calls :
       /\ NoResult(E, n, calls[i].id) => calls[i].status = "running"
       /\ \A ok \in BOOLEAN :
            SettledBy(E, n, calls[i].id, ok) => calls[i].status = Outcome(ok)

\* Of the calls made, the loose ones apart, the last event is a result; those
\* not made, or held, have none.
CallsFit(E, n, made, loose, held) ==
  /\ \A c \in Calls : c \in made <=> Announced(E, n, c)
  /\ \A c \in made \ loose : \E ok \in BOOLEAN : SettledBy(E, n, c, ok)
  /\ \A c \in Calls : c \notin made \/ c \in held => NoResult(E, n, c)

\* Only calls with a decision are announced after they had a result.
Loose == open \cup asked \cup (IF agent = "resuming" THEN Decided ELSE {})
Held == (open \cup asked) \ Decided

\* The pieces of text are numbered without a gap: m is the last of the first n
\* events.
Upto(m) == [i \in 1..m |-> i]
LastText(E, n, m) ==
  /\ \A j \in 1..n : E[j].type = "text_delta" => E[j].text <= m
  /\ m > 0 => \E j \in 1..n : E[j].type = "text_delta" /\ E[j].text = m
TextsInOrder(E) ==
  \A j \in DOMAIN E : E[j].type = "text_delta" =>
    E[j].text > 0 /\ LastText(E, j - 1, E[j].text - 1)

TextShown(output, E, n) ==
  /\ ~Has(E, n, "metadata") => \E m \in Nat : output = Upto(m) /\ LastText(E, n, m)
  /\ \A j \in 1..n : /\ E[j].type = "metadata"
                     /\ \A k \in j + 1..n : E[k].type \notin {"text_delta", "metadata"}
                     => output = E[j].output

StatusShown(status, E, n) ==
  /\ Has(E, n, "error") /\ ~Has(E, n, "metadata") => status = "error"
  /\ ~Has(E, n, "error") /\ (Has(E, n, "metadata") \/ Has(E, n, "run_end")) => status = "completed"
  /\ ~Has(E, n, "error") /\ ~Has(E, n, "metadata") /\ ~Has(E, n, "run_end") => status = "running"
  /\ status # "none"

Shown(run, E, n) ==
  /\ run \in [calls : Seq(CallEntries), output : Seq(Nat), status : Statuses \cup {"none"},
              site : BOOLEAN]
  /\ CallsShown(run.calls, E, n) /\ TextShown(run.output, E, n) /\ StatusShown(run.status, E, n)

\* The events of a run's end, and what the tracker says then.
Unended(E, n) == \A type \in {"metadata", "error", "run_end"} : ~Has(E, n, type)
EndedWell(E, n, output) ==
  /\ n > 1 /\ ~Has(E, n, "error")
  /\ E[n - 1].type = "metadata" /\ E[n - 1].output = output
  /\ E[n].type = "run_end"
EndedBadly(E, n) == Has(E, n, "error") /\ ~Has(E, n, "metadata")

EndOK ==
  /\ agent \in {"waiting", "over", "stored"} => queue = <<>>
  /\ agent \notin {"over", "stored"} =>
       tracker.status = "running" /\ tracker.site = FALSE /\ Unended(Sent, Len(Sent))
  /\ tracker.status # "completed" => tracker.output = Upto(texts)
  /\ tracker.status = "completed" => open = {} /\ EndedWell(Sent, Len(Sent), tracker.output)
  /\ tracker.site => /\ open \cap Decided = {} /\ tracker.status = "error"
                     /\ EndedBadly(Sent, Len(Sent))

TrackerOK ==
  tracker \in [calls : Seq(CallEntries), output : Seq(Nat), status : Statuses, site : BOOLEAN]

\* The client's view is of the events that it has read.
ClientOK ==
  /\ seen \in 0..Len(bus)
  /\ seen = 0 => shown = NoRun
  /\ seen > 0 => Shown(shown, Sent, seen)

StoredOK ==
  stored # NoRun => /\ agent = "stored" /\ stored = tracker
                    /\ tracker.status = "completed" \/ tracker.site

\* All the events fit the entries, the number of texts and the agent's calls.
Faithful(E, calls, m, made, loose, held) ==
  /\ E \in Seq(SentEvents) /\ m \in Nat
  /\ TextsInOrder(E) /\ LastText(E, Len(E), m)
  /\ CallsShown(calls, E, Len(E))
  /\ CallsFit(E, Len(E), made, loose, held)

SentOK ==
  /\ bus \in Seq(SentEvents) /\ queue \in Seq(SentEvents)
  /\ Faithful(Sent, tracker.calls, texts, issued, Loose, Held)

TraceInv ==
  /\ AgentOK /\ MessagesOK /\ TrackerOK /\ StoredOK
  /\ SentOK /\ EndOK /\ ClientOK

\* What the first n events say does not depend on those after them.
LEMMA SameEvents ==
  ASSUME NEW E, NEW F, NEW n \in Nat, \A j \in 1..n : F[j] = E[j]
  PROVE  /\ \A type : Has(F, n, type) <=> Has(E, n, type)
         /\ \A c : Announced(F, n, c) <=> Announced(E, n, c)
         /\ \A c : NoResult(F, n, c) <=> NoResult(E, n, c)
         /\ \A c, ok : SettledBy(F, n, c, ok) <=> SettledBy(E, n, c, ok)
         /\ \A m : LastText(F, n, m) <=> LastText(E, n, m)
         /\ \A calls : CallsShown(calls, F, n) <=> CallsShown(calls, E, n)
         /\ \A run : Shown(run, F, n) <=> Shown(run, E, n)
<1>1. /\ \A type : Has(F, n, type) <=> Has(E, n, type)
      /\ \A c : Announced(F, n, c) <=> Announced(E, n, c)
      /\ \A c : NoResult(F, n, c) <=> NoResult(E, n, c)
      /\ \A m : LastText(F, n, m) <=> LastText(E, n, m)
  BY DEF Has, Announced, NoResult, LastText
<1>2. \A j \in 1..n : \A k \in j + 1..n : k \in 1..n
  OBVIOUS
<1>3. \A c, ok : SettledBy(F, n, c, ok) <=> SettledBy(E, n, c, ok)
  BY <1>2 DEF SettledBy
<1>4. \A calls : CallsShown(calls, F, n) <=> CallsShown(calls, E, n)
  BY <1>1, <1>3 DEF CallsShown
<1>5. \A output : TextShown(output, F, n) <=> TextShown(output, E, n)
  BY <1>1, <1>2 DEF TextShown
<1>6. \A status : StatusShown(status, F, n) <=> StatusShown(status, E, n)
  BY <1>1 DEF StatusShown
<1> QED  BY <1>1, <1>3, <1>4, <1>5, <1>6 DEF Shown

\* What one more event adds.
LEMMA OneMoreEvent ==
  ASSUME NEW E, NEW n \in Nat
  PROVE  /\ \A type : Has(E, n + 1, type) <=> Has(E, n, type) \/ E[n + 1].type = type
         /\ \A c : Announced(E, n + 1, c) <=> Announced(E, n, c) \/ IsCall(E[n + 1], c)
         /\ \A c : NoResult(E, n + 1, c) <=> NoResult(E, n, c) /\ ~IsResult(E[n + 1], c)
         /\ \A c, ok : SettledBy(E, n + 1, c, ok) <=>
              \/ IsResult(E[n + 1], c) /\ E[n + 1].ok = ok
              \/ SettledBy(E, n, c, ok) /\ ~IsCall(E[n + 1], c) /\ ~IsResult(E[n + 1], c)
<1>1. \A j : j \in 1..n + 1 <=> j \in 1..n \/ j = n + 1
  OBVIOUS
<1>2. /\ \A type : Has(E, n + 1, type) <=> Has(E, n, type) \/ E[n + 1].type = type
      /\ \A c : Announced(E, n + 1, c) <=> Announced(E, n, c) \/ IsCall(E[n + 1], c)
      /\ \A c : NoResult(E, n + 1, c) <=> NoResult(E, n, c) /\ ~IsResult(E[n + 1], c)
  BY <1>1 DEF Has, Announced, NoResult
<1>3. ASSUME NEW c, NEW ok
      PROVE  SettledBy(E, n + 1, c, ok) <=>
               \/ IsResult(E[n + 1], c) /\ E[n + 1].ok = ok
               \/ SettledBy(E, n, c, ok) /\ ~IsCall(E[n + 1], c) /\ ~IsResult(E[n + 1], c)
  <2> DEFINE Quiet(j, m) == \A k \in j + 1..m : ~IsCall(E[k], c) /\ ~IsResult(E[k], c)
             Good(j) == IsResult(E[j], c) /\ E[j].ok = ok
  <2>1. SettledBy(E, n + 1, c, ok) <=> \E j \in 1..n + 1 : Good(j) /\ Quiet(j, n + 1)
    BY DEF SettledBy
  <2>2. SettledBy(E, n, c, ok) <=> \E j \in 1..n : Good(j) /\ Quiet(j, n)
    BY DEF SettledBy
  <2>3. Quiet(n + 1, n + 1)
    OBVIOUS
  <2>4. \A j \in 1..n : Quiet(j, n + 1) <=> Quiet(j, n) /\ ~IsCall(E[n + 1], c)
                                             /\ ~IsResult(E[n + 1], c)
    <3>1. \A j \in 1..n : \A k : k \in j + 1..n + 1 <=> k \in j + 1..n \/ k = n + 1
      OBVIOUS
    <3> QED  BY <3>1
  <2> HIDE DEF Quiet, Good
  <2>5. (\E j \in 1..n + 1 : Good(j) /\ Quiet(j, n + 1)) <=>
          Good(n + 1) \/ \E j \in 1..n : Good(j) /\ Quiet(j, n + 1)
    BY <1>1, <2>3
  <2>6. (\E j \in 1..n : Good(j) /\ Quiet(j, n + 1)) <=>
          SettledBy(E, n, c, ok) /\ ~IsCall(E[n + 1], c) /\ ~IsResult(E[n + 1], c)
    BY <2>2, <2>4, Zenon
  <2> QED  BY <2>1, <2>5, <2>6 DEF Good
<1> QED  BY <1>2, <1>3

\* The fields of the events.
LEMMA EventFields ==
  ASSUME NEW e \in SentEvents
  PROVE  /\ e.type \in {"text_delta", "tool_call", "tool_result", "metadata", "run_start",
                        "approval_request", "error", "run_end", "takeover_cancelled"}
         /\ e.type = "text_delta" => e.text \in Nat
         /\ e.type = "tool_call" => e.call \in Calls
         /\ e.type = "tool_result" => e.call \in Calls /\ e.ok \in BOOLEAN
         /\ e.type = "metadata" => e.output \in Seq(Nat)
BY Zenon DEF SentEvents

LEMMA EntryFields ==
  /\ \A x \in CallEntries : x.id \in Calls /\ x.status \in {"running", "success", "error"}
  /\ \A c \in Calls : Started(c) \in CallEntries /\ Started(c).id = c
                      /\ Started(c).status = "running"
  /\ \A x \in CallEntries, ok \in BOOLEAN :
       LET y == [x EXCEPT !.status = Outcome(ok)]
       IN  y \in CallEntries /\ y.id = x.id /\ y.status = Outcome(ok)
  /\ \A ok \in BOOLEAN : Outcome(ok) \in {"success", "error"}
BY DEF CallEntries, Started, Outcome

\* A call's result is put into each of its entries, and into nothing else.
LEMMA SettledEntries ==
  ASSUME NEW calls \in Seq(CallEntries), NEW c \in Calls, NEW ok \in BOOLEAN
  PROVE  /\ Settled(calls, c, ok) \in Seq(CallEntries)
         /\ DOMAIN Settled(calls, c, ok) = DOMAIN calls
         /\ \A i \in DOMAIN calls :
              /\ Settled(calls, c, ok)[i].id = calls[i].id
              /\ calls[i].id = c => Settled(calls, c, ok)[i].status = Outcome(ok)
              /\ calls[i].id # c => Settled(calls, c, ok)[i].status = calls[i].status
<1> DEFINE f == [i \in DOMAIN calls |->
                   IF calls[i].id = c THEN [calls[i] EXCEPT !.status = Outcome(ok)] ELSE calls[i]]
<1>1. Len(calls) \in Nat /\ DOMAIN calls = 1..Len(calls)
      /\ \A i \in DOMAIN calls : calls[i] \in CallEntries
  OBVIOUS
<1>2. \A i \in DOMAIN calls : f[i] \in CallEntries
  BY <1>1, EntryFields
<1>3. f \in [1..Len(calls) -> CallEntries]
  BY <1>1, <1>2
<1>4. f \in Seq(CallEntries)
  BY <1>1, <1>3, IsASeq
<1>5. \A i \in DOMAIN calls : /\ f[i].id = calls[i].id
                              /\ calls[i].id = c => f[i].status = Outcome(ok)
                              /\ calls[i].id # c => f[i].status = calls[i].status
  BY <1>1, EntryFields
<1> QED  BY <1>4, <1>5 DEF Settled

LEMMA CallsShownQuiet ==
  ASSUME NEW E, NEW n \in Nat, NEW calls, CallsShown(calls, E, n),
         E[n + 1].type \notin {"tool_call", "tool_result"}
  PROVE  CallsShown(calls, E, n + 1)
BY OneMoreEvent DEF CallsShown, IsCall, IsResult

\* A call that is announced gets an entry, unless it has one and that will do.
LEMMA CallsShownAnnounced ==
  ASSUME NEW E, NEW n \in Nat, NEW calls, CallsShown(calls, E, n), NEW c \in Calls,
         E[n + 1].type = "tool_call", E[n + 1].call = c
  PROVE  /\ CallsShown(Append(calls, Started(c)), E, n + 1)
         /\ (\E i \in DOMAIN calls : calls[i].id = c) => CallsShown(calls, E, n + 1)
<1>1. /\ \A x : Announced(E, n + 1, x) <=> Announced(E, n, x) \/ x = c
      /\ \A x : NoResult(E, n + 1, x) <=> NoResult(E, n, x)
      /\ \A x, ok : SettledBy(E, n + 1, x, ok) <=> SettledBy(E, n, x, ok) /\ x # c
  BY OneMoreEvent DEF IsCall, IsResult
<1>2. ASSUME \E i \in DOMAIN calls : calls[i].id = c
      PROVE  CallsShown(calls, E, n + 1)
  BY <1>1, <1>2 DEF CallsShown
<1> DEFINE s == Append(calls, Started(c))
<1>3. /\ s \in Seq(CallEntries) /\ DOMAIN s = DOMAIN calls \cup {Len(calls) + 1}
      /\ \A i \in DOMAIN calls : s[i] = calls[i]
      /\ s[Len(calls) + 1] = Started(c)
  BY EntryFields DEF CallsShown
<1> HIDE DEF s
<1>4. \A x \in Calls : Announced(E, n + 1, x) <=> \E i \in DOMAIN s : s[i].id = x
  BY <1>1, <1>3, EntryFields DEF CallsShown
<1>5. ASSUME NEW i \in DOMAIN s
      PROVE  /\ NoResult(E, n + 1, s[i].id) => s[i].status = "running"
             /\ \A ok \in BOOLEAN :
                  SettledBy(E, n + 1, s[i].id, ok) => s[i].status = Outcome(ok)
  <2>1. CASE i \in DOMAIN calls
    BY <1>1, <1>3, <2>1 DEF CallsShown
  <2>2. CASE i = Len(calls) + 1
    BY <1>1, <1>3, <2>2, EntryFields
  <2> QED  BY <1>3, <2>1, <2>2
<1>6. CallsShown(s, E, n + 1)
  BY <1>3, <1>4, <1>5 DEF CallsShown
<1> QED  BY <1>2, <1>6 DEF s

LEMMA CallsShownSettled ==
  ASSUME NEW E, NEW n \in Nat, NEW calls, CallsShown(calls, E, n), NEW c \in Calls,
         NEW ok \in BOOLEAN, E[n + 1].type = "tool_result", E[n + 1].call = c, E[n + 1].ok = ok
  PROVE  CallsShown(Settled(calls, c, ok), E, n + 1)
<1>1. /\ \A x : Announced(E, n + 1, x) <=> Announced(E, n, x)
      /\ \A x : NoResult(E, n + 1, x) <=> NoResult(E, n, x) /\ x # c
      /\ \A x, y : SettledBy(E, n + 1, x, y) <=> (x = c /\ y = ok) \/ (SettledBy(E, n, x, y) /\ x # c)
  BY OneMoreEvent DEF IsCall, IsResult
<1> DEFINE s == Settled(calls, c, ok)
<1>2. /\ s \in Seq(CallEntries) /\ DOMAIN s = DOMAIN calls
      /\ \A i \in DOMAIN calls :
           /\ s[i].id = calls[i].id
           /\ calls[i].id = c => s[i].status = Outcome(ok)
           /\ calls[i].id # c => s[i].status = calls[i].status
  BY SettledEntries DEF CallsShown
<1> HIDE DEF s
<1>3. \A x \in Calls : Announced(E, n + 1, x) <=> \E i \in DOMAIN s : s[i].id = x
  BY <1>1, <1>2 DEF CallsShown
<1>4. ASSUME NEW i \in DOMAIN s
      PROVE  /\ NoResult(E, n + 1, s[i].id) => s[i].status = "running"
             /\ \A y \in BOOLEAN :
                  SettledBy(E, n + 1, s[i].id, y) => s[i].status = Outcome(y)
  <2>1. CASE calls[i].id = c
    BY <1>1, <1>2, <2>1
  <2>2. CASE calls[i].id # c
    BY <1>1, <1>2, <2>2 DEF CallsShown
  <2> QED  BY <2>1, <2>2
<1> QED  BY <1>2, <1>3, <1>4 DEF CallsShown, s

\* A piece of text that comes next is the next one.
LEMMA NextText ==
  ASSUME NEW E, NEW n \in Nat, NEW m \in Nat, LastText(E, n, m)
  PROVE  /\ E[n + 1].type # "text_delta" => LastText(E, n + 1, m)
         /\ E[n + 1].type = "text_delta" /\ E[n + 1].text = m + 1
            /\ (\A j \in 1..n : E[j].type = "text_delta" => E[j].text \in Nat)
            => LastText(E, n + 1, m + 1)
<1>1. \A j : j \in 1..n + 1 <=> j \in 1..n \/ j = n + 1
  OBVIOUS
<1> QED  BY <1>1 DEF LastText

\* There is one last piece of text.
LEMMA OneLastText ==
  ASSUME NEW E, NEW n \in Nat, NEW m \in Nat, NEW k \in Nat, LastText(E, n, m), LastText(E, n, k)
  PROVE  m = k
<1>1. m > 0 => m <= k
  BY DEF LastText
<1>2. k > 0 => k <= m
  BY DEF LastText
<1> QED  BY <1>1, <1>2

LEMMA AppendUpto ==
  ASSUME NEW m \in Nat
  PROVE  Upto(m) \in Seq(Nat) /\ Append(Upto(m), m + 1) = Upto(m + 1)
<1>1. Upto(m) \in [1..m -> Nat] /\ Upto(m + 1) \in [1..m + 1 -> Nat]
  BY DEF Upto
<1>2. Upto(m) \in Seq(Nat) /\ Upto(m + 1) \in Seq(Nat)
  BY <1>1, IsASeq
<1>3. Len(Upto(m)) = m /\ Len(Upto(m + 1)) = m + 1
  BY <1>1, <1>2, LenProperties
<1>4. \A i \in 1..m + 1 : Append(Upto(m), m + 1)[i] = Upto(m + 1)[i]
  BY <1>2, <1>3 DEF Upto
<1> QED  BY <1>2, <1>3, <1>4, SeqEqual

\* The client, having read n events, reads one more.
LEMMA TextShownNext ==
  ASSUME NEW E \in Seq(SentEvents), NEW n \in Nat, n + 1 \in DOMAIN E, TextsInOrder(E),
         NEW output \in Seq(Nat), TextShown(output, E, n),
         NEW next, next = CASE E[n + 1].type = "text_delta" -> Append(output, E[n + 1].text)
                            [] E[n + 1].type = "metadata" -> E[n + 1].output
                            [] OTHER -> output
  PROVE  next \in Seq(Nat) /\ TextShown(next, E, n + 1)
<1> DEFINE e == E[n + 1]
<1>1. e \in SentEvents /\ \A j \in 1..n : E[j] \in SentEvents
  OBVIOUS
<1>2. \A j : j \in 1..n + 1 <=> j \in 1..n \/ j = n + 1
  OBVIOUS
<1>3. Has(E, n + 1, "metadata") <=> Has(E, n, "metadata") \/ e.type = "metadata"
  BY OneMoreEvent
<1>4. \A j \in 1..n : \A k : k \in j + 1..n + 1 <=> k \in j + 1..n \/ k = n + 1
  OBVIOUS
<1>5. CASE e.type = "text_delta"
  <2>1. next = Append(output, e.text) /\ e.text \in Nat
    BY <1>1, <1>5, EventFields
  <2>2. e.text > 0 /\ LastText(E, n, e.text - 1)
    <3>1. E[n + 1].text > 0 /\ LastText(E, (n + 1) - 1, E[n + 1].text - 1)
      BY <1>5 DEF TextsInOrder
    <3>2. (n + 1) - 1 = n
      OBVIOUS
    <3> QED  BY <3>1, <3>2
  <2>3. ASSUME ~Has(E, n + 1, "metadata")
        PROVE  \E m \in Nat : next = Upto(m) /\ LastText(E, n + 1, m)
    <3>1. PICK m \in Nat : output = Upto(m) /\ LastText(E, n, m)
      BY <1>3, <2>3 DEF TextShown
    <3>2. e.text - 1 \in Nat
      BY <2>1, <2>2
    <3>3. m = e.text - 1
      BY <2>2, <3>1, <3>2, OneLastText
    <3>4. e.text = m + 1 /\ next = Upto(m + 1)
      <4>1. e.text = m + 1
        BY <2>1, <3>3
      <4> QED  BY <2>1, <3>1, <4>1, AppendUpto
    <3>5. \A j \in 1..n : E[j].type = "text_delta" => E[j].text \in Nat
      BY <1>1, EventFields
    <3>6. LastText(E, n + 1, m + 1)
      BY <1>5, <2>1, <3>1, <3>4, <3>5, NextText
    <3> QED  BY <3>4, <3>6, m + 1 \in Nat
  <2>4. ASSUME NEW j \in 1..n + 1, E[j].type = "metadata",
               \A k \in j + 1..n + 1 : E[k].type \notin {"text_delta", "metadata"}
        PROVE  FALSE
    <3>1. j # n + 1
      BY <1>5, <2>4
    <3>2. n + 1 \in j + 1..n + 1
      BY <3>1
    <3> QED  BY <1>5, <2>4, <3>2
  <2>5. next \in Seq(Nat)
    <3>1. \A x \in Nat : Append(output, x) \in Seq(Nat)
      OBVIOUS
    <3> QED  BY <2>1, <3>1, Zenon
  <2> QED  BY <2>3, <2>4, <2>5 DEF TextShown
<1>6. CASE e.type = "metadata"
  <2>1. next = e.output /\ e.output \in Seq(Nat)
    BY <1>1, <1>6, EventFields
  <2>2. Has(E, n + 1, "metadata")
    BY <1>3, <1>6
  <2>3. ASSUME NEW j \in 1..n + 1, \A k \in j + 1..n + 1 : E[k].type \notin {"text_delta", "metadata"}
        PROVE  j = n + 1
    BY <1>2, <1>4, <1>6, <2>3
  <2> QED  BY <2>1, <2>2, <2>3 DEF TextShown
<1>7. CASE e.type \notin {"text_delta", "metadata"}
  <2>1. next = output
    BY <1>7
  <2>2. ASSUME ~Has(E, n + 1, "metadata")
        PROVE  \E m \in Nat : output = Upto(m) /\ LastText(E, n + 1, m)
    <3>1. PICK m \in Nat : output = Upto(m) /\ LastText(E, n, m)
      BY <1>3, <2>2 DEF TextShown
    <3>2. LastText(E, n + 1, m)
      BY <1>7, <3>1, NextText
    <3> QED  BY <3>1, <3>2
  <2>3. ASSUME NEW j \in 1..n + 1, E[j].type = "metadata",
               \A k \in j + 1..n + 1 : E[k].type \notin {"text_delta", "metadata"}
        PROVE  output = E[j].output
    <3>1. j \in 1..n
      BY <1>2, <1>7, <2>3
    <3>2. \A k \in j + 1..n : E[k].type \notin {"text_delta", "metadata"}
      BY <1>4, <2>3, <3>1
    <3> QED  BY <2>3, <3>1, <3>2 DEF TextShown
  <2> QED  BY <2>1, <2>2, <2>3 DEF TextShown
<1> QED  BY <1>5, <1>6, <1>7

LEMMA ShownNext ==
  ASSUME NEW E \in Seq(SentEvents), NEW n \in Nat, n + 1 \in DOMAIN E, TextsInOrder(E),
         NEW run, Shown(run, E, n)
  PROVE  Shown(Applied(run, E[n + 1]), E, n + 1)
<1> DEFINE e == E[n + 1]
           Runs0 == [calls : Seq(CallEntries), output : Seq(Nat),
                     status : Statuses \cup {"none"}, site : BOOLEAN]
           a == Applied(run, e)
           text == CASE e.type = "text_delta" -> Append(run.output, e.text)
                     [] e.type = "metadata" -> e.output
                     [] OTHER -> run.output
           status == IF e.type = "error" THEN "error"
                     ELSE IF e.type = "metadata"
                             \/ (e.type = "run_end" /\ run.status \notin {"error", "cancelled"})
                     THEN "completed" ELSE run.status
           calls == IF e.type = "tool_call" THEN Append(run.calls, Started(e.call))
                    ELSE IF e.type = "tool_result" THEN Settled(run.calls, e.call, e.ok)
                    ELSE run.calls
<1>1. run \in Runs0 /\ e \in SentEvents
  BY DEF Shown
<1>2. /\ e.type \in {"text_delta", "tool_call", "tool_result", "metadata", "run_start",
                     "approval_request", "error", "run_end", "takeover_cancelled"}
      /\ e.type = "tool_call" => e.call \in Calls
      /\ e.type = "tool_result" => e.call \in Calls /\ e.ok \in BOOLEAN
  BY <1>1, EventFields
<1>3. a = [calls |-> calls, output |-> text, status |-> status, site |-> run.site]
  BY <1>1, <1>2 DEF Applied, ResultShown
<1>4. text \in Seq(Nat) /\ TextShown(text, E, n + 1)
  BY <1>1, TextShownNext DEF Shown
<1>5. CallsShown(calls, E, n + 1)
  <2>1. CallsShown(run.calls, E, n)
    BY DEF Shown
  <2> QED  BY <1>2, <2>1, CallsShownQuiet, CallsShownAnnounced, CallsShownSettled
<1>6. status \in Statuses /\ StatusShown(status, E, n + 1)
  BY <1>1, <1>2, OneMoreEvent DEF Shown, StatusShown, Statuses
<1>7. a.calls = calls /\ a.output = text /\ a.status = status /\ a.site = run.site
  BY <1>3
<1>8. a \in Runs0
  BY <1>1, <1>3, <1>4, <1>5, <1>6 DEF CallsShown
<1> HIDE DEF a, text, status, calls
<1> QED  BY <1>4, <1>5, <1>6, <1>7, <1>8 DEF Shown, a

-----------------------------------------------------------------------------
\* The agent's calls and messages, one action after the other.
LEMMA AgentStep ==
  ASSUME AgentOK, MessagesOK, [TraceNext]_traceVars
  PROVE  AgentOK' /\ MessagesOK'
<1> USE DEF AgentOK, MessagesOK, Decided
<1>1. CASE UNCHANGED traceVars
  BY <1>1 DEF traceVars, streamVars, clientVars, storeVars
<1>2. CASE Writes
  BY <1>2 DEF Writes, clientVars, storeVars
<1>3. CASE ConnectionLost
  BY <1>3 DEF ConnectionLost, clientVars, storeVars, NoMessages
<1>4. CASE AgentReturns
  BY <1>4 DEF AgentReturns, streamVars, clientVars, storeVars
<1>5. ASSUME NEW c \in Calls, CallTool(c)
      PROVE  AgentOK' /\ MessagesOK'
  BY <1>5 DEF CallTool, clientVars, storeVars
<1>6. ASSUME NEW c \in Calls, DeferCall(c)
      PROVE  AgentOK' /\ MessagesOK'
  BY <1>6 DEF DeferCall, clientVars, storeVars
<1>7. ASSUME NEW c \in Calls, ResumeCall(c)
      PROVE  AgentOK' /\ MessagesOK'
  BY <1>7 DEF ResumeCall, clientVars, storeVars
<1>8. ASSUME NEW c \in Calls, NEW ok \in BOOLEAN, ToolEnds(c, ok)
      PROVE  AgentOK' /\ MessagesOK'
  BY <1>8 DEF ToolEnds, MayReportSite, clientVars, storeVars
<1>9. CASE Forward \/ Read \/ ReloadPage
  BY <1>9 DEF Forward, Read, ReloadPage, streamVars, clientVars, storeVars
<1>10. ASSUME NEW held \in SUBSET asked, EndDeferred(held)
       PROVE  AgentOK' /\ MessagesOK'
  BY <1>10 DEF EndDeferred, Restart, CollectedDeferred, Both, NoMessages, clientVars, storeVars
<1>11. ASSUME NEW no \in SUBSET human, Decide(no)
       PROVE  AgentOK' /\ MessagesOK'
  BY <1>11 DEF Decide, Restart, NoMessages, clientVars, storeVars
<1>12. CASE EndCompleted
  BY <1>12 DEF EndCompleted, Both, streamVars, clientVars, storeVars
<1>13. CASE EndFailed \/ EndCancelled
  BY <1>13 DEF EndFailed, EndCancelled, Failed, streamVars, clientVars, storeVars
<1>14. CASE Persist
  <2>1. /\ UNCHANGED <<issued, open, asked, human, granted, denied, turn, collected>>
        /\ agent = "over" /\ agent' = "stored"
    BY <1>14 DEF Persist, streamVars
  <2>2. history' = history \/ history' = Repaired(collected)
    BY <1>14 DEF Persist, storeVars
  <2>3. Repaired(collected).calls = Repaired(collected).returns
    BY DEF Repaired
  <2> QED  BY <2>1, <2>2, <2>3
<1> QED
  BY <1>1, <1>2, <1>3, <1>4, <1>5, <1>6, <1>7, <1>8, <1>9, <1>10, <1>11, <1>12, <1>13, <1>14
  DEF TraceNext

\* The messages left to the session's next run pair every call with a result.
THEOREM HistoryPairsCalls == TraceSpec => []HistoryIsPaired
<1>1. TraceInit => AgentOK /\ MessagesOK
  BY DEF TraceInit, AgentOK, MessagesOK, Decided, NoMessages
<1>2. AgentOK /\ MessagesOK /\ [TraceNext]_traceVars => (AgentOK /\ MessagesOK)'
  BY AgentStep
<1>3. AgentOK /\ MessagesOK => HistoryIsPaired
  BY DEF MessagesOK, HistoryIsPaired
<1> QED  BY <1>1, <1>2, <1>3, PTL DEF TraceSpec

-----------------------------------------------------------------------------
\* What is sent, when an event is queued, forwarded or published.
LEMMA Queued ==
  ASSUME bus \in Seq(SentEvents), queue \in Seq(SentEvents), NEW e \in SentEvents,
         bus' = bus, queue' = Append(queue, e)
  PROVE  /\ queue' \in Seq(SentEvents) /\ Sent' = Append(Sent, e)
         /\ Sent \in Seq(SentEvents) /\ Sent' \in Seq(SentEvents)
<1>1. Sent \in Seq(SentEvents) /\ Sent' \in Seq(SentEvents) /\ Append(Sent, e) \in Seq(SentEvents)
  BY DEF Sent
<1>2. Len(Sent') = Len(Append(Sent, e))
  BY <1>1 DEF Sent
<1>3. \A i \in 1..Len(Sent') : Sent'[i] = Append(Sent, e)[i]
  BY <1>1 DEF Sent
<1> QED  BY <1>1, <1>2, <1>3, SeqEqual

LEMMA Forwarded ==
  ASSUME bus \in Seq(SentEvents), queue \in Seq(SentEvents), queue # <<>>,
         bus' = Append(bus, Head(queue)), queue' = Tail(queue)
  PROVE  bus' \in Seq(SentEvents) /\ queue' \in Seq(SentEvents) /\ Sent' = Sent
<1>1. bus' \in Seq(SentEvents) /\ queue' \in Seq(SentEvents) /\ Head(queue) \in SentEvents
  BY HeadTailProperties
<1>2. Sent \in Seq(SentEvents) /\ Sent' \in Seq(SentEvents)
  BY <1>1 DEF Sent
<1>3. Len(Sent') = Len(Sent)
  BY <1>1, HeadTailProperties DEF Sent
<1>4. \A i \in 1..Len(Sent) : Sent'[i] = Sent[i]
  BY <1>1, <1>3, HeadTailProperties DEF Sent
<1> QED  BY <1>1, <1>2, <1>3, <1>4, SeqEqual

LEMMA NothingQueued ==
  ASSUME NEW E \in Seq(SentEvents)
  PROVE  /\ E \o <<>> = E
         /\ \A d, e \in SentEvents : E \o <<d, e>> = Append(Append(E, d), e)
<1>1. E \o <<>> = E
  <2>1. Len(E \o <<>>) = Len(E) /\ E \o <<>> \in Seq(SentEvents)
    OBVIOUS
  <2>2. \A i \in 1..Len(E) : (E \o <<>>)[i] = E[i]
    OBVIOUS
  <2> QED  BY <2>1, <2>2, SeqEqual
<1>2. ASSUME NEW d \in SentEvents, NEW e \in SentEvents
      PROVE  E \o <<d, e>> = Append(Append(E, d), e)
  <2>1. <<d, e>> \in Seq(SentEvents) /\ Append(E, d) \in Seq(SentEvents)
    OBVIOUS
  <2>2. E \o <<d, e>> \in Seq(SentEvents) /\ Append(Append(E, d), e) \in Seq(SentEvents)
    BY <2>1
  <2>3. Len(E \o <<d, e>>) = Len(E) + 2 /\ Len(Append(Append(E, d), e)) = Len(E) + 2
    BY <2>1, ConcatProperties
  <2>4. \A i \in 1..Len(E) + 2 : (E \o <<d, e>>)[i] = Append(Append(E, d), e)[i]
    BY <2>1, ConcatProperties
  <2> QED  BY <2>2, <2>3, <2>4, SeqEqual
<1> QED  BY <1>1, <1>2

\* An event more at the end.
LEMMA GrownEvents ==
  ASSUME NEW E \in Seq(SentEvents), NEW e \in SentEvents, NEW F, F = Append(E, e)
  PROVE  /\ F \in Seq(SentEvents) /\ Len(E) \in Nat /\ Len(F) = Len(E) + 1
         /\ DOMAIN F = DOMAIN E \cup {Len(E) + 1}
         /\ F[Len(E) + 1] = e /\ \A j \in 1..Len(E) : F[j] = E[j]
OBVIOUS

\* Texts that are in order stay so when another event follows, the next text
\* or none.
LEMMA TextsGrow ==
  ASSUME NEW E \in Seq(SentEvents), NEW e \in SentEvents, NEW F, F = Append(E, e),
         NEW m \in Nat, TextsInOrder(E), LastText(E, Len(E), m)
  PROVE  /\ e.type # "text_delta" => TextsInOrder(F) /\ LastText(F, Len(E) + 1, m)
         /\ e.type = "text_delta" /\ e.text = m + 1
              => TextsInOrder(F) /\ LastText(F, Len(E) + 1, m + 1)
<1> DEFINE n == Len(E)
<1>1. /\ F \in Seq(SentEvents) /\ n \in Nat /\ DOMAIN F = 1..n + 1
      /\ F[n + 1] = e /\ \A j \in 1..n : F[j] = E[j]
  BY GrownEvents
<1>2. LastText(F, n, m)
  BY <1>1, SameEvents
<1>3. \A j \in 1..n : F[j].type = "text_delta" => F[j].text \in Nat
  BY <1>1, EventFields
<1>4. /\ e.type # "text_delta" => LastText(F, n + 1, m)
      /\ e.type = "text_delta" /\ e.text = m + 1 => LastText(F, n + 1, m + 1)
  BY <1>1, <1>2, <1>3, NextText
<1>5. ASSUME NEW j \in 1..n, F[j].type = "text_delta"
      PROVE  F[j].text > 0 /\ LastText(F, j - 1, F[j].text - 1)
  <2>1. E[j].text > 0 /\ LastText(E, j - 1, E[j].text - 1) /\ F[j] = E[j]
    BY <1>1, <1>5 DEF TextsInOrder
  <2>2. j - 1 \in Nat /\ \A i \in 1..j - 1 : F[i] = E[i]
    BY <1>1
  <2>3. LastText(F, j - 1, E[j].text - 1)
    BY <2>1, <2>2, SameEvents
  <2> QED  BY <2>1, <2>3
<1>6. ASSUME e.type = "text_delta", e.text = m + 1
      PROVE  F[n + 1].text > 0 /\ LastText(F, (n + 1) - 1, F[n + 1].text - 1)
  <2>1. (n + 1) - 1 = n /\ (m + 1) - 1 = m /\ m + 1 > 0
    BY <1>1
  <2> QED  BY <1>1, <1>2, <1>6, <2>1
<1>7. e.type # "text_delta" \/ e.text = m + 1 => TextsInOrder(F)
  <2>1. \A j \in DOMAIN F : j \in 1..n \/ j = n + 1
    BY <1>1
  <2> QED  BY <1>1, <1>5, <1>6, <2>1 DEF TextsInOrder
<1> QED  BY <1>4, <1>7

LEMMA FaithfulQuiet ==
  ASSUME NEW E, NEW calls, NEW m, NEW made, NEW loose, NEW held,
         Faithful(E, calls, m, made, loose, held), NEW e \in SentEvents,
         e.type \notin {"text_delta", "tool_call", "tool_result"}
  PROVE  Faithful(Append(E, e), calls, m, made, loose, held)
<1> DEFINE n == Len(E)
<1>1. PICK F : F = Append(E, e)
  OBVIOUS
<1>2. /\ F \in Seq(SentEvents) /\ n \in Nat /\ Len(F) = n + 1
      /\ F[n + 1] = e /\ \A j \in 1..n : F[j] = E[j]
  BY <1>1, GrownEvents DEF Faithful
<1>3. TextsInOrder(F) /\ LastText(F, n + 1, m)
  BY <1>1, TextsGrow DEF Faithful
<1>4. CallsShown(calls, F, n + 1)
  <2>1. CallsShown(calls, F, n)
    BY <1>2, SameEvents DEF Faithful
  <2> QED  BY <1>2, <2>1, CallsShownQuiet
<1>5. /\ \A c : Announced(F, n + 1, c) <=> Announced(E, n, c)
      /\ \A c : NoResult(F, n + 1, c) <=> NoResult(E, n, c)
      /\ \A c, ok : SettledBy(F, n + 1, c, ok) <=> SettledBy(E, n, c, ok)
  <2>1. /\ \A c : Announced(F, n + 1, c) <=> Announced(F, n, c)
        /\ \A c : NoResult(F, n + 1, c) <=> NoResult(F, n, c)
        /\ \A c, ok : SettledBy(F, n + 1, c, ok) <=> SettledBy(F, n, c, ok)
    BY <1>2, OneMoreEvent DEF IsCall, IsResult
  <2> QED  BY <1>2, <2>1, SameEvents
<1>6. CallsFit(F, n + 1, made, loose, held)
  BY <1>5 DEF Faithful, CallsFit
<1> QED  BY <1>1, <1>2, <1>3, <1>4, <1>6 DEF Faithful

LEMMA FaithfulText ==
  ASSUME NEW E, NEW calls, NEW m, NEW made, NEW loose, NEW held,
         Faithful(E, calls, m, made, loose, held), NEW e \in SentEvents,
         e.type = "text_delta", e.text = m + 1
  PROVE  Faithful(Append(E, e), calls, m + 1, made, loose, held)
<1> DEFINE n == Len(E)
<1>1. PICK F : F = Append(E, e)
  OBVIOUS
<1>2. /\ F \in Seq(SentEvents) /\ n \in Nat /\ Len(F) = n + 1 /\ m + 1 \in Nat
      /\ F[n + 1] = e /\ \A j \in 1..n : F[j] = E[j]
  BY <1>1, GrownEvents DEF Faithful
<1>3. TextsInOrder(F) /\ LastText(F, n + 1, m + 1)
  BY <1>1, TextsGrow DEF Faithful
<1>4. CallsShown(calls, F, n + 1)
  <2>1. CallsShown(calls, F, n)
    BY <1>2, SameEvents DEF Faithful
  <2> QED  BY <1>2, <2>1, CallsShownQuiet
<1>5. /\ \A c : Announced(F, n + 1, c) <=> Announced(E, n, c)
      /\ \A c : NoResult(F, n + 1, c) <=> NoResult(E, n, c)
      /\ \A c, ok : SettledBy(F, n + 1, c, ok) <=> SettledBy(E, n, c, ok)
  <2>1. /\ \A c : Announced(F, n + 1, c) <=> Announced(F, n, c)
        /\ \A c : NoResult(F, n + 1, c) <=> NoResult(F, n, c)
        /\ \A c, ok : SettledBy(F, n + 1, c, ok) <=> SettledBy(F, n, c, ok)
    BY <1>2, OneMoreEvent DEF IsCall, IsResult
  <2> QED  BY <1>2, <2>1, SameEvents
<1>6. CallsFit(F, n + 1, made, loose, held)
  BY <1>5 DEF Faithful, CallsFit
<1> QED  BY <1>1, <1>2, <1>3, <1>4, <1>6 DEF Faithful

\* An announced call is loose.  It is held, without a result, only if it is new.
LEMMA FaithfulCall ==
  ASSUME NEW E, NEW run, NEW m, NEW made, NEW loose, NEW held,
         run \in [calls : Seq(CallEntries), output : Seq(Nat), status : Statuses, site : BOOLEAN],
         Faithful(E, run.calls, m, made, loose, held), NEW e \in SentEvents, NEW c \in Calls,
         e.type = "tool_call", e.call = c,
         NEW held2, held2 \subseteq held \cup {c}, c \in held2 => c \notin made
  PROVE  Faithful(Append(E, e), WithCall(run, c).calls, m, made \cup {c}, loose \cup {c}, held2)
<1> DEFINE n == Len(E)
<1>1. PICK F : F = Append(E, e)
  OBVIOUS
<1>2. /\ F \in Seq(SentEvents) /\ n \in Nat /\ Len(F) = n + 1
      /\ F[n + 1] = e /\ \A j \in 1..n : F[j] = E[j]
  BY <1>1, GrownEvents DEF Faithful
<1>3. TextsInOrder(F) /\ LastText(F, n + 1, m)
  BY <1>1, TextsGrow DEF Faithful
<1>4. CallsShown(WithCall(run, c).calls, F, n + 1)
  <2>1. CallsShown(run.calls, F, n)
    BY <1>2, SameEvents DEF Faithful
  <2>2. /\ CallsShown(Append(run.calls, Started(c)), F, n + 1)
        /\ (\E i \in DOMAIN run.calls : run.calls[i].id = c) => CallsShown(run.calls, F, n + 1)
    BY <1>2, <2>1, CallsShownAnnounced
  <2>3. Knows(run, c) => WithCall(run, c).calls = run.calls
    BY DEF WithCall
  <2>4. ~Knows(run, c) => WithCall(run, c).calls = Append(run.calls, Started(c))
    BY DEF WithCall
  <2> QED  BY <2>2, <2>3, <2>4 DEF Knows
<1>5. /\ \A x : Announced(F, n + 1, x) <=> Announced(E, n, x) \/ x = c
      /\ \A x : NoResult(F, n + 1, x) <=> NoResult(E, n, x)
      /\ \A x, ok : SettledBy(F, n + 1, x, ok) <=> SettledBy(E, n, x, ok) /\ x # c
  <2>1. /\ \A x : Announced(F, n + 1, x) <=> Announced(F, n, x) \/ x = c
        /\ \A x : NoResult(F, n + 1, x) <=> NoResult(F, n, x)
        /\ \A x, ok : SettledBy(F, n + 1, x, ok) <=> SettledBy(F, n, x, ok) /\ x # c
    <3>1. \A x : (IsCall(F[n + 1], x) <=> x = c) /\ ~IsResult(F[n + 1], x)
      BY <1>2 DEF IsCall, IsResult
    <3>2. \A x : Announced(F, n + 1, x) <=> Announced(F, n, x) \/ x = c
      BY <1>2, <3>1, OneMoreEvent
    <3>3. \A x : NoResult(F, n + 1, x) <=> NoResult(F, n, x)
      BY <1>2, <3>1, OneMoreEvent
    <3>4. \A x, ok : SettledBy(F, n + 1, x, ok) <=> SettledBy(F, n, x, ok) /\ x # c
      BY <1>2, <3>1, OneMoreEvent
    <3> QED  BY <3>2, <3>3, <3>4
  <2> QED  BY <1>2, <2>1, SameEvents
<1>6. CallsFit(F, n + 1, made \cup {c}, loose \cup {c}, held2)
  BY <1>5 DEF Faithful, CallsFit
<1> QED  BY <1>1, <1>2, <1>3, <1>4, <1>6 DEF Faithful

\* One that returns is settled.
LEMMA FaithfulResult ==
  ASSUME NEW E, NEW calls, NEW m, NEW made, NEW loose, NEW held,
         Faithful(E, calls, m, made, loose, held), NEW e \in SentEvents, NEW c \in Calls,
         NEW ok \in BOOLEAN, e.type = "tool_result", e.call = c, e.ok = ok, c \in made
  PROVE  Faithful(Append(E, e), Settled(calls, c, ok), m, made, loose \ {c}, held \ {c})
<1> DEFINE n == Len(E)
<1>1. PICK F : F = Append(E, e)
  OBVIOUS
<1>2. /\ F \in Seq(SentEvents) /\ n \in Nat /\ Len(F) = n + 1
      /\ F[n + 1] = e /\ \A j \in 1..n : F[j] = E[j]
  BY <1>1, GrownEvents DEF Faithful
<1>3. TextsInOrder(F) /\ LastText(F, n + 1, m)
  BY <1>1, TextsGrow DEF Faithful
<1>4. CallsShown(Settled(calls, c, ok), F, n + 1)
  <2>1. CallsShown(calls, F, n)
    BY <1>2, SameEvents DEF Faithful
  <2> QED  BY <1>2, <2>1, CallsShownSettled
<1>5. /\ \A x : Announced(F, n + 1, x) <=> Announced(E, n, x)
      /\ \A x : NoResult(F, n + 1, x) <=> NoResult(E, n, x) /\ x # c
      /\ \A x, y : SettledBy(F, n + 1, x, y) <=> (x = c /\ y = ok) \/ (SettledBy(E, n, x, y) /\ x # c)
  <2>1. /\ \A x : Announced(F, n + 1, x) <=> Announced(F, n, x)
        /\ \A x : NoResult(F, n + 1, x) <=> NoResult(F, n, x) /\ x # c
        /\ \A x, y : SettledBy(F, n + 1, x, y)
                       <=> (x = c /\ y = ok) \/ (SettledBy(F, n, x, y) /\ x # c)
    BY <1>2, OneMoreEvent DEF IsCall, IsResult
  <2> QED  BY <1>2, <2>1, SameEvents
<1>6. CallsFit(F, n + 1, made, loose \ {c}, held \ {c})
  BY <1>5 DEF Faithful, CallsFit
<1> QED  BY <1>1, <1>2, <1>3, <1>4, <1>6 DEF Faithful

LEMMA FaithfulLooser ==
  ASSUME NEW E, NEW calls, NEW m, NEW made, NEW loose, NEW held, NEW loose2, NEW held2,
         Faithful(E, calls, m, made, loose, held), loose \cap made \subseteq loose2,
         held2 \subseteq held
  PROVE  Faithful(E, calls, m, made, loose2, held2)
BY DEF Faithful, CallsFit

\* The client's view stays right when more is sent.
LEMMA ClientStays ==
  ASSUME ClientOK, bus \in Seq(SentEvents), queue \in Seq(SentEvents), bus' \in Seq(SentEvents),
         Len(bus) <= Len(bus'), \A j \in 1..Len(Sent) : Sent'[j] = Sent[j],
         seen' = seen, shown' = shown
  PROVE  ClientOK'
<1>1. seen \in 0..Len(bus) /\ Len(bus) \in Nat /\ Len(bus') \in Nat /\ Len(bus) <= Len(Sent)
      /\ Len(Sent) \in Nat
  BY DEF ClientOK, Sent
<1>2. seen \in Nat /\ \A j \in 1..seen : Sent'[j] = Sent[j]
  BY <1>1
<1>3. PICK F : F = Sent'
  OBVIOUS
<1>4. seen > 0 => Shown(shown, F, seen)
  BY <1>2, <1>3, SameEvents DEF ClientOK
<1> QED  BY <1>1, <1>3, <1>4 DEF ClientOK

LEMMA UnendedGrows ==
  ASSUME NEW E \in Seq(SentEvents), NEW e \in SentEvents, Unended(E, Len(E)),
         e.type \notin {"metadata", "error", "run_end"}
  PROVE  Unended(Append(E, e), Len(Append(E, e)))
<1>1. PICK F : F = Append(E, e)
  OBVIOUS
<1>2. /\ F \in Seq(SentEvents) /\ Len(E) \in Nat /\ Len(F) = Len(E) + 1
      /\ F[Len(E) + 1] = e /\ \A j \in 1..Len(E) : F[j] = E[j]
  BY <1>1, GrownEvents
<1>3. \A type : Has(F, Len(E) + 1, type) <=> Has(E, Len(E), type) \/ e.type = type
  BY <1>2, OneMoreEvent, SameEvents
<1> QED  BY <1>1, <1>2, <1>3 DEF Unended

\* A step of a run that has not ended, when it queues an event.
LEMMA QueuedStep ==
  ASSUME TrackerOK, StoredOK, SentOK, EndOK, ClientOK, NEW e \in SentEvents,
         e.type \in {"text_delta", "tool_call", "tool_result"},
         bus' = bus, queue' = Append(queue, e), agent \notin {"over", "stored"},
         agent' \notin {"waiting", "over", "stored"}, tracker'.status = tracker.status,
         tracker'.site = tracker.site, tracker'.output = Upto(texts'),
         seen' = seen, shown' = shown, stored' = stored
  PROVE  /\ bus' \in Seq(SentEvents) /\ queue' \in Seq(SentEvents) /\ Sent' = Append(Sent, e)
         /\ EndOK' /\ ClientOK' /\ StoredOK'
<1>1. /\ bus' \in Seq(SentEvents) /\ queue' \in Seq(SentEvents) /\ Sent' = Append(Sent, e)
      /\ bus \in Seq(SentEvents) /\ queue \in Seq(SentEvents)
      /\ Sent \in Seq(SentEvents)
  BY Queued DEF SentOK
<1>2. ClientOK'
  <2>1. \A j \in 1..Len(Sent) : Sent'[j] = Sent[j]
    BY <1>1, GrownEvents
  <2> QED  BY <1>1, <2>1, ClientStays
<1>3. tracker.status = "running" /\ tracker.site = FALSE /\ Unended(Sent, Len(Sent))
  BY DEF EndOK
<1>4. Unended(Sent', Len(Sent'))
  BY <1>1, <1>3, UnendedGrows
<1>5. EndOK'
  BY <1>3, <1>4 DEF EndOK
<1>6. StoredOK'
  BY DEF StoredOK
<1> QED  BY <1>1, <1>2, <1>5, <1>6

LEMMA WritesStep ==
  ASSUME TraceInv, Writes
  PROVE  TrackerOK' /\ StoredOK' /\ SentOK' /\ EndOK' /\ ClientOK'
<1> DEFINE e == [type |-> "text_delta", text |-> texts + 1]
<1>1. /\ agent = "model" /\ agent' = agent /\ texts' = texts + 1 /\ bus' = bus
      /\ queue' = Append(queue, e) /\ tracker' = [tracker EXCEPT !.output = Append(@, texts + 1)]
      /\ UNCHANGED <<issued, open, asked, granted, denied, seen, shown, stored>>
  BY DEF Writes, clientVars, storeVars
<1>2. TrackerOK /\ StoredOK /\ SentOK /\ EndOK /\ ClientOK /\ texts \in Nat /\ e \in SentEvents
      /\ e.type = "text_delta" /\ e.text = texts + 1
  BY DEF TraceInv, SentOK, Faithful, SentEvents
<1>3. tracker.output = Upto(texts) /\ tracker.status = "running"
  BY <1>1, <1>2 DEF EndOK
<1>4. Append(tracker.output, texts + 1) = Upto(texts + 1) /\ Upto(texts + 1) \in Seq(Nat)
  <2>1. texts + 1 \in Nat
    BY <1>2
  <2> QED  BY <1>2, <1>3, <2>1, AppendUpto
<1>5. /\ tracker'.output = Upto(texts') /\ tracker'.calls = tracker.calls
      /\ tracker'.status = tracker.status /\ tracker'.site = tracker.site /\ TrackerOK'
  BY <1>1, <1>2, <1>4 DEF TrackerOK
<1> HIDE DEF e
<1>6. /\ bus' \in Seq(SentEvents) /\ queue' \in Seq(SentEvents) /\ Sent' = Append(Sent, e)
      /\ EndOK' /\ ClientOK' /\ StoredOK'
  BY <1>1, <1>2, <1>5, QueuedStep
<1>7. Faithful(Sent', tracker'.calls, texts', issued', Loose', Held')
  <2>1. Loose' = Loose /\ Held' = Held
    BY <1>1 DEF Loose, Held, Decided
  <2>2. Faithful(Append(Sent, e), tracker.calls, texts + 1, issued, Loose, Held)
    BY <1>2, FaithfulText DEF SentOK
  <2> QED  BY <1>1, <1>5, <1>6, <2>1, <2>2
<1> QED  BY <1>5, <1>6, <1>7 DEF SentOK

LEMMA AnnounceStep ==
  ASSUME TraceInv, NEW c \in Calls, CallTool(c) \/ DeferCall(c) \/ ResumeCall(c)
  PROVE  TrackerOK' /\ StoredOK' /\ SentOK' /\ EndOK' /\ ClientOK'
<1> DEFINE e == [type |-> "tool_call", call |-> c]
<1>1. /\ agent \notin {"over", "stored"} /\ agent' \notin {"waiting", "over", "stored"}
      /\ texts' = texts /\ bus' = bus /\ queue' = Append(queue, e)
      /\ tracker' = WithCall(tracker, c)
      /\ UNCHANGED <<granted, denied, seen, shown, stored>>
  BY DEF CallTool, DeferCall, ResumeCall, Announce, clientVars, storeVars
<1>2. TrackerOK /\ StoredOK /\ SentOK /\ EndOK /\ ClientOK /\ AgentOK /\ e \in SentEvents
      /\ e.type = "tool_call" /\ e.call = c
  BY DEF TraceInv, SentEvents
<1> HIDE DEF e
<1>3. /\ tracker'.output = Upto(texts') /\ tracker'.status = tracker.status
      /\ tracker'.site = tracker.site /\ TrackerOK'
  <2>1. tracker.output = Upto(texts)
    BY <1>1, <1>2 DEF EndOK
  <2>2. Started(c) \in CallEntries
    BY EntryFields
  <2>3. CASE Knows(tracker, c)
    BY <1>1, <1>2, <2>1, <2>3 DEF TrackerOK, WithCall
  <2>4. CASE ~Knows(tracker, c)
    <3>1. tracker' = [tracker EXCEPT !.calls = Append(@, Started(c))]
      BY <1>1, <2>4 DEF WithCall
    <3>2. Append(tracker.calls, Started(c)) \in Seq(CallEntries)
      BY <1>2, <2>2 DEF TrackerOK
    <3> QED  BY <1>1, <1>2, <2>1, <3>1, <3>2 DEF TrackerOK
  <2> QED  BY <2>3, <2>4
<1>4. /\ bus' \in Seq(SentEvents) /\ queue' \in Seq(SentEvents) /\ Sent' = Append(Sent, e)
      /\ EndOK' /\ ClientOK' /\ StoredOK'
  BY <1>1, <1>2, <1>3, QueuedStep
<1>5. ASSUME NEW held2, held2 \subseteq Held \cup {c}, c \in held2 => c \notin issued
      PROVE  Faithful(Sent', tracker'.calls, texts', issued \cup {c}, Loose \cup {c}, held2)
  <2>1. tracker \in [calls : Seq(CallEntries), output : Seq(Nat), status : Statuses, site : BOOLEAN]
    BY <1>2 DEF TrackerOK
  <2>2. Faithful(Append(Sent, e), WithCall(tracker, c).calls, texts, issued \cup {c}, Loose \cup {c},
                 held2)
    BY <1>2, <1>5, <2>1, FaithfulCall DEF SentOK
  <2> QED  BY <1>1, <1>4, <2>2
<1>6. Faithful(Sent', tracker'.calls, texts', issued', Loose', Held')
  <2>1. CASE CallTool(c) \/ DeferCall(c)
    <3>1. /\ c \notin issued /\ issued' = issued \cup {c} /\ agent \notin {"resuming"}
          /\ open' \cup asked' = open \cup asked \cup {c} /\ agent' # "resuming"
      BY <2>1 DEF CallTool, DeferCall
    <3>2. Loose \cup {c} \subseteq Loose' /\ Held' \subseteq Held \cup {c}
      BY <1>1, <3>1 DEF Loose, Held, Decided
    <3>3. Faithful(Sent', tracker'.calls, texts', issued \cup {c}, Loose \cup {c}, Held')
      BY <1>5, <3>1, <3>2
    <3> QED  BY <3>1, <3>2, <3>3, FaithfulLooser
  <2>2. CASE ResumeCall(c)
    <3>1. /\ c \in Decided /\ issued' = issued /\ open' = open \cup {c} /\ asked' = asked
          /\ agent = "resuming" /\ agent' \in {"tools", "resuming"}
          /\ agent' = "tools" => open' = Decided
      BY <2>2 DEF ResumeCall, Decided
    <3>2. issued \cup {c} = issued'
      BY <1>2, <3>1 DEF AgentOK
    <3>3. Loose \cup {c} \subseteq Loose' /\ Held' = Held /\ c \notin Held
      <4>1. Decided' = Decided
        BY <1>1 DEF Decided
      <4>2. Held' = Held /\ c \notin Held
        BY <3>1, <4>1 DEF Held
      <4>3. Loose = open \cup asked \cup Decided
        BY <3>1 DEF Loose
      <4>4. Loose' = open' \cup asked' \cup Decided
        BY <3>1, <4>1 DEF Loose
      <4>5. Loose \cup {c} \subseteq Loose'
        BY <3>1, <4>3, <4>4
      <4> QED  BY <4>2, <4>5
    <3>4. Faithful(Sent', tracker'.calls, texts', issued \cup {c}, Loose \cup {c}, Held)
      BY <1>5, <3>3
    <3> QED  BY <3>2, <3>3, <3>4, FaithfulLooser
  <2> QED  BY <2>1, <2>2
<1> QED  BY <1>3, <1>4, <1>6 DEF SentOK

LEMMA ToolEndsStep ==
  ASSUME TraceInv, NEW c \in Calls, NEW ok \in BOOLEAN, ToolEnds(c, ok)
  PROVE  TrackerOK' /\ StoredOK' /\ SentOK' /\ EndOK' /\ ClientOK'
<1>0. PICK b \in BOOLEAN : b = ok
  OBVIOUS
<1> DEFINE e == [type |-> "tool_result", call |-> c, ok |-> b]
<1>1. /\ agent \in {"calling", "tools"} /\ agent' \in {"model", "tools", "site", "cancelled"}
      /\ c \in open /\ open' = open \ {c} /\ texts' = texts /\ bus' = bus
      /\ tracker' = [tracker EXCEPT !.calls = Settled(@, c, b)]
      /\ UNCHANGED <<issued, asked, granted, denied, seen, shown, stored>>
  BY <1>0 DEF ToolEnds, clientVars, storeVars
<1>2. queue' = Append(queue, e)
  BY <1>0 DEF ToolEnds
<1>3. TrackerOK /\ StoredOK /\ SentOK /\ EndOK /\ ClientOK /\ AgentOK
      /\ e.type = "tool_result" /\ e.call = c
  BY DEF TraceInv
<1>4. e \in SentEvents /\ e.ok = b
  <2>1. e \in [type : {"tool_result"}, call : Calls, ok : BOOLEAN]
    BY Zenon
  <2>2. e \in SentEvents
    BY <2>1, Zenon DEF SentEvents
  <2>3. e.ok = b
    BY Zenon
  <2> QED  BY <2>2, <2>3
<1> HIDE DEF e
<1>5. /\ tracker'.output = Upto(texts') /\ tracker'.status = tracker.status
      /\ tracker'.site = tracker.site /\ TrackerOK' /\ tracker'.calls = Settled(tracker.calls, c, b)
  <2>1. tracker.output = Upto(texts)
    BY <1>1, <1>3 DEF EndOK
  <2>2. Settled(tracker.calls, c, b) \in Seq(CallEntries)
    BY <1>3, SettledEntries DEF TrackerOK
  <2> QED  BY <1>1, <1>3, <2>1, <2>2 DEF TrackerOK
<1>6. /\ bus' \in Seq(SentEvents) /\ queue' \in Seq(SentEvents) /\ Sent' = Append(Sent, e)
      /\ EndOK' /\ ClientOK' /\ StoredOK'
  BY <1>1, <1>2, <1>3, <1>4, <1>5, QueuedStep
<1>7. Faithful(Sent', tracker'.calls, texts', issued', Loose', Held')
  <2>1. c \in issued /\ asked = {}
    BY <1>1, <1>3 DEF AgentOK
  <2>2. Faithful(Append(Sent, e), Settled(tracker.calls, c, b), texts, issued, Loose \ {c}, Held \ {c})
    BY <1>3, <1>4, <2>1, FaithfulResult DEF SentOK
  <2>3. Loose \ {c} \subseteq Loose' /\ Held' \subseteq Held \ {c}
    BY <1>1, <2>1 DEF Loose, Held, Decided
  <2> QED  BY <1>1, <1>5, <1>6, <2>2, <2>3, FaithfulLooser
<1> QED  BY <1>5, <1>6, <1>7 DEF SentOK

\* Nothing is sent by a lost connection, by the agent's return, when an event
\* is forwarded or the run stored.
LEMMA SilentStep ==
  ASSUME TraceInv, UNCHANGED traceVars \/ ConnectionLost \/ AgentReturns \/ Forward \/ Persist
  PROVE  TrackerOK' /\ StoredOK' /\ SentOK' /\ EndOK' /\ ClientOK'
<1>1. TrackerOK /\ StoredOK /\ SentOK /\ EndOK /\ ClientOK /\ AgentOK
      /\ bus \in Seq(SentEvents) /\ queue \in Seq(SentEvents)
  BY DEF TraceInv, SentOK
<1>2. UNCHANGED <<issued, open, asked, granted, denied, texts, tracker, seen, shown>>
  BY DEF traceVars, streamVars, clientVars, storeVars, ConnectionLost, AgentReturns, Forward, Persist
<1>3. /\ bus' \in Seq(SentEvents) /\ queue' \in Seq(SentEvents) /\ Sent' = Sent
      /\ Len(bus) <= Len(bus')
  <2>1. CASE Forward
    <3>1. queue # <<>> /\ bus' = Append(bus, Head(queue)) /\ queue' = Tail(queue)
      BY <2>1 DEF Forward
    <3>2. Head(queue) \in SentEvents
      BY <1>1, <3>1
    <3>3. Len(bus) <= Len(bus')
      BY <1>1, <3>1, <3>2
    <3> QED  BY <1>1, <3>1, <3>3, Forwarded
  <2>2. CASE ~Forward
    <3>1. bus' = bus /\ queue' = queue
      BY <2>2 DEF traceVars, ConnectionLost, AgentReturns, Persist
    <3> QED  BY <1>1, <3>1 DEF Sent
  <2> QED  BY <2>1, <2>2
<1>4. ClientOK'
  BY <1>1, <1>2, <1>3, ClientStays
<1>5. /\ agent \in {"over", "stored"} <=> agent' \in {"over", "stored"}
      /\ agent = "waiting" <=> agent' = "waiting"
      /\ agent \in {"waiting", "over", "stored"} => queue' = queue \/ queue # <<>>
      /\ agent' = "resuming" \/ agent # "resuming" \/ agent' = agent
  BY DEF traceVars, streamVars, clientVars, storeVars, ConnectionLost, AgentReturns, Forward, Persist
<1>6. EndOK'
  BY <1>1, <1>2, <1>3, <1>5 DEF EndOK, Decided
<1>7. SentOK'
  <2>1. Loose \subseteq Loose' /\ Held' = Held
    BY <1>2, <1>5 DEF Loose, Held, Decided
  <2>2. Faithful(Sent, tracker.calls, texts, issued, Loose', Held')
    BY <1>1, <2>1, FaithfulLooser DEF SentOK
  <2> QED  BY <1>2, <1>3, <2>2 DEF SentOK
<1>8. StoredOK'
  <2>1. CASE Persist
    <3>1. stored = NoRun
      BY <1>1, <2>1 DEF Persist, StoredOK
    <3> QED  BY <1>2, <2>1, <3>1 DEF Persist, StoredOK, storeVars
  <2>2. CASE ~Persist
    <3>1. stored' = stored
      BY <2>2 DEF traceVars, storeVars, ConnectionLost, AgentReturns, Forward
    <3>2. agent = "stored" => agent' = "stored"
      BY <2>2 DEF traceVars, ConnectionLost, AgentReturns, Forward
    <3> QED  BY <1>1, <1>2, <3>1, <3>2 DEF StoredOK
  <2> QED  BY <2>1, <2>2
<1> QED  BY <1>1, <1>2, <1>4, <1>6, <1>7, <1>8 DEF TrackerOK

\* The client reads the next event, or begins again.
LEMMA ClientStep ==
  ASSUME TraceInv, Read \/ ReloadPage
  PROVE  TrackerOK' /\ StoredOK' /\ SentOK' /\ EndOK' /\ ClientOK'
<1>1. TrackerOK /\ StoredOK /\ SentOK /\ EndOK /\ ClientOK
      /\ bus \in Seq(SentEvents) /\ queue \in Seq(SentEvents)
  BY DEF TraceInv, SentOK
<1>2. UNCHANGED <<agent, issued, open, asked, granted, denied, texts, tracker, queue, bus, stored>>
  BY DEF streamVars, clientVars, storeVars, Read, ReloadPage
<1>3. TrackerOK' /\ StoredOK' /\ SentOK' /\ EndOK'
  BY <1>1, <1>2 DEF TrackerOK, StoredOK, SentOK, EndOK, Sent, Loose, Held, Decided
<1>4. CASE ReloadPage
  BY <1>1, <1>2, <1>3, <1>4 DEF ReloadPage, ClientOK
<1>5. CASE Read
  <2> DEFINE run == IF shown = NoRun THEN NewRun ELSE shown
  <2>1. /\ seen < Len(bus) /\ seen' = seen + 1 /\ shown' = Applied(run, bus[seen + 1])
        /\ seen \in 0..Len(bus) /\ Len(bus) \in Nat
    BY <1>1, <1>5 DEF Read, ClientOK
  <2>2. /\ Sent \in Seq(SentEvents) /\ TextsInOrder(Sent) /\ Sent' = Sent
        /\ seen + 1 \in DOMAIN Sent /\ Sent[seen + 1] = bus[seen + 1]
    <3>1. Sent \in Seq(SentEvents) /\ TextsInOrder(Sent) /\ Sent' = Sent
      BY <1>1, <1>2 DEF SentOK, Faithful, Sent
    <3>2. seen + 1 \in 1..Len(bus)
      BY <2>1
    <3>3. \A i \in 1..Len(bus) : i \in DOMAIN Sent /\ Sent[i] = bus[i]
      BY <1>1, ConcatProperties DEF Sent
    <3> QED  BY <3>1, <3>2, <3>3
  <2>3. Shown(run, Sent, seen)
    <3>1. CASE seen = 0
      <4>1. run = NewRun
        BY <1>1, <3>1 DEF ClientOK
      <4>2. NewRun \in [calls : Seq(CallEntries), output : Seq(Nat),
                        status : Statuses \cup {"none"}, site : BOOLEAN]
            /\ NewRun.calls = <<>> /\ NewRun.output = <<>> /\ NewRun.status = "running"
        BY DEF NewRun, Statuses
      <4>3. CallsShown(<<>>, Sent, 0)
        BY DEF CallsShown, Announced
      <4>4. TextShown(<<>>, Sent, 0)
        <5>1. Upto(0) = <<>>
          <6>1. Upto(0) \in Seq(Nat) /\ Len(Upto(0)) = 0
            BY AppendUpto, LenProperties DEF Upto
          <6> QED  BY <6>1
        <5>2. LastText(Sent, 0, 0)
          BY DEF LastText
        <5> QED  BY <5>1, <5>2 DEF TextShown
      <4>5. StatusShown("running", Sent, 0)
        BY DEF StatusShown, Has
      <4> QED  BY <3>1, <4>1, <4>2, <4>3, <4>4, <4>5 DEF Shown
    <3>2. CASE seen > 0
      <4>1. Shown(shown, Sent, seen)
        BY <1>1, <3>2 DEF ClientOK
      <4>2. shown # NoRun
        <5>1. NoRun.status = "none"
          BY DEF NoRun, NewRun
        <5> QED  BY <4>1, <5>1 DEF Shown, StatusShown
      <4> QED  BY <4>1, <4>2
    <3> QED  BY <2>1, <3>1, <3>2
  <2> HIDE DEF run
  <2>4. Shown(shown', Sent, seen + 1)
    <3>1. seen \in Nat
      BY <2>1
    <3>2. Shown(Applied(run, Sent[seen + 1]), Sent, seen + 1)
      BY <2>2, <2>3, <3>1, ShownNext
    <3> QED  BY <2>1, <2>2, <3>2
  <2>5. ClientOK'
    BY <1>2, <2>1, <2>2, <2>4 DEF ClientOK
  <2> QED  BY <1>3, <2>5
<1> QED  BY <1>4, <1>5

\* The events with no field but their type.
LEMMA PlainEvents ==
  \A type \in {"run_start", "approval_request", "error", "run_end", "takeover_cancelled"} :
    [type |-> type] \in SentEvents /\ [type |-> type].type = type
BY DEF SentEvents

\* A stream has ended in deferred calls, and its events are forwarded.
LEMMA DeferredStep ==
  ASSUME TraceInv,
         \/ \E held \in SUBSET asked : EndDeferred(held)
         \/ \E no \in SUBSET human : Decide(no)
  PROVE  TrackerOK' /\ StoredOK' /\ SentOK' /\ EndOK' /\ ClientOK'
<1>1. TrackerOK /\ StoredOK /\ SentOK /\ EndOK /\ ClientOK /\ AgentOK
      /\ bus \in Seq(SentEvents) /\ queue \in Seq(SentEvents)
  BY DEF TraceInv, SentOK
<1>2. /\ agent \in {"deferred", "waiting"} /\ agent' \in {"waiting", "resuming"} /\ queue = <<>>
      /\ UNCHANGED <<issued, open, texts, tracker, queue, seen, shown, stored>>
  BY <1>1 DEF EndOK, EndDeferred, Decide, Restart, Drained, clientVars, storeVars
<1>3. PICK e \in SentEvents : e.type \in {"run_start", "approval_request"} /\ bus' = Append(bus, e)
  BY PlainEvents DEF EndDeferred, Decide
<1>4. /\ agent' = "waiting" => agent = "deferred" /\ asked' = asked /\ Decided' = Decided
      /\ agent' = "resuming" => Decided' = asked /\ asked' = {}
  BY <1>1 DEF EndDeferred, Decide, Restart, AgentOK, Decided
<1>5. /\ bus' \in Seq(SentEvents) /\ Sent = bus /\ Sent' = Append(Sent, e) /\ Len(bus) <= Len(bus')
  BY <1>1, <1>2, <1>3, NothingQueued DEF Sent
<1>6. ClientOK'
  <2>1. \A j \in 1..Len(Sent) : Sent'[j] = Sent[j]
    BY <1>1, <1>5, GrownEvents
  <2> QED  BY <1>1, <1>2, <1>5, <2>1, ClientStays
<1>7. EndOK'
  <2>1. Unended(Sent', Len(Sent'))
    BY <1>1, <1>2, <1>3, <1>5, UnendedGrows DEF EndOK
  <2> QED  BY <1>1, <1>2, <2>1 DEF EndOK
<1>8. SentOK'
  <2>1. Faithful(Sent', tracker.calls, texts, issued, Loose, Held)
    BY <1>1, <1>3, <1>5, FaithfulQuiet DEF SentOK
  <2>2. open = {} /\ open' = {}
    BY <1>1, <1>2 DEF AgentOK
  <2>3. Loose \subseteq Loose' /\ Held' \subseteq Held
    BY <1>2, <1>4, <2>2 DEF Loose, Held
  <2>4. Faithful(Sent', tracker.calls, texts, issued, Loose', Held')
    BY <2>1, <2>3, FaithfulLooser
  <2> QED  BY <1>1, <1>2, <1>5, <2>4 DEF SentOK
<1>9. StoredOK'
  BY <1>1, <1>2 DEF StoredOK
<1> QED  BY <1>1, <1>2, <1>6, <1>7, <1>8, <1>9 DEF TrackerOK

\* The events that end a run are its last.
LEMMA LastEvents ==
  ASSUME NEW E \in Seq(SentEvents), NEW d \in SentEvents, NEW e \in SentEvents,
         Unended(E, Len(E)), NEW G, G = Append(Append(E, d), e), e.type = "run_end"
  PROVE  /\ d.type = "metadata" => EndedWell(G, Len(G), d.output)
         /\ d.type = "error" => EndedBadly(G, Len(G))
         /\ G \in Seq(SentEvents) /\ \A j \in 1..Len(E) : G[j] = E[j]
<1>1. PICK F : F = Append(E, d)
  OBVIOUS
<1>2. /\ F \in Seq(SentEvents) /\ Len(E) \in Nat /\ Len(F) = Len(E) + 1
      /\ F[Len(E) + 1] = d /\ \A j \in 1..Len(E) : F[j] = E[j]
  BY <1>1, GrownEvents
<1>3. /\ G \in Seq(SentEvents) /\ Len(G) = Len(F) + 1
      /\ G[Len(F) + 1] = e /\ \A j \in 1..Len(F) : G[j] = F[j]
  BY <1>1, <1>2, GrownEvents
<1>4. \A type : Has(F, Len(F), type) <=> Has(E, Len(E), type) \/ d.type = type
  <2>1. \A type : Has(F, Len(E), type) <=> Has(E, Len(E), type)
    BY <1>2, SameEvents
  <2>2. \A type : Has(F, Len(E) + 1, type) <=> Has(F, Len(E), type) \/ F[Len(E) + 1].type = type
    BY <1>2, OneMoreEvent
  <2> QED  BY <1>2, <2>1, <2>2
<1>5. \A type : Has(G, Len(G), type) <=> Has(F, Len(F), type) \/ e.type = type
  <2>1. Len(F) \in Nat
    BY <1>2
  <2>2. \A type : Has(G, Len(F), type) <=> Has(F, Len(F), type)
    BY <1>3, <2>1, SameEvents
  <2>3. \A type : Has(G, Len(F) + 1, type) <=> Has(G, Len(F), type) \/ G[Len(F) + 1].type = type
    BY <2>1, OneMoreEvent
  <2> QED  BY <1>3, <2>2, <2>3
<1>6. Len(G) = Len(E) + 2 /\ Len(G) > 1 /\ Len(G) - 1 = Len(F) /\ Len(F) \in 1..Len(F)
  BY <1>2, <1>3
<1>7. G[Len(G)] = e /\ G[Len(G) - 1] = d
  BY <1>2, <1>3, <1>6
<1>8. d.type = "metadata" => EndedWell(G, Len(G), d.output)
  <2>1. ~Has(E, Len(E), "error")
    BY DEF Unended
  <2>2. d.type = "metadata" => ~Has(G, Len(G), "error")
    BY <1>4, <1>5, <2>1
  <2> QED  BY <1>6, <1>7, <2>2 DEF EndedWell
<1>9. d.type = "error" => EndedBadly(G, Len(G))
  BY <1>3, <1>4, <1>5 DEF EndedBadly, Unended
<1> QED  BY <1>2, <1>3, <1>8, <1>9

LEMMA EndStep ==
  ASSUME TraceInv, EndCompleted \/ EndFailed
  PROVE  TrackerOK' /\ StoredOK' /\ SentOK' /\ EndOK' /\ ClientOK'
<1>1. TrackerOK /\ StoredOK /\ SentOK /\ EndOK /\ ClientOK /\ AgentOK
      /\ bus \in Seq(SentEvents) /\ queue \in Seq(SentEvents)
  BY DEF TraceInv, SentOK
<1>2. /\ agent \in {"done", "site", "error"} /\ agent' = "over" /\ queue = <<>>
      /\ UNCHANGED <<issued, open, asked, granted, denied, texts, queue, seen, shown, stored>>
  BY DEF EndCompleted, EndFailed, Failed, Drained, streamVars, clientVars, storeVars
<1>3. Sent = bus /\ Sent' = bus' \o <<>>
  BY <1>1, <1>2, NothingQueued DEF Sent
<1>4. FullOutput \in Seq(Nat)
  <2>1. MaxTexts + 1 \in Nat
    BY RunTraceAssumption
  <2> QED  BY <1>1, <2>1 DEF FullOutput, TrackerOK
<1>5. PICK d \in SentEvents, e \in SentEvents :
        /\ bus' = bus \o <<d, e>> /\ e.type = "run_end"
        /\ EndCompleted => d.type = "metadata" /\ d.output = FullOutput
        /\ ~EndCompleted => d.type = "error"
  <2>1. CASE EndCompleted
    <3>1. [type |-> "metadata", output |-> FullOutput] \in SentEvents
      BY <1>4 DEF SentEvents
    <3> QED  BY <2>1, <3>1, PlainEvents DEF EndCompleted
  <2>2. CASE ~EndCompleted
    BY <2>2, PlainEvents DEF EndFailed
  <2> QED  BY <2>1, <2>2
<1>6. /\ bus' = Append(Append(bus, d), e) /\ bus' \in Seq(SentEvents) /\ Sent' = bus'
      /\ \A j \in 1..Len(bus) : bus'[j] = bus[j]
  <2>1. bus' = Append(Append(bus, d), e)
    BY <1>1, <1>5, NothingQueued
  <2>2. Unended(bus, Len(bus))
    BY <1>1, <1>2, <1>3 DEF EndOK
  <2>3. bus' \in Seq(SentEvents) /\ \A j \in 1..Len(bus) : bus'[j] = bus[j]
    BY <1>1, <1>5, <2>1, <2>2, LastEvents
  <2> QED  BY <1>3, <2>1, <2>3, NothingQueued
<1>7. ClientOK'
  <2>1. Len(bus) <= Len(bus')
    BY <1>1, <1>6
  <2> QED  BY <1>1, <1>2, <1>3, <1>6, <2>1, ClientStays
<1>8. Faithful(Sent', tracker.calls, texts, issued, Loose, Held)
  <2>1. e.type \notin {"text_delta", "tool_call", "tool_result"}
        /\ d.type \notin {"text_delta", "tool_call", "tool_result"}
    BY <1>5
  <2>2. Faithful(bus, tracker.calls, texts, issued, Loose, Held)
    BY <1>1, <1>3 DEF SentOK
  <2>3. Faithful(Append(bus, d), tracker.calls, texts, issued, Loose, Held)
    BY <2>1, <2>2, FaithfulQuiet
  <2> QED  BY <1>6, <2>1, <2>3, FaithfulQuiet
<1>9. Loose' = Loose /\ Held' = Held /\ Decided' = Decided
  BY <1>2 DEF Loose, Held, Decided
<1>10. Unended(Sent, Len(Sent)) /\ tracker.status = "running" /\ tracker.site = FALSE
       /\ tracker.output = Upto(texts)
  BY <1>1, <1>2 DEF EndOK
<1>11. /\ d.type = "metadata" => EndedWell(Sent', Len(Sent'), d.output)
       /\ d.type = "error" => EndedBadly(Sent', Len(Sent'))
  <2>1. PICK G : G = Sent'
    OBVIOUS
  <2>2. G = Append(Append(bus, d), e) /\ Unended(bus, Len(bus)) /\ e.type = "run_end"
    BY <1>3, <1>5, <1>6, <1>10, <2>1
  <2>3. /\ d.type = "metadata" => EndedWell(G, Len(G), d.output)
        /\ d.type = "error" => EndedBadly(G, Len(G))
    BY <1>1, <2>2, LastEvents
  <2> QED  BY <2>1, <2>3
<1>12. StoredOK'
  BY <1>1, <1>2 DEF StoredOK
<1>13. CASE EndCompleted
  <2>1. tracker' = [tracker EXCEPT !.output = FullOutput, !.status = "completed"]
        /\ agent = "done"
    BY <1>13 DEF EndCompleted
  <2>2. /\ tracker'.status = "completed" /\ tracker'.output = FullOutput
        /\ tracker'.site = FALSE /\ tracker'.calls = tracker.calls
    BY <1>1, <1>10, <2>1 DEF TrackerOK
  <2>3. TrackerOK'
    BY <1>1, <1>4, <2>1 DEF TrackerOK, Statuses
  <2>4. SentOK'
    BY <1>1, <1>2, <1>6, <1>8, <1>9, <2>2 DEF SentOK
  <2>5. EndOK'
    BY <1>1, <1>2, <1>5, <1>11, <1>13, <2>1, <2>2 DEF EndOK, AgentOK
  <2> QED  BY <1>7, <1>12, <2>3, <2>4, <2>5
<1>14. CASE EndFailed /\ ~EndCompleted
  <2>1. PICK b \in BOOLEAN : b = (agent = "site")
    OBVIOUS
  <2>2. tracker' = [tracker EXCEPT !.status = "error", !.site = b]
    BY <1>14, <2>1 DEF EndFailed
  <2>3. /\ tracker'.status = "error" /\ tracker'.output = tracker.output
        /\ tracker'.site = b /\ tracker'.calls = tracker.calls
    BY <1>1, <2>2 DEF TrackerOK
  <2>4. TrackerOK'
    BY <1>1, <2>2 DEF TrackerOK, Statuses
  <2>5. SentOK'
    BY <1>1, <1>2, <1>6, <1>8, <1>9, <2>3 DEF SentOK
  <2>6. b => open \cap Decided = {}
    BY <1>1, <2>1 DEF AgentOK
  <2>7. EndOK'
    BY <1>2, <1>5, <1>9, <1>10, <1>11, <1>14, <2>3, <2>6 DEF EndOK
  <2> QED  BY <1>7, <1>12, <2>4, <2>5, <2>7
<1> QED  BY <1>13, <1>14

LEMMA CancelStep ==
  ASSUME TraceInv, EndCancelled
  PROVE  TrackerOK' /\ StoredOK' /\ SentOK' /\ EndOK' /\ ClientOK'
<1>1. TrackerOK /\ StoredOK /\ SentOK /\ EndOK /\ ClientOK /\ AgentOK
      /\ bus \in Seq(SentEvents) /\ queue \in Seq(SentEvents)
  BY DEF TraceInv, SentOK
<1>2. /\ agent = "cancelled" /\ agent' = "over" /\ queue = <<>>
      /\ tracker' = [tracker EXCEPT !.status = "cancelled"]
      /\ UNCHANGED <<issued, open, asked, granted, denied, texts, queue, seen, shown, stored>>
  BY DEF EndCancelled, Drained, streamVars, clientVars, storeVars
<1>3. PICK e \in SentEvents : e.type = "takeover_cancelled" /\ bus' = Append(bus, e)
  BY PlainEvents DEF EndCancelled
<1>4. bus' \in Seq(SentEvents) /\ Sent = bus /\ Sent' = Append(Sent, e) /\ Len(bus) <= Len(bus')
  BY <1>1, <1>2, <1>3, NothingQueued DEF Sent
<1>5. ClientOK'
  <2>1. \A j \in 1..Len(Sent) : Sent'[j] = Sent[j]
    BY <1>1, <1>4, GrownEvents
  <2> QED  BY <1>1, <1>2, <1>4, <2>1, ClientStays
<1>6. /\ tracker'.status = "cancelled" /\ tracker'.site = FALSE /\ tracker'.output = Upto(texts)
      /\ tracker'.calls = tracker.calls /\ TrackerOK'
  BY <1>1, <1>2 DEF EndOK, TrackerOK, Statuses
<1>7. EndOK'
  BY <1>2, <1>6 DEF EndOK
<1>8. SentOK'
  <2>1. Loose' = Loose /\ Held' = Held
    BY <1>2 DEF Loose, Held, Decided
  <2>2. Faithful(Sent', tracker.calls, texts, issued, Loose, Held)
    BY <1>1, <1>3, <1>4, FaithfulQuiet DEF SentOK
  <2> QED  BY <1>1, <1>2, <1>4, <1>6, <2>1, <2>2 DEF SentOK
<1>9. StoredOK'
  BY <1>1, <1>2 DEF StoredOK
<1> QED  BY <1>5, <1>6, <1>7, <1>8, <1>9

LEMMA TraceInvInit == ASSUME TraceInit PROVE TraceInv
<1>1. PICK e \in SentEvents : e.type = "run_start" /\ bus = <<e>>
  BY PlainEvents DEF TraceInit
<1>2. bus \in Seq(SentEvents) /\ queue = <<>> /\ queue \in Seq(SentEvents) /\ Sent = bus
      /\ Len(bus) = 1 /\ bus[1] = e
  BY <1>1, NothingQueued DEF TraceInit, Sent
<1>3. AgentOK /\ MessagesOK
  BY DEF TraceInit, AgentOK, MessagesOK, Decided, NoMessages
<1>4. NewRun \in [calls : Seq(CallEntries), output : Seq(Nat), status : Statuses, site : BOOLEAN]
      /\ NewRun.calls = <<>> /\ NewRun.output = <<>> /\ NewRun.status = "running"
      /\ NewRun.site = FALSE
  BY DEF NewRun, Statuses
<1>5. TrackerOK /\ tracker = NewRun
  BY <1>4 DEF TraceInit, TrackerOK
<1>6. StoredOK /\ ClientOK
  BY <1>2 DEF TraceInit, StoredOK, ClientOK
<1>7. \A j : j \in 1..1 <=> j = 1
  OBVIOUS
<1>8. Upto(0) = <<>>
  <2>1. Upto(0) \in Seq(Nat) /\ Len(Upto(0)) = 0
    BY AppendUpto, LenProperties DEF Upto
  <2> QED  BY <2>1
<1>9. EndOK
  BY <1>1, <1>2, <1>4, <1>5, <1>7, <1>8 DEF TraceInit, EndOK, Unended, Has
<1>10. SentOK
  <2>1. TextsInOrder(bus) /\ LastText(bus, 1, 0)
    BY <1>1, <1>2, <1>7 DEF TextsInOrder, LastText
  <2>2. CallsShown(<<>>, bus, 1)
    BY <1>1, <1>2, <1>7 DEF CallsShown, Announced, IsCall
  <2>3. CallsFit(bus, 1, {}, Loose, Held)
    BY <1>1, <1>2, <1>7 DEF CallsFit, Announced, NoResult, IsCall, IsResult
  <2>4. texts = 0 /\ issued = {}
    BY DEF TraceInit
  <2>5. Faithful(bus, <<>>, 0, {}, Loose, Held)
    BY <1>2, <2>1, <2>2, <2>3 DEF Faithful
  <2> QED  BY <1>2, <1>4, <1>5, <2>4, <2>5 DEF SentOK
<1> QED  BY <1>3, <1>5, <1>6, <1>9, <1>10 DEF TraceInv

LEMMA TraceInvStep == ASSUME TraceInv, [TraceNext]_traceVars PROVE TraceInv'
<1>1. AgentOK' /\ MessagesOK'
  BY AgentStep DEF TraceInv
<1>2. TrackerOK' /\ StoredOK' /\ SentOK' /\ EndOK' /\ ClientOK'
  BY WritesStep, AnnounceStep, ToolEndsStep, SilentStep, ClientStep, DeferredStep, EndStep, CancelStep
  DEF TraceNext
<1> QED  BY <1>1, <1>2 DEF TraceInv

\* The tracker, the events that are sent and the client's view of those it has
\* read say the same of every call and of the text.
THEOREM TraceInvariant == TraceSpec => []TraceInv
<1>1. TraceInit => TraceInv
  BY TraceInvInit
<1>2. TraceInv /\ [TraceNext]_traceVars => TraceInv'
  BY TraceInvStep
<1> QED  BY <1>1, <1>2, PTL DEF TraceSpec

\* Two views of the same events, with each call settled or without a result in
\* them, have the same entries.
LEMMA SameEntries ==
  ASSUME NEW E, NEW n \in Nat, NEW f, NEW g, CallsShown(f, E, n), CallsShown(g, E, n),
         \A c \in Calls : Announced(E, n, c) =>
           NoResult(E, n, c) \/ \E ok \in BOOLEAN : SettledBy(E, n, c, ok)
  PROVE  Range(f) \subseteq Range(g)
<1>1. SUFFICES ASSUME NEW i \in DOMAIN f
               PROVE  \E j \in DOMAIN g : g[j] = f[i]
  BY DEF Range
<1>2. f[i] \in CallEntries /\ \A j \in DOMAIN g : g[j] \in CallEntries
  BY DEF CallsShown
<1>3. f[i].id \in Calls /\ Announced(E, n, f[i].id)
  BY <1>2, EntryFields DEF CallsShown
<1>4. PICK j \in DOMAIN g : g[j].id = f[i].id
  BY <1>3 DEF CallsShown
<1>5. g[j].status = f[i].status
  <2>1. CASE NoResult(E, n, f[i].id)
    BY <1>4, <2>1 DEF CallsShown
  <2>2. CASE \E ok \in BOOLEAN : SettledBy(E, n, f[i].id, ok)
    BY <1>4, <2>2 DEF CallsShown
  <2> QED  BY <1>3, <2>1, <2>2
<1>6. g[j] = f[i]
  BY <1>2, <1>4, <1>5 DEF CallEntries
<1> QED  BY <1>6

\* Once the run is over, each call has a result or never had one.
LEMMA CallsAreOver ==
  ASSUME TraceInv, agent = "stored",
         open \cap Decided = {}, NEW c \in Calls, Announced(Sent, Len(Sent), c)
  PROVE  /\ NoResult(Sent, Len(Sent), c) \/ \E ok \in BOOLEAN : SettledBy(Sent, Len(Sent), c, ok)
         /\ c \notin open => \E ok \in BOOLEAN : SettledBy(Sent, Len(Sent), c, ok)
<1>1. CallsFit(Sent, Len(Sent), issued, Loose, Held)
  BY DEF TraceInv, SentOK, Faithful
<1>2. Loose = open /\ Held = open
  BY DEF TraceInv, AgentOK, Loose, Held
<1> QED  BY <1>1, <1>2 DEF CallsFit

\* Who followed a run sees what opening the session again would show: the same
\* text, status, calls and outcomes.
THEOREM LiveViewIsStored == TraceSpec => []LiveIsStored
<1>1. TraceInv => LiveIsStored
  <2>1. SUFFICES ASSUME TraceInv, Followed, stored # NoRun
                 PROVE  /\ shown.output = stored.output
                        /\ shown.status = stored.status
                        /\ Range(shown.calls) = Range(stored.calls)
    BY DEF LiveIsStored
  <2> DEFINE n == Len(Sent)
  <2>2. /\ agent = "stored" /\ stored = tracker
        /\ tracker.status = "completed" \/ tracker.site
        /\ seen = Len(bus) /\ queue = <<>> /\ Sent = bus /\ Sent \in Seq(SentEvents) /\ n \in Nat
    BY <2>1, NothingQueued DEF TraceInv, StoredOK, Followed, EndOK, SentOK, Sent
  <2>3. n > 0
    BY <2>1, <2>2 DEF TraceInv, EndOK, EndedWell, EndedBadly, Has
  <2>4. Shown(shown, Sent, n)
    BY <2>1, <2>2, <2>3 DEF TraceInv, ClientOK
  <2>5. open \cap Decided = {}
    BY <2>1, <2>2 DEF TraceInv, EndOK
  <2>6. \A c \in Calls : Announced(Sent, n, c) =>
          NoResult(Sent, n, c) \/ \E ok \in BOOLEAN : SettledBy(Sent, n, c, ok)
    BY <2>1, <2>2, <2>5, CallsAreOver
  <2>7. CallsShown(shown.calls, Sent, n) /\ CallsShown(tracker.calls, Sent, n)
    BY <2>1, <2>4 DEF TraceInv, SentOK, Faithful, Shown
  <2>8. Range(shown.calls) = Range(stored.calls)
    <3>1. PICK f, g : f = shown.calls /\ g = tracker.calls
      OBVIOUS
    <3>2. PICK E : E = Sent
      OBVIOUS
    <3>3. Range(f) \subseteq Range(g)
      BY <2>2, <2>6, <2>7, <3>1, <3>2, SameEntries
    <3>4. Range(g) \subseteq Range(f)
      BY <2>2, <2>6, <2>7, <3>1, <3>2, SameEntries
    <3> QED  BY <2>2, <3>1, <3>3, <3>4
  <2>9. CASE tracker.status = "completed"
    <3>1. EndedWell(Sent, n, tracker.output)
      BY <2>1, <2>9 DEF TraceInv, EndOK
    <3>2. /\ n - 1 \in 1..n /\ Sent[n - 1].type = "metadata" /\ Sent[n - 1].output = tracker.output
          /\ Sent[n].type = "run_end" /\ ~Has(Sent, n, "error")
      BY <2>2, <3>1 DEF EndedWell
    <3>3. Has(Sent, n, "metadata")
      BY <3>2 DEF Has
    <3>4. shown.status = "completed"
      BY <2>4, <3>2, <3>3 DEF Shown, StatusShown
    <3>5. \A k \in (n - 1) + 1..n : Sent[k].type \notin {"text_delta", "metadata"}
      <4>1. \A k \in (n - 1) + 1..n : k = n
        BY <2>2
      <4> QED  BY <3>2, <4>1
    <3>6. shown.output = tracker.output
      BY <2>4, <3>2, <3>5 DEF Shown, TextShown
    <3> QED  BY <2>2, <2>8, <2>9, <3>4, <3>6
  <2>10. CASE tracker.status # "completed"
    <3>1. EndedBadly(Sent, n) /\ tracker.status = "error" /\ tracker.output = Upto(texts)
      BY <2>1, <2>2, <2>10 DEF TraceInv, EndOK
    <3>2. shown.status = "error"
      BY <2>4, <3>1 DEF Shown, StatusShown, EndedBadly
    <3>3. PICK m \in Nat : shown.output = Upto(m) /\ LastText(Sent, n, m)
      BY <2>4, <3>1 DEF Shown, TextShown, EndedBadly
    <3>4. texts \in Nat /\ LastText(Sent, n, texts)
      BY <2>1 DEF TraceInv, SentOK, Faithful
    <3>5. m = texts
      BY <2>2, <3>3, <3>4, OneLastText
    <3> QED  BY <2>2, <2>8, <3>1, <3>2, <3>3, <3>5
  <2> QED  BY <2>9, <2>10
<1> QED  BY <1>1, TraceInvariant, PTL

\* No call of a completed run is shown as running for ever.
THEOREM CompletedRunsHaveSettled == TraceSpec => []CompletedCallsSettled
<1>1. TraceInv => CompletedCallsSettled
  <2>1. SUFFICES ASSUME TraceInv, Followed, tracker.status = "completed", NEW i \in DOMAIN shown.calls
                 PROVE  shown.calls[i].status # "running"
    BY DEF CompletedCallsSettled
  <2> DEFINE n == Len(Sent)
  <2>2. /\ agent = "stored" /\ seen = Len(bus) /\ queue = <<>> /\ Sent = bus
        /\ n \in Nat /\ n > 1 /\ open = {}
    BY <2>1, NothingQueued DEF TraceInv, Followed, EndOK, EndedWell, SentOK, Sent
  <2>3. CallsShown(shown.calls, Sent, n)
    BY <2>1, <2>2 DEF TraceInv, ClientOK, Shown
  <2>4. shown.calls[i].id \in Calls /\ Announced(Sent, n, shown.calls[i].id)
    BY <2>3, EntryFields DEF CallsShown
  <2>5. PICK ok \in BOOLEAN : SettledBy(Sent, n, shown.calls[i].id, ok)
    BY <2>1, <2>2, <2>4, CallsAreOver
  <2>6. shown.calls[i].status = Outcome(ok)
    BY <2>3, <2>5 DEF CallsShown
  <2> QED  BY <2>6, EntryFields
<1> QED  BY <1>1, TraceInvariant, PTL
==============================================================================
