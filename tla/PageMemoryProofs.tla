-------------------------- MODULE PageMemoryProofs --------------------------
(***************************************************************************)
(* What is remembered of a page is never ahead of it, for any number of    *)
(* runs, pages, tabs, queries and counted actions.  Both results rest on   *)
(* the same two facts: the counters of a page that stays open only grow,   *)
(* and a page that was closed never comes back.                            *)
(***************************************************************************)
EXTENDS PageMemory, SequenceTheorems, TLAPS

Found == [page : PageOrNone, url : Urls, nav : Nat, rev : Nat,
          query : Queries \cup {NoQuery}, gave : BOOLEAN]
Reading == [page : PageOrNone, nav : Nat, rev : Nat, changed : BOOLEAN]
Reference == [page : Pages, url : Urls, run : Runs,
              query : Queries \cup {NoQuery}, same : BOOLEAN]
Memory == [finds : SUBSET Found, read : Reading, form : Reading]
Call == [at : {"idle", "find", "read", "form", "act", "filter", "navigate",
               "extract"},
         page : PageOrNone, query : Queries \cup {NoQuery}, keys : Reading]

PageType == [Pages -> [url : Urls, nav : Nat, rev : Nat]]

\* The types, without the bounds on counters and tabs; every page that is
\* open, or spoken of, has been opened.
Types ==
  /\ tabs \in Seq(Pages) /\ \A i \in DOMAIN tabs : tabs[i] <= born
  /\ active \in Nat /\ (tabs # <<>> => active \in DOMAIN tabs)
  /\ page \in PageType
  /\ born \in PageOrNone
  /\ refs \subseteq Reference /\ \A f \in refs : f.page <= born
  /\ memo \in [Runs -> Memory]
  /\ call \in [Runs -> Call]

\* The readings a run has, or is about to remember.
Readings(r) == {memo[r].read, memo[r].form, call[r].keys}

\* A reading of a page that is still open is not ahead of its counters, and
\* behind them if a tool has changed the page since.
Behind(k) ==
  /\ k.page <= born
  /\ k.page # 0 /\ IsOpen(k.page) =>
       /\ k.nav <= page[k.page].nav /\ k.rev <= page[k.page].rev
       /\ k.changed => k.nav < page[k.page].nav \/ k.rev < page[k.page].rev
ReadingsBehind == \A r \in Runs : \A k \in Readings(r) : Behind(k)

\* An answer that gave references to a page, which is open and has not been
\* navigated since, still has one.
Backed(r, a) ==
  /\ a.page <= born
  /\ a.gave /\ a.page # 0 /\ IsOpen(a.page) =>
       /\ a.nav <= page[a.page].nav
       /\ a.nav = page[a.page].nav =>
            \E f \in refs : f.run = r /\ f.page = a.page /\ f.query = a.query
AnswersBacked == \A r \in Runs : \A a \in memo[r].finds : Backed(r, a)

\* What every step does to the pages that have been opened.
Grows ==
  /\ born <= born'
  /\ \A p \in Pages : p <= born /\ IsOpen(p)' =>
       /\ IsOpen(p)
       /\ page[p].nav <= page'[p].nav /\ page[p].rev <= page'[p].rev

\* The history fields heed what the tools report, and nothing else.
OnlyReported == Strict \cap {"tab", "filter", "failed"} = {}

\* Where the readings after a step come from; t is the page that a tool has
\* changed in it, if any.
ReadingsFrom(t) ==
  /\ t # 0 => page[t].rev < page'[t].rev
  /\ \A r \in Runs : \A k \in Readings(r)' :
       \/ k = NoRead
       \/ \E m \in Readings(r) : k = m \/ k = Outdated(m, t)
       \/ Active # 0 /\ k = Keys(Active) /\ UNCHANGED <<tabs, page, born>>

\* Where the answers come from, and what becomes of the references.
Given(r, a) ==
  /\ a.page <= born
  /\ a.gave => /\ a.nav = page'[a.page].nav
               /\ \E f \in refs' : f.run = r /\ f.page = a.page /\ f.query = a.query
AnswersFrom ==
  \A r \in Runs :
    /\ \A a \in memo'[r].finds : a \in memo[r].finds \/ Given(r, a)
    /\ memo'[r].finds # {} =>
         \A f \in refs : f.run = r /\ IsOpen(f.page)' =>
           \/ page[f.page].nav < page'[f.page].nav
           \/ \E g \in refs' : g.run = r /\ g.page = f.page /\ g.query = f.query

Sound == /\ Types' /\ Grows /\ AnswersFrom
         /\ OnlyReported => \E t \in PageOrNone : ReadingsFrom(t)

-----------------------------------------------------------------------------
(* Tabs                                                                    *)

LEMMA ActiveIsOpen ==
  ASSUME Types
  PROVE  /\ Active \in PageOrNone
         /\ Active # 0 => Active \in Pages /\ IsOpen(Active) /\ Active <= born
<1>1. CASE tabs = <<>>
  BY <1>1, PageMemoryAssumption
     DEF Active, PageOrNone, PageMemoryAssumption
<1>2. CASE tabs # <<>>
  <2>1. active \in DOMAIN tabs /\ Active = tabs[active] /\ DOMAIN tabs = 1..Len(tabs)
    BY <1>2 DEF Types, Active
  <2>2. tabs[active] \in Pages /\ tabs[active] <= born
    BY <2>1 DEF Types
  <2>. QED  BY <2>1, <2>2, PageMemoryAssumption
            DEF IsOpen, Pages, PageOrNone, PageMemoryAssumption
<1>. QED  BY <1>1, <1>2

\* Opening a tab: the page is new, the others keep their places.
LEMMA TabAdded ==
  ASSUME Types, born < MaxPages, tabs' = Append(tabs, born + 1),
         born' = born + 1
  PROVE  /\ tabs' \in Seq(Pages) /\ DOMAIN tabs \subseteq DOMAIN tabs'
         /\ \A i \in DOMAIN tabs' : tabs'[i] <= born'
         /\ \A p \in Pages : p <= born /\ IsOpen(p)' => IsOpen(p)
         /\ born' \in Pages
<1>1. born + 1 \in Pages
  BY PageMemoryAssumption DEF Types, Pages, PageOrNone, PageMemoryAssumption
<1>2. /\ tabs' \in Seq(Pages) /\ DOMAIN tabs' = 1..Len(tabs) + 1
      /\ DOMAIN tabs = 1..Len(tabs)
      /\ \A i \in 1..Len(tabs) : tabs'[i] = tabs[i]
      /\ tabs'[Len(tabs) + 1] = born + 1
  BY <1>1 DEF Types
<1>3. Len(tabs) \in Nat /\ born \in Nat
  BY PageMemoryAssumption DEF Types, PageOrNone, PageMemoryAssumption
<1>4. ASSUME NEW i \in DOMAIN tabs'
      PROVE  \/ i \in DOMAIN tabs /\ tabs'[i] = tabs[i]
             \/ tabs'[i] = born + 1
  BY <1>2, <1>3
<1>5. \A i \in DOMAIN tabs' : tabs'[i] <= born'
  <2>. TAKE i \in DOMAIN tabs'
  <2>1. CASE i \in DOMAIN tabs /\ tabs'[i] = tabs[i]
    <3>1. tabs[i] <= born /\ tabs[i] \in Pages
      BY <2>1, <1>2 DEF Types
    <3>. QED  BY <3>1, <2>1, <1>3 DEF Pages
  <2>. QED  BY <2>1, <1>3, <1>4
<1>6. ASSUME NEW p \in Pages, p <= born, IsOpen(p)'
      PROVE  IsOpen(p)
  <2>1. PICK i \in DOMAIN tabs' : tabs'[i] = p
    BY <1>6 DEF IsOpen
  <2>2. p # born + 1
    BY <1>3, <1>6 DEF Pages
  <2>. QED  BY <2>1, <2>2, <1>4 DEF IsOpen
<1>. QED  BY <1>1, <1>2, <1>3, <1>5, <1>6

\* Closing one: what remains was there before.
LEMMA TabRemoved ==
  ASSUME Types, NEW i \in 2..Len(tabs), tabs' = RemoveAt(tabs, i),
         active' = Clipped(active, Len(tabs) - 1)
  PROVE  /\ tabs' \in Seq(Pages) /\ active' \in DOMAIN tabs' /\ active' \in Nat
         /\ \A j \in DOMAIN tabs' : \E n \in DOMAIN tabs : tabs'[j] = tabs[n]
<1>. DEFINE L == Len(tabs)
            a == SubSeq(tabs, 1, i - 1)
            b == SubSeq(tabs, i + 1, L)
<1>1. L \in Nat /\ tabs \in Seq(Pages) /\ i \in 2..L /\ DOMAIN tabs = 1..L
  BY DEF Types
<1>2. /\ a \in Seq(Pages) /\ Len(a) = i - 1
      /\ \A n \in 1..(i - 1) : a[n] = tabs[n]
  <2>1. \A n \in 1..(i - 1) : tabs[n] \in Pages
    BY <1>1
  <2>. HIDE DEF a
  <2>2. /\ a \in Seq(Pages) /\ Len(a) = IF 1 <= i - 1 THEN i - 1 - 1 + 1 ELSE 0
        /\ \A n \in 1..(i - 1 - 1 + 1) : a[n] = tabs[1 + n - 1]
    BY <2>1, <1>1, SubSeqProperties DEF a
  <2>. QED  BY <2>2, <1>1
<1>3. /\ b \in Seq(Pages) /\ Len(b) = L - i
      /\ \A n \in 1..(L - i) : b[n] = tabs[i + n]
  <2>1. \A n \in (i + 1)..L : tabs[n] \in Pages
    BY <1>1
  <2>. HIDE DEF b
  <2>2. /\ b \in Seq(Pages) /\ Len(b) = IF i + 1 <= L THEN L - (i + 1) + 1 ELSE 0
        /\ \A n \in 1..(L - (i + 1) + 1) : b[n] = tabs[(i + 1) + n - 1]
    BY <2>1, <1>1, SubSeqProperties DEF b
  <2>3. \A n \in 1..(L - i) : n \in 1..(L - (i + 1) + 1) /\ (i + 1) + n - 1 = i + n
    BY <1>1
  <2>4. Len(b) = L - i
    <3>1. Len(b) = IF i + 1 <= L THEN L - (i + 1) + 1 ELSE 0
      BY <2>2
    <3>2. L \in Nat /\ i \in 2..L
      BY <1>1
    <3>. HIDE DEF L
    <3>. QED  BY <3>1, <3>2
  <2>5. ASSUME NEW n \in 1..(L - i)  PROVE b[n] = tabs[i + n]
    <3>1. b[n] = tabs[(i + 1) + n - 1]
      BY <2>2, <2>3, Zenon
    <3>. QED  BY <3>1, <2>3
  <2>. QED  BY <2>2, <2>4, <2>5
<1>4. tabs' = a \o b
  BY DEF RemoveAt
<1>5. /\ tabs' \in Seq(Pages) /\ Len(tabs') = L - 1 /\ DOMAIN tabs' = 1..(L - 1)
      /\ \A n \in 1..(i - 1) : tabs'[n] = tabs[n]
      /\ \A n \in 1..(L - i) : tabs'[i - 1 + n] = tabs[i + n]
  <2>. HIDE DEF a, b
  <2>1. /\ tabs' \in Seq(Pages) /\ Len(tabs') = L - 1
        /\ \A n \in 1..(L - 1) : tabs'[n] = IF n <= i - 1 THEN a[n] ELSE b[n - (i - 1)]
    <3>1. /\ tabs' \in Seq(Pages) /\ Len(tabs') = Len(a) + Len(b)
          /\ \A n \in 1..(Len(a) + Len(b)) :
               tabs'[n] = IF n <= Len(a) THEN a[n] ELSE b[n - Len(a)]
      <4>1. a \in Seq(Pages) /\ b \in Seq(Pages)
        BY <1>2, <1>3
      <4>. QED  BY <4>1, <1>4, ConcatProperties, ZenonT(30)
    <3>2. Len(a) + Len(b) = L - 1
      BY <1>1, <1>2, <1>3
    <3>. QED  BY <3>1, <3>2, <1>2
  <2>2. DOMAIN tabs' = 1..(L - 1)
    BY <2>1, <1>1
  <2>3. ASSUME NEW n \in 1..(i - 1)  PROVE tabs'[n] = tabs[n]
    <3>1. n \in 1..(L - 1) /\ n <= i - 1
      BY <1>1
    <3>2. tabs'[n] = a[n]
      BY <3>1, <2>1
    <3>. QED  BY <3>2, <1>2
  <2>4. ASSUME NEW n \in 1..(L - i)  PROVE tabs'[i - 1 + n] = tabs[i + n]
    <3>1. i - 1 + n \in 1..(L - 1) /\ ~(i - 1 + n <= i - 1) /\ i - 1 + n - (i - 1) = n
      BY <1>1
    <3>2. tabs'[i - 1 + n] = b[i - 1 + n - (i - 1)]
      BY <3>1, <2>1
    <3>. QED  BY <3>1, <3>2, <1>3
  <2>. QED  BY <2>1, <2>2, <2>3, <2>4
<1>6. ASSUME NEW j \in DOMAIN tabs'
      PROVE  \E n \in DOMAIN tabs : tabs'[j] = tabs[n]
  <2>1. CASE j <= i - 1
    BY <2>1, <1>1, <1>5
  <2>2. CASE j > i - 1
    <3>1. j - (i - 1) \in 1..(L - i) /\ j + 1 \in 1..L
      BY <2>2, <1>1, <1>5
    <3>2. tabs'[i - 1 + (j - (i - 1))] = tabs[i + (j - (i - 1))]
      BY <3>1, <1>5
    <3>3. j \in Nat /\ i \in Nat
      BY <1>1, <1>5
    <3>4. i - 1 + (j - (i - 1)) = j /\ i + (j - (i - 1)) = j + 1
      BY <3>3
    <3>. QED  BY <3>1, <3>2, <3>4, <1>1
  <2>. QED  BY <2>1, <2>2, <1>1, <1>5
<1>7. active \in 1..L /\ active' \in 1..(L - 1)
  BY <1>1 DEF Types, Clipped
<1>. QED  BY <1>1, <1>5, <1>6, <1>7

-----------------------------------------------------------------------------
(* Readings, references and counters                                       *)

LEMMA Outdating ==
  ASSUME NEW k \in Reading, NEW p
  PROVE  /\ Outdated(k, p) \in Reading
         /\ Outdated(k, p) = [page |-> k.page, nav |-> k.nav, rev |-> k.rev,
                              changed |-> k.changed \/ k.page = p]
<1>. DEFINE c == k.changed \/ k.page = p
<1>1. Outdated(k, p) = [k EXCEPT !.changed = c] /\ c \in BOOLEAN
  BY Zenon DEF Outdated
<1>. HIDE DEF c
<1>2. Outdated(k, p) = [page |-> k.page, nav |-> k.nav, rev |-> k.rev, changed |-> c]
  BY <1>1 DEF Reading
<1>3. Outdated(k, p) \in Reading
  BY <1>1, <1>2 DEF Reading
<1>. QED  BY <1>2, <1>3, Zenon DEF c

LEMMA NoReadIsReading == NoRead \in Reading
BY PageMemoryAssumption DEF NoRead, Reading, PageOrNone, PageMemoryAssumption

LEMMA KeysAreReading ==
  ASSUME Types, NEW a \in Pages
  PROVE  /\ Keys(a) \in Reading
         /\ Keys(a) = [page |-> a, nav |-> page[a].nav, rev |-> page[a].rev,
                       changed |-> FALSE]
BY PageMemoryAssumption
   DEF Types, PageType, Keys, Reading, Pages, PageOrNone, PageMemoryAssumption

\* Rendering elements anew takes no reference away.
LEMMA Disturbing ==
  ASSUME NEW R \in SUBSET Reference, refs = R, NEW p
  PROVE  /\ Disturbed(p) \subseteq Reference
         /\ \A f \in refs : \E g \in Disturbed(p) :
              g.run = f.run /\ g.page = f.page /\ g.query = f.query
         /\ \A g \in Disturbed(p) : \E f \in refs :
              g.run = f.run /\ g.page = f.page /\ g.query = f.query
<1>. DEFINE d(f) == [f EXCEPT !.same = @ /\ ~("stale" \in Strict /\ f.page = p)]
<1>1. ASSUME NEW f \in refs
      PROVE  /\ d(f) \in Reference
             /\ d(f).run = f.run /\ d(f).page = f.page /\ d(f).query = f.query
  BY <1>1 DEF Reference
<1>2. Disturbed(p) = {d(f) : f \in refs}
  BY DEF Disturbed
<1>. HIDE DEF d
<1>. QED  BY <1>1, <1>2

LEMMA TouchingMemory ==
  ASSUME Types, NEW p
  PROVE  /\ MemoTouched(p) \in [Runs -> Memory]
         /\ \A r \in Runs : MemoTouched(p)[r] =
              [finds |-> memo[r].finds, read |-> Outdated(memo[r].read, p),
               form |-> Outdated(memo[r].form, p)]
<1>1. \A r \in Runs : memo[r] \in Memory
  BY DEF Types
<1>2. \A r \in Runs : /\ memo[r].finds \in SUBSET Found
                       /\ memo[r].read \in Reading /\ memo[r].form \in Reading
  BY <1>1 DEF Memory
<1>3. \A r \in Runs : MemoTouched(p)[r] =
        [finds |-> memo[r].finds, read |-> Outdated(memo[r].read, p),
         form |-> Outdated(memo[r].form, p)]
  BY <1>1 DEF MemoTouched, Memory
<1>4. ASSUME NEW r \in Runs  PROVE MemoTouched(p)[r] \in Memory
  <2>1. Outdated(memo[r].read, p) \in Reading /\ Outdated(memo[r].form, p) \in Reading
    BY <1>2, Outdating
  <2>2. memo[r].finds \in SUBSET Found
    BY <1>2
  <2>3. MemoTouched(p)[r] = [finds |-> memo[r].finds, read |-> Outdated(memo[r].read, p),
                             form |-> Outdated(memo[r].form, p)]
    BY <1>3
  <2>. QED  BY <2>1, <2>2, <2>3 DEF Memory
<1>. DEFINE t(r) == [memo[r] EXCEPT !.read = Outdated(@, p), !.form = Outdated(@, p)]
<1>5. MemoTouched(p) = [r \in Runs |-> t(r)]
  BY DEF MemoTouched
<1>. HIDE DEF t
<1>. QED  BY <1>3, <1>4, <1>5

LEMMA TouchingCalls ==
  ASSUME Types, NEW p, NEW s \in Runs
  PROVE  /\ [CallsTouched(p) EXCEPT ![s] = Idle] \in [Runs -> Call]
         /\ \A r \in Runs : [CallsTouched(p) EXCEPT ![s] = Idle][r].keys \in
              {NoRead, Outdated(call[r].keys, p)}
<1>1. \A r \in Runs : call[r] \in Call
  BY DEF Types
<1>2. Idle \in Call /\ Idle.keys = NoRead
  BY PageMemoryAssumption, NoReadIsReading
     DEF Idle, Call, PageOrNone, PageMemoryAssumption
<1>3. ASSUME NEW r \in Runs
      PROVE  /\ CallsTouched(p)[r] \in Call
             /\ CallsTouched(p)[r].keys = Outdated(call[r].keys, p)
  <2>1. Outdated(call[r].keys, p) \in Reading
    BY <1>1, Outdating DEF Call
  <2>2. CallsTouched(p)[r] = [call[r] EXCEPT !.keys = Outdated(@, p)]
    BY DEF CallsTouched
  <2>. QED  BY <2>1, <2>2, <1>1 DEF Call
<1>4. CallsTouched(p) \in [Runs -> Call]
  BY <1>3 DEF CallsTouched
<1>. HIDE DEF CallsTouched
<1>. QED  BY <1>2, <1>3, <1>4

LEMMA Counting ==
  ASSUME NEW pg \in PageType, NEW a \in Pages
  PROVE  /\ ActionRecorded(pg, a) \in PageType
         /\ ActionRecorded(pg, a)[a].rev = pg[a].rev + 1
         /\ NavigationRecorded(pg, a) \in PageType
         /\ NavigationRecorded(pg, a)[a].nav = pg[a].nav + 1
         /\ \A p \in Pages : /\ ActionRecorded(pg, a)[p].nav = pg[p].nav
                            /\ pg[p].rev <= ActionRecorded(pg, a)[p].rev
                            /\ NavigationRecorded(pg, a)[p].rev = pg[p].rev
                            /\ pg[p].nav <= NavigationRecorded(pg, a)[p].nav
<1>1. a # 0
  BY DEF Pages
<1>. QED  BY <1>1 DEF ActionRecorded, NavigationRecorded, PageType

\* Moving a page counts nothing.
LEMMA Moving ==
  ASSUME NEW pg \in PageType, NEW p, NEW u \in Urls,
         NEW new, new = [pg EXCEPT ![p].url = u]
  PROVE  /\ new \in PageType
         /\ \A q \in Pages : new[q].nav = pg[q].nav /\ new[q].rev = pg[q].rev
BY DEF PageType

-----------------------------------------------------------------------------
(* Every step is sound                                                     *)

LEMMA ZeroIsNone == 0 \in PageOrNone /\ Pages \subseteq PageOrNone /\ 0 \notin Pages
BY PageMemoryAssumption DEF PageOrNone, Pages, PageMemoryAssumption

\* What need be said of a step that leaves the memory alone.
LEMMA MemoryKept ==
  ASSUME UNCHANGED <<memo, call>>
  PROVE  /\ \E t \in PageOrNone : ReadingsFrom(t)
         /\ (\A f \in refs : IsOpen(f.page)' =>
              \E g \in refs' : g.run = f.run /\ g.page = f.page /\ g.query = f.query)
            => AnswersFrom
<1>1. \A r \in Runs : Readings(r)' = Readings(r)
  BY DEF Readings
<1>2. ReadingsFrom(0)
  BY <1>1 DEF ReadingsFrom
<1>. QED  BY <1>2, ZeroIsNone DEF AnswersFrom

\* And of one that leaves the pages alone.
LEMMA PagesKept ==
  ASSUME Types, UNCHANGED <<tabs, page, born>>
  PROVE  Grows
<1>1. \A p \in Pages : page[p].nav \in Nat /\ page[p].rev \in Nat
  BY DEF Types, PageType
<1>2. born \in Nat
  BY PageMemoryAssumption DEF Types, PageOrNone, PageMemoryAssumption
<1>. QED  BY <1>1, <1>2 DEF Grows, IsOpen

LEMMA PageStepSound ==
  ASSUME Types, PageStep
  PROVE  Sound
<1>1. /\ born \in Nat /\ page \in PageType /\ refs \in SUBSET Reference
      /\ \A p \in Pages : page[p].nav \in Nat /\ page[p].rev \in Nat
  BY PageMemoryAssumption DEF Types, PageType, PageOrNone, PageMemoryAssumption
<1>2. Forgotten \in PageType
  BY <1>1 DEF Forgotten, PageType
<1>3. CASE Launch
  <2>1. /\ tabs = <<>> /\ born < MaxPages /\ born' = born + 1 /\ tabs' = <<born + 1>>
        /\ active' = 1 /\ refs' = {} /\ UNCHANGED <<memo, call>>
    BY <1>3 DEF Launch
  <2>2. PICK u \in Urls : page' = [Forgotten EXCEPT ![born + 1].url = u]
    BY <1>3 DEF Launch
  <2>3. page' \in PageType
    BY <1>2, <2>2, Moving
  <2>4. born + 1 \in Pages
    BY <1>1, <2>1, PageMemoryAssumption DEF Pages, PageMemoryAssumption
  <2>5. \A p \in Pages : ~(p <= born /\ IsOpen(p)')
    BY <1>1, <2>1 DEF IsOpen, Pages
  <2>6. Grows
    BY <1>1, <2>1, <2>5 DEF Grows
  <2>7. Types'
    BY <1>1, <2>1, <2>3, <2>4, ZeroIsNone DEF Types
  <2>8. \A f \in refs : ~IsOpen(f.page)'
    <3>1. \A i \in DOMAIN tabs' : tabs'[i] = born + 1
      BY <2>1
    <3>2. \A f \in refs : f.page \in Pages /\ f.page <= born
      BY DEF Types, Reference
    <3>. QED  BY <3>1, <3>2, <2>5 DEF IsOpen
  <2>. QED  BY <2>1, <2>6, <2>7, <2>8, MemoryKept DEF Sound
<1>4. CASE TabOpens
  <2>1. /\ tabs # <<>> /\ born < MaxPages /\ born' = born + 1
        /\ tabs' = Append(tabs, born + 1) /\ UNCHANGED <<active, page, refs, memo, call>>
    BY <1>4 DEF TabOpens
  <2>2. Grows
    BY <1>1, <2>1, TabAdded DEF Grows
  <2>3. \A f \in refs : f.page <= born'
    BY <1>1, <2>1 DEF Types, Reference, Pages
  <2>4. Types'
    BY <1>1, <2>1, <2>3, TabAdded, ZeroIsNone DEF Types
  <2>. QED  BY <2>1, <2>2, <2>4, MemoryKept DEF Sound
<1>5. CASE BrowserGone
  <2>1. /\ tabs' = <<>> /\ active' = 0 /\ page' = Forgotten /\ refs' = {}
        /\ UNCHANGED <<born, memo, call>>
    BY <1>5 DEF BrowserGone
  <2>2. \A p : ~IsOpen(p)'
    BY <2>1 DEF IsOpen
  <2>3. Grows
    BY <1>1, <2>1, <2>2 DEF Grows
  <2>4. Types'
    BY <1>2, <2>1 DEF Types
  <2>. QED  BY <2>1, <2>2, <2>3, <2>4, MemoryKept DEF Sound
<1>6. ASSUME NEW i \in DOMAIN tabs, TabCloses(i)  PROVE Sound
  <2>1. /\ i \in 2..Len(tabs) /\ tabs' = RemoveAt(tabs, i)
        /\ active' = Clipped(active, Len(tabs) - 1)
        /\ UNCHANGED <<page, born, refs, memo, call>>
    BY <1>6 DEF TabCloses
  <2>2. \A p \in Pages : IsOpen(p)' => IsOpen(p)
    BY <2>1, TabRemoved DEF IsOpen
  <2>3. Grows
    BY <1>1, <2>1, <2>2 DEF Grows
  <2>4. \A j \in DOMAIN tabs' : tabs'[j] <= born'
    BY <2>1, TabRemoved DEF Types
  <2>5. Types'
    BY <2>1, <2>4, TabRemoved DEF Types
  <2>. QED  BY <2>1, <2>3, <2>5, MemoryKept DEF Sound
<1>7. ASSUME NEW p \in Pages, PageChanges(p)  PROVE Sound
  <2>1. /\ refs' = Disturbed(p) /\ UNCHANGED <<tabs, active, born, memo, call>>
    BY <1>7 DEF PageChanges
  <2>2. PICK u \in Urls : page' = [page EXCEPT ![p].url = u]
    BY <1>7 DEF PageChanges
  <2>3. /\ page' \in PageType
        /\ \A q \in Pages : page'[q].nav = page[q].nav /\ page'[q].rev = page[q].rev
    BY <1>1, <2>2 DEF PageType
  <2>4. Grows
    BY <1>1, <2>1, <2>3 DEF Grows, IsOpen
  <2>5. /\ refs' \subseteq Reference /\ \A g \in refs' : g.page <= born
        /\ \A f \in refs : \E g \in refs' :
             g.run = f.run /\ g.page = f.page /\ g.query = f.query
    BY <1>1, <2>1, Disturbing DEF Types
  <2>6. Types'
    BY <2>1, <2>3, <2>5 DEF Types
  <2>. QED  BY <2>1, <2>4, <2>5, <2>6, MemoryKept DEF Sound
<1>. QED  BY <1>3, <1>4, <1>5, <1>6, <1>7 DEF PageStep

\* What a call is when it begins.
LEMMA Beginning ==
  ASSUME Types, NEW p \in PageOrNone, NEW c,
         NEW at \in {"idle", "find", "read", "form", "act", "navigate", "extract"},
         \/ c = Idle
         \/ \E q \in Queries : c = [Idle EXCEPT !.at = at, !.page = p, !.query = q]
         \/ c = [Idle EXCEPT !.at = at, !.page = p]
         \/ /\ Active # 0
            /\ c = [Idle EXCEPT !.at = at, !.page = p, !.keys = Keys(Active)]
  PROVE  /\ c \in Call
         /\ c.keys = NoRead \/ (Active # 0 /\ c.keys = Keys(Active))
<1>1. NoRead \in Reading /\ 0 \in PageOrNone
  BY NoReadIsReading, ZeroIsNone
<1>2. ASSUME c = Idle \/ c = [Idle EXCEPT !.at = at, !.page = p]
      PROVE  c \in Call /\ c.keys = NoRead
  <2>1. CASE c = Idle
    BY <1>1, <2>1 DEF Idle, Call
  <2>2. CASE c = [Idle EXCEPT !.at = at, !.page = p]
    BY <1>1, <2>2 DEF Idle, Call
  <2>. QED  BY <1>2, <2>1, <2>2
<1>3. ASSUME NEW q \in Queries, c = [Idle EXCEPT !.at = at, !.page = p, !.query = q]
      PROVE  c \in Call /\ c.keys = NoRead
  BY <1>1, <1>3 DEF Idle, Call
<1>4. ASSUME Active # 0,
             c = [Idle EXCEPT !.at = at, !.page = p, !.keys = Keys(Active)]
      PROVE  c \in Call /\ c.keys = Keys(Active)
  <2>1. PICK k \in Reading : k = Keys(Active)
    BY <1>4, ActiveIsOpen, KeysAreReading
  <2>2. c = [Idle EXCEPT !.at = at, !.page = p, !.keys = k]
    BY <1>4, <2>1, Zenon
  <2>3. c \in Call /\ c.keys = k
    BY <1>1, <2>2 DEF Idle, Call
  <2>. QED  BY <2>1, <2>3
<1>. QED  BY <1>2, <1>3, <1>4

\* A step that only changes what one run is calling, and renders elements anew.
LEMMA CallStepSound ==
  ASSUME Types, UNCHANGED <<tabs, active, page, born, memo>>,
         NEW r \in Runs, NEW c \in Call, call' = [call EXCEPT ![r] = c],
         c.keys = NoRead \/ (Active # 0 /\ c.keys = Keys(Active)),
         refs' = refs \/ \E p \in PageOrNone : refs' = Disturbed(p)
  PROVE  Sound
<1>1. Grows
  BY PagesKept
<1>. DEFINE Kept == /\ refs' \subseteq Reference /\ \A g \in refs' : g.page <= born
                    /\ \A f \in refs : \E g \in refs' :
                         g.run = f.run /\ g.page = f.page /\ g.query = f.query
<1>2. Kept
  <2>1. CASE refs' = refs
    BY <2>1 DEF Types
  <2>2. ASSUME NEW p \in PageOrNone, refs' = Disturbed(p)
        PROVE  Kept
    BY <2>2, Disturbing DEF Types
  <2>. QED  BY <2>1, <2>2
<1>3. call' \in [Runs -> Call]
  BY DEF Types
<1>4. Types'
  BY <1>2, <1>3 DEF Types
<1>5. AnswersFrom
  BY <1>2 DEF AnswersFrom
<1>6. ReadingsFrom(0)
  <2>. SUFFICES ASSUME NEW s \in Runs, NEW k \in Readings(s)'
                PROVE  \/ k = NoRead \/ k \in Readings(s)
                       \/ (Active # 0 /\ k = Keys(Active))
    BY DEF ReadingsFrom
  <2>1. call'[s].keys = IF s = r THEN c.keys ELSE call[s].keys
    BY DEF Types
  <2>. QED  BY <2>1 DEF Readings
<1>. QED  BY <1>1, <1>4, <1>5, <1>6, ZeroIsNone DEF Sound

\* What the outcome of a scan may be.
LEMMA Scans == \A scan \in ScanResults : scan.usable \in BOOLEAN /\ scan.strong \in BOOLEAN
<1>. DEFINE Usable(els) == {el \in els : Confirmed(el) = "usable"}
            some(els) == Usable(els) # {}
            sure(els) == \E el \in Usable(els) : el.strong
<1>1. \A els : some(els) \in BOOLEAN /\ sure(els) \in BOOLEAN
  BY Zenon
<1>2. \A scan \in ScanResults : \E els : scan = [usable |-> some(els), strong |-> sure(els)]
  BY Zenon DEF ScanResults
<1>. HIDE DEF some, sure
<1>. QED  BY <1>1, <1>2

LEMMA FindEndsSound ==
  ASSUME Types, NEW r \in Runs, FindEnds(r)
  PROVE  Sound
<1>. DEFINE p == call[r].page
            q == call[r].query
            known == {s \in Runs : memo[s].finds # {}}
            kept == IF Cardinality(known) > MaxRounds THEN {} ELSE memo[r].finds
<1>1. /\ IsOpen(p) /\ call' = [call EXCEPT ![r] = Idle]
      /\ UNCHANGED <<tabs, active, page, born>>
  BY DEF FindEnds
<1>2. PICK scan \in ScanResults :
        /\ refs' = IF scan.strong
                   THEN refs \cup {[page |-> p, url |-> page[p].url, run |-> r,
                                    query |-> q, same |-> TRUE]}
                   ELSE refs
        /\ memo' = [s \in Runs |->
             IF s = r /\ scan.usable
             THEN [memo[s] EXCEPT !.finds = kept \cup
                    {[page |-> Active, url |-> page[Active].url,
                      nav |-> page[Active].nav, rev |-> page[Active].rev,
                      query |-> q, gave |-> scan.strong /\ p = Active]}]
             ELSE IF Cardinality(known) > MaxRounds
                  THEN [memo[s] EXCEPT !.finds = {}] ELSE memo[s]]
  BY Zenon DEF FindEnds
<1>. DEFINE g == scan.strong /\ p = Active
            found == [page |-> Active, url |-> page[Active].url,
                      nav |-> page[Active].nav, rev |-> page[Active].rev,
                      query |-> q, gave |-> g]
            ref == [page |-> p, url |-> page[p].url, run |-> r,
                    query |-> q, same |-> TRUE]
<1>3. Active \in Pages /\ Active <= born
  <2>1. tabs # <<>>
    BY <1>1 DEF IsOpen
  <2>2. active \in DOMAIN tabs /\ Active = tabs[active]
    BY <2>1 DEF Types, Active
  <2>. QED  BY <2>2 DEF Types
<1>4. p \in Pages /\ p <= born
  BY <1>1 DEF IsOpen, Types
<1>5. /\ call[r] \in Call /\ q \in Queries \cup {NoQuery}
      /\ \A s \in Runs : memo[s] \in Memory
      /\ \A x \in Pages : page[x].url \in Urls /\ page[x].nav \in Nat /\ page[x].rev \in Nat
  BY DEF Types, Call, PageType
<1>6. g \in BOOLEAN
  BY Scans
<1>7. found \in Found
  <2>. HIDE DEF g, q
  <2>. QED  BY <1>3, <1>5, <1>6, ZeroIsNone DEF Found
<1>8. ref \in Reference
  BY <1>4, <1>5 DEF Reference
<1>9. ASSUME NEW s \in Runs
      PROVE  /\ memo'[s].read = memo[s].read /\ memo'[s].form = memo[s].form
             /\ memo'[s].finds \subseteq memo[s].finds \cup
                  (IF s = r /\ scan.usable THEN {found} ELSE {})
             /\ memo'[s] \in Memory
  <2>1. memo[s] \in Memory
    BY <1>5
  <2>2. CASE s = r /\ scan.usable
    <3>1. memo'[s] = [memo[s] EXCEPT !.finds = kept \cup {found}]
      BY <1>2, <2>2, Zenon
    <3>2. kept \subseteq memo[s].finds
      BY <2>2
    <3>. HIDE DEF kept, found
    <3>. QED  BY <2>1, <2>2, <3>1, <3>2, <1>7 DEF Memory
  <2>3. CASE ~(s = r /\ scan.usable)
    <3>1. memo'[s] = IF Cardinality(known) > MaxRounds
                     THEN [memo[s] EXCEPT !.finds = {}] ELSE memo[s]
      BY <1>2, <2>3, Zenon
    <3>. HIDE DEF known, found
    <3>. QED  BY <2>1, <2>3, <3>1 DEF Memory
  <2>. QED  BY <2>2, <2>3
<1>10. refs' = (IF scan.strong THEN refs \cup {ref} ELSE refs)
  BY <1>2
<1>11. memo' \in [Runs -> Memory]
  <2>. DEFINE t(s) == IF s = r /\ scan.usable THEN [memo[s] EXCEPT !.finds = kept \cup {found}]
                      ELSE IF Cardinality(known) > MaxRounds
                           THEN [memo[s] EXCEPT !.finds = {}] ELSE memo[s]
  <2>1. memo' = [s \in Runs |-> t(s)]
    BY <1>2
  <2>. HIDE DEF t
  <2>. QED  BY <1>9, <2>1
<1>. HIDE DEF found, ref, known, kept
<1>12. Types'
  <2>1. Idle \in Call
    BY PageMemoryAssumption, NoReadIsReading
       DEF Idle, Call, PageOrNone, PageMemoryAssumption
  <2>2. call' \in [Runs -> Call]
    BY <1>1, <2>1 DEF Types
  <2>3. refs' \subseteq Reference /\ \A f \in refs' : f.page <= born
    <3>1. ref.page <= born
      BY <1>4 DEF ref
    <3>. QED  BY <1>8, <1>10, <3>1 DEF Types
  <2>. QED  BY <1>1, <1>11, <2>2, <2>3 DEF Types
<1>13. Grows
  BY <1>1, PagesKept
<1>14. ReadingsFrom(0)
  <2>. SUFFICES ASSUME NEW s \in Runs, NEW k \in Readings(s)'
                PROVE  k = NoRead \/ k \in Readings(s)
    BY DEF ReadingsFrom
  <2>1. call'[s].keys \in {NoRead, call[s].keys}
    BY <1>1 DEF Types, Idle
  <2>. QED  BY <1>9, <2>1 DEF Readings
<1>15. AnswersFrom
  <2>1. ASSUME g  PROVE \E f \in refs' : f.run = r /\ f.page = Active /\ f.query = q
    <3>1. scan.strong /\ p = Active
      BY <2>1, Zenon
    <3>2. ref \in refs'
      BY <3>1, <1>10
    <3>3. ref.run = r /\ ref.page = Active /\ ref.query = q
      BY <3>1 DEF ref
    <3>. QED  BY <3>2, <3>3
  <2>2. Given(r, found)
    BY <1>1, <1>3, <2>1 DEF Given, found
  <2>3. \A s \in Runs : \A a \in memo'[s].finds : a \in memo[s].finds \/ Given(s, a)
    BY <1>9, <2>2
  <2>. QED  BY <1>10, <2>3 DEF AnswersFrom
<1>. QED  BY <1>12, <1>13, <1>14, <1>15, ZeroIsNone DEF Sound

LEMMA ReadingRemembered ==
  ASSUME Types, NEW r \in Runs, UNCHANGED <<tabs, active, page, born, refs>>,
         call' = [call EXCEPT ![r] = Idle],
         NEW k \in Reading, k \in Readings(r) \/ (Active # 0 /\ k = Keys(Active)),
         memo' = [memo EXCEPT ![r].read = k] \/ memo' = [memo EXCEPT ![r].form = k]
  PROVE  Sound
<1>2. /\ \A s \in Runs : memo[s] \in Memory /\ call[s] \in Call
      /\ memo \in [Runs -> Memory] /\ call \in [Runs -> Call]
  BY DEF Types
<1>3. Idle \in Call /\ Idle.keys = NoRead
  BY PageMemoryAssumption, NoReadIsReading
     DEF Idle, Call, PageOrNone, PageMemoryAssumption
<1>6. ASSUME NEW s \in Runs
      PROVE  /\ memo'[s] \in Memory /\ memo'[s].finds = memo[s].finds
             /\ memo'[s].read \in {memo[s].read} \cup (IF s = r THEN {k} ELSE {})
             /\ memo'[s].form \in {memo[s].form} \cup (IF s = r THEN {k} ELSE {})
  BY <1>2 DEF Memory
<1>7. Types'
  <2>1. memo' \in [Runs -> Memory]
    <3>1. CASE memo' = [memo EXCEPT ![r].read = k]
      BY <3>1, <1>2 DEF Memory
    <3>2. CASE memo' = [memo EXCEPT ![r].form = k]
      BY <3>2, <1>2 DEF Memory
    <3>. QED  BY <3>1, <3>2
  <2>. QED  BY <1>2, <1>3, <2>1 DEF Types
<1>8. AnswersFrom
  BY <1>6 DEF AnswersFrom
<1>9. ReadingsFrom(0)
  <2>. SUFFICES ASSUME NEW s \in Runs, NEW m \in Readings(s)'
                PROVE  \/ m = NoRead \/ m \in Readings(s)
                       \/ (Active # 0 /\ m = Keys(Active))
    BY DEF ReadingsFrom
  <2>1. call'[s].keys \in {NoRead, call[s].keys}
    BY <1>2, <1>3
  <2>. QED  BY <1>6, <2>1 DEF Readings
<1>. QED  BY <1>7, <1>8, <1>9, PagesKept, ZeroIsNone DEF Sound

\* What a tool touches, as far as the history fields go.
LEMMA Touched ==
  ASSUME Types, OnlyReported, NEW p \in Pages
  PROVE  /\ \A kind \in {"tab", "filter", "failed"} : TouchedBy(kind, p) = 0
         /\ TouchedByTool(p) \in {0, Active} /\ TouchedByTool(p) \in {0, p}
BY DEF OnlyReported, TouchedBy, TouchedByTool

\* Steps that outdate readings of page t and put run r back to idle, or leave
\* the calls as they are.
LEMMA TouchingReadings ==
  ASSUME Types, NEW t \in PageOrNone, memo' = MemoTouched(t),
         \/ \E r \in Runs : call' = [CallsTouched(t) EXCEPT ![r] = Idle]
         \/ call' = CallsTouched(t),
         t # 0 => page[t].rev < page'[t].rev
  PROVE  ReadingsFrom(t)
<1>. SUFFICES ASSUME NEW s \in Runs, NEW k \in Readings(s)'
              PROVE  k = NoRead \/ \E m \in Readings(s) : k = Outdated(m, t)
  BY DEF ReadingsFrom
<1>1. /\ memo'[s].read = Outdated(memo[s].read, t)
      /\ memo'[s].form = Outdated(memo[s].form, t)
  <2>1. MemoTouched(t)[s] = [finds |-> memo[s].finds, read |-> Outdated(memo[s].read, t),
                            form |-> Outdated(memo[s].form, t)]
    BY TouchingMemory
  <2>. QED  BY <2>1
<1>2. call'[s].keys \in {NoRead, Outdated(call[s].keys, t)}
  <2>1. CASE call' = CallsTouched(t)
    <3>1. call[s] \in Call /\ call'[s] = [call[s] EXCEPT !.keys = Outdated(@, t)]
      BY <2>1 DEF CallsTouched, Types
    <3>. QED  BY <3>1 DEF Call
  <2>2. ASSUME NEW r \in Runs, call' = [CallsTouched(t) EXCEPT ![r] = Idle]
        PROVE  call'[s].keys \in {NoRead, Outdated(call[s].keys, t)}
    BY <2>2, TouchingCalls
  <2>. QED  BY <2>1, <2>2
<1>. QED  BY <1>1, <1>2 DEF Readings

\* The same steps leave the answers, and take no reference away but those to a
\* page that has been navigated.
LEMMA TouchingAnswers ==
  ASSUME Types, NEW t, memo' = MemoTouched(t),
         \A f \in refs : IsOpen(f.page)' =>
           \/ page[f.page].nav < page'[f.page].nav
           \/ \E g \in refs' : g.run = f.run /\ g.page = f.page /\ g.query = f.query
  PROVE  AnswersFrom
<1>1. ASSUME NEW r \in Runs  PROVE memo'[r].finds = memo[r].finds
  <2>1. MemoTouched(t)[r] = [finds |-> memo[r].finds, read |-> Outdated(memo[r].read, t),
                            form |-> Outdated(memo[r].form, t)]
    BY TouchingMemory
  <2>. QED  BY <2>1
<1>. QED  BY <1>1 DEF AnswersFrom

LEMMA ActSucceedsSound ==
  ASSUME Types, NEW r \in Runs, ActSucceeds(r)
  PROVE  Sound
<1>. DEFINE p == call[r].page
            t == TouchedByTool(p)
<1>1. /\ IsOpen(p) /\ refs' = Disturbed(p) /\ memo' = MemoTouched(t)
      /\ call' = [CallsTouched(t) EXCEPT ![r] = Idle]
      /\ UNCHANGED <<tabs, active, born>>
  BY DEF ActSucceeds
<1>2. PICK u \in Urls : page' = ActionRecorded([page EXCEPT ![p].url = u], Active)
  BY DEF ActSucceeds
<1>3. Active \in Pages /\ p \in Pages
  BY <1>1 DEF IsOpen, Types, Active
<1>4. page \in PageType /\ refs \in SUBSET Reference
  BY DEF Types
<1>. DEFINE moved == [page EXCEPT ![p].url = u]
<1>5. /\ moved \in PageType
      /\ \A q \in Pages : moved[q].nav = page[q].nav /\ moved[q].rev = page[q].rev
  BY <1>4 DEF PageType
<1>. HIDE DEF moved
<1>6. /\ page' \in PageType /\ page'[Active].rev = page[Active].rev + 1
      /\ \A q \in Pages : page[q].nav <= page'[q].nav /\ page[q].rev <= page'[q].rev
  <2>1. page' = ActionRecorded(moved, Active)
    BY <1>2 DEF moved
  <2>2. \A q \in Pages : page[q].nav \in Nat /\ page[q].rev \in Nat
    BY <1>4 DEF PageType
  <2>3. /\ page' \in PageType /\ page'[Active].rev = moved[Active].rev + 1
        /\ \A q \in Pages : page'[q].nav = moved[q].nav /\ moved[q].rev <= page'[q].rev
    BY <1>3, <1>5, <2>1, Counting
  <2>. QED  BY <1>3, <1>5, <2>2, <2>3
<1>7. /\ refs' \subseteq Reference /\ \A g \in refs' : g.page <= born
      /\ \A f \in refs : \E g \in refs' :
           g.run = f.run /\ g.page = f.page /\ g.query = f.query
  BY <1>1, <1>4, Disturbing DEF Types
<1>8. Types'
  <2>1. memo' \in [Runs -> Memory] /\ call' \in [Runs -> Call]
    BY <1>1, TouchingMemory, TouchingCalls
  <2>. QED  BY <1>1, <1>6, <1>7, <2>1 DEF Types
<1>9. Grows
  <2>1. born \in Nat
    BY PageMemoryAssumption DEF Types, PageOrNone, PageMemoryAssumption
  <2>. QED  BY <1>1, <1>6, <2>1 DEF Grows, IsOpen
<1>10. AnswersFrom
  BY <1>1, <1>7, TouchingAnswers
<1>11. ASSUME OnlyReported  PROVE \E x \in PageOrNone : ReadingsFrom(x)
  <2>1. t \in {0, Active} /\ t \in PageOrNone
    BY <1>3, <1>11, Touched, ZeroIsNone
  <2>2. t # 0 => page[t].rev < page'[t].rev
    BY <1>3, <1>4, <1>6, <2>1 DEF PageType
  <2>. HIDE DEF t
  <2>3. ReadingsFrom(t)
    BY <1>1, <2>1, <2>2, TouchingReadings
  <2>. QED  BY <2>1, <2>3
<1>. QED  BY <1>8, <1>9, <1>10, <1>11 DEF Sound

LEMMA CallFailsSound ==
  ASSUME Types, NEW r \in Runs, CallFails(r)
  PROVE  Sound
<1>. DEFINE p == call[r].page
            acts == call[r].at \in {"act", "navigate"}
            t == IF acts THEN TouchedBy("failed", p) ELSE 0
<1>1. /\ refs' = (IF acts THEN Disturbed(p) ELSE refs) /\ memo' = MemoTouched(t)
      /\ call' = [CallsTouched(t) EXCEPT ![r] = Idle]
      /\ UNCHANGED <<tabs, active, page, born>>
  BY DEF CallFails
<1>2. refs \in SUBSET Reference
  BY DEF Types
<1>3. /\ refs' \subseteq Reference /\ \A g \in refs' : g.page <= born
      /\ \A f \in refs : \E g \in refs' :
           g.run = f.run /\ g.page = f.page /\ g.query = f.query
  <2>1. CASE acts
    BY <2>1, <1>1, <1>2, Disturbing DEF Types
  <2>2. CASE ~acts
    BY <2>2, <1>1 DEF Types
  <2>. QED  BY <2>1, <2>2
<1>4. Types'
  <2>1. memo' \in [Runs -> Memory] /\ call' \in [Runs -> Call]
    BY <1>1, TouchingMemory, TouchingCalls
  <2>. QED  BY <1>1, <1>3, <2>1 DEF Types
<1>5. AnswersFrom
  BY <1>1, <1>3, TouchingAnswers
<1>6. ASSUME OnlyReported  PROVE \E x \in PageOrNone : ReadingsFrom(x)
  <2>1. t = 0
    BY <1>6 DEF OnlyReported, TouchedBy
  <2>. HIDE DEF t
  <2>2. ReadingsFrom(0)
    BY <1>1, <2>1, ZeroIsNone, TouchingReadings
  <2>. QED  BY <2>2, ZeroIsNone
<1>. QED  BY <1>1, <1>4, <1>5, <1>6, PagesKept DEF Sound

LEMMA FilterSound ==
  ASSUME Types, NEW r \in Runs, Filter(r)
  PROVE  Sound
<1>. DEFINE t == TouchedBy("filter", Active)
<1>1. /\ refs' = Disturbed(Active) /\ memo' = MemoTouched(t)
      /\ call' = CallsTouched(t) /\ UNCHANGED <<tabs, active, page, born>>
  BY DEF Filter
<1>2. refs \in SUBSET Reference
  BY DEF Types
<1>3. /\ refs' \subseteq Reference /\ \A g \in refs' : g.page <= born
      /\ \A f \in refs : \E g \in refs' :
           g.run = f.run /\ g.page = f.page /\ g.query = f.query
  BY <1>1, <1>2, Disturbing DEF Types
<1>4. Types'
  <2>1. memo' \in [Runs -> Memory]
    BY <1>1, TouchingMemory
  <2>2. ASSUME NEW s \in Runs
        PROVE  [call[s] EXCEPT !.keys = Outdated(@, t)] \in Call
    <3>1. call[s] \in Call
      BY DEF Types
    <3>2. Outdated(call[s].keys, t) \in Reading
      BY <3>1, Outdating DEF Call
    <3>. QED  BY <3>1, <3>2 DEF Call
  <2>3. call' \in [Runs -> Call]
    <3>. DEFINE c(s) == [call[s] EXCEPT !.keys = Outdated(@, t)]
    <3>1. call' = [s \in Runs |-> c(s)]
      BY <1>1 DEF CallsTouched
    <3>2. \A s \in Runs : c(s) \in Call
      BY <2>2
    <3>. HIDE DEF c
    <3>. QED  BY <3>1, <3>2
  <2>. QED  BY <1>1, <1>3, <2>1, <2>3 DEF Types
<1>5. AnswersFrom
  BY <1>1, <1>3, TouchingAnswers
<1>6. ASSUME OnlyReported  PROVE \E x \in PageOrNone : ReadingsFrom(x)
  <2>1. t = 0
    BY <1>6 DEF OnlyReported, TouchedBy
  <2>. HIDE DEF t
  <2>2. ReadingsFrom(0)
    BY <1>1, <2>1, ZeroIsNone, TouchingReadings
  <2>. QED  BY <2>2, ZeroIsNone
<1>. QED  BY <1>1, <1>4, <1>5, <1>6, PagesKept DEF Sound

LEMMA NavigateEndsSound ==
  ASSUME Types, NEW r \in Runs, NavigateEnds(r)
  PROVE  Sound
<1>. DEFINE p == call[r].page
            t == TouchedByTool(p)
<1>1. /\ IsOpen(p) /\ refs' = {f \in Disturbed(p) : f.page # Active}
      /\ memo' = MemoTouched(t) /\ call' = [CallsTouched(t) EXCEPT ![r] = Idle]
      /\ UNCHANGED <<tabs, active, born>>
  BY DEF NavigateEnds
<1>2. PICK u \in Urls :
        page' = ActionRecorded(NavigationRecorded(
                  [page EXCEPT ![p].url = u], Active), Active)
  BY DEF NavigateEnds
<1>3. Active \in Pages /\ p \in Pages
  BY <1>1 DEF IsOpen, Types, Active
<1>4. /\ page \in PageType /\ refs \in SUBSET Reference
      /\ \A q \in Pages : page[q].nav \in Nat /\ page[q].rev \in Nat
  BY DEF Types, PageType
<1>. DEFINE moved == [page EXCEPT ![p].url = u]
            there == NavigationRecorded(moved, Active)
<1>5. /\ moved \in PageType
      /\ \A q \in Pages : moved[q].nav = page[q].nav /\ moved[q].rev = page[q].rev
  BY <1>4 DEF PageType
<1>. HIDE DEF moved
<1>6. /\ there \in PageType /\ there[Active].nav = moved[Active].nav + 1
      /\ \A q \in Pages : there[q].rev = moved[q].rev /\ moved[q].nav <= there[q].nav
  BY <1>3, <1>5, Counting
<1>. HIDE DEF there
<1>7. /\ page' \in PageType /\ page'[Active].rev = there[Active].rev + 1
      /\ \A q \in Pages : page'[q].nav = there[q].nav /\ there[q].rev <= page'[q].rev
  BY <1>2, <1>3, <1>6, Counting DEF moved, there
<1>8. /\ page'[Active].nav = page[Active].nav + 1
      /\ page'[Active].rev = page[Active].rev + 1
      /\ \A q \in Pages : page[q].nav <= page'[q].nav /\ page[q].rev <= page'[q].rev
  BY <1>3, <1>4, <1>5, <1>6, <1>7
<1>9. /\ refs' \subseteq Reference /\ \A g \in refs' : g.page <= born
      /\ \A f \in refs : f.page # Active => \E g \in refs' :
           g.run = f.run /\ g.page = f.page /\ g.query = f.query
  BY <1>1, <1>4, Disturbing DEF Types
<1>10. Types'
  <2>1. memo' \in [Runs -> Memory] /\ call' \in [Runs -> Call]
    BY <1>1, TouchingMemory, TouchingCalls
  <2>. QED  BY <1>1, <1>7, <1>9, <2>1 DEF Types
<1>11. Grows
  <2>1. born \in Nat
    BY PageMemoryAssumption DEF Types, PageOrNone, PageMemoryAssumption
  <2>. QED  BY <1>1, <1>8, <2>1 DEF Grows, IsOpen
<1>12. AnswersFrom
  <2>1. page[Active].nav < page'[Active].nav
    BY <1>3, <1>4, <1>8
  <2>. QED  BY <1>1, <1>9, <2>1, TouchingAnswers
<1>13. ASSUME OnlyReported  PROVE \E x \in PageOrNone : ReadingsFrom(x)
  <2>1. t \in {0, Active} /\ t \in PageOrNone
    BY <1>3, <1>13, Touched, ZeroIsNone
  <2>2. t # 0 => page[t].rev < page'[t].rev
    BY <1>3, <1>4, <1>8, <2>1
  <2>. HIDE DEF t
  <2>3. ReadingsFrom(t)
    BY <1>1, <2>1, <2>2, TouchingReadings
  <2>. QED  BY <2>1, <2>3
<1>. QED  BY <1>10, <1>11, <1>12, <1>13 DEF Sound

LEMMA RunEndsSound ==
  ASSUME Types, NEW r \in Runs, RunEnds(r)
  PROVE  Sound
<1>1. /\ memo' = [memo EXCEPT ![r] = NoMemo] /\ refs' = {f \in refs : f.run # r}
      /\ UNCHANGED <<tabs, active, page, born, call>>
  BY DEF RunEnds
<1>2. NoMemo \in Memory /\ NoMemo.finds = {} /\ NoMemo.read = NoRead /\ NoMemo.form = NoRead
  BY NoReadIsReading DEF NoMemo, Memory
<1>3. \A s \in Runs : memo'[s] = IF s = r THEN NoMemo ELSE memo[s]
  BY <1>1 DEF Types
<1>4. Types'
  BY <1>1, <1>2 DEF Types
<1>5. AnswersFrom
  BY <1>1, <1>2, <1>3 DEF AnswersFrom
<1>6. ReadingsFrom(0)
  <2>. SUFFICES ASSUME NEW s \in Runs, NEW k \in Readings(s)'
                PROVE  k = NoRead \/ k \in Readings(s)
    BY DEF ReadingsFrom
  <2>. QED  BY <1>1, <1>2, <1>3 DEF Readings
<1>. QED  BY <1>1, <1>4, <1>5, <1>6, PagesKept, ZeroIsNone DEF Sound

LEMMA RunStepSound ==
  ASSUME Types, NEW r \in Runs, RunStep(r)
  PROVE  Sound
<1>1. /\ Active \in PageOrNone
      /\ Active # 0 => Active \in Pages
      /\ call[r] \in Call /\ call \in [Runs -> Call]
      /\ call[r].page \in PageOrNone
  BY ActiveIsOpen DEF Types, Call
<1>2. Active # 0 => Keys(Active) \in Reading
  BY <1>1, KeysAreReading
<1>3. Idle.keys = NoRead /\ NoRead \in Reading
  BY NoReadIsReading DEF Idle
<1>4. ASSUME UNCHANGED <<tabs, active, page, born, memo, refs>>,
             NEW at \in {"find", "read", "form", "act", "navigate", "extract"},
             NEW p \in PageOrNone, NEW c, call' = [call EXCEPT ![r] = c],
             \/ \E q \in Queries : c = [Idle EXCEPT !.at = at, !.page = p, !.query = q]
             \/ c = [Idle EXCEPT !.at = at, !.page = p]
             \/ /\ Active # 0
                /\ c = [Idle EXCEPT !.at = at, !.page = p, !.keys = Keys(Active)]
      PROVE  Sound
  <2>1. /\ c \in Call
        /\ c.keys = NoRead \/ (Active # 0 /\ c.keys = Keys(Active))
    BY <1>4, Beginning
  <2>. QED  BY <1>4, <2>1, CallStepSound
<1>7. ASSUME NEW q \in Queries, FindStarts(r, q)  PROVE Sound
  <2>1. PICK c : /\ c = [Idle EXCEPT !.at = "find", !.page = Active, !.query = q]
                 /\ call' = [call EXCEPT ![r] = c]
    BY <1>7, Zenon DEF FindStarts
  <2>2. UNCHANGED <<tabs, active, page, born, memo, refs>>
    BY <1>7 DEF FindStarts
  <2>. QED  BY <1>1, <1>4, <2>1, <2>2
<1>8. ASSUME NEW s \in Shapes, NEW p \in Policies, Blocked(r, s, p)  PROVE Sound
  <2>0. UNCHANGED <<tabs, active, page, born, memo, refs>>
    BY <1>8 DEF Blocked
  <2>1. CASE call' = call
    <3>1. ReadingsFrom(0) /\ AnswersFrom /\ Types'
      BY <2>0, <2>1 DEF ReadingsFrom, AnswersFrom, Readings, Types
    <3>. QED  BY <2>0, <3>1, PagesKept, ZeroIsNone DEF Sound
  <2>2. CASE call' # call
    <3>1. PICK c : /\ c = [Idle EXCEPT !.at = "extract", !.page = Active]
                   /\ call' = [call EXCEPT ![r] = c]
      BY <1>8, <2>2, Zenon DEF Blocked
    <3>. QED  BY <1>1, <1>4, <2>0, <3>1
  <2>. QED  BY <2>1, <2>2
<1>9. CASE ExtractEnds(r)
  <2>1. \E p \in PageOrNone : refs' = Disturbed(p)
    BY <1>1, <1>9 DEF ExtractEnds
  <2>2. Active # 0
    BY <1>9, ZeroIsNone DEF ExtractEnds, IsOpen, Types, Active
  <2>3. PICK c :
          /\ \/ c = Idle
             \/ c = [Idle EXCEPT !.at = "read", !.page = Active, !.keys = Keys(Active)]
          /\ call' = [call EXCEPT ![r] = c]
    BY <1>9, Zenon DEF ExtractEnds
  <2>4. c \in Call /\ (c.keys = NoRead \/ (Active # 0 /\ c.keys = Keys(Active)))
    BY <1>1, <2>2, <2>3, Beginning
  <2>. QED  BY <1>9, <2>1, <2>3, <2>4, CallStepSound DEF ExtractEnds
<1>10. CASE ReadStarts(r)
  <2>1. PICK c :
          /\ c = [Idle EXCEPT !.at = "read", !.page = Active, !.keys = Keys(Active)]
          /\ call' = [call EXCEPT ![r] = c]
    BY <1>10, Zenon DEF ReadStarts
  <2>2. UNCHANGED <<tabs, active, page, born, memo, refs>> /\ Active # 0
    BY <1>10 DEF ReadStarts
  <2>. QED  BY <1>1, <1>4, <2>1, <2>2
<1>11. ASSUME NEW at \in {"form", "act", "navigate"}, NEW p \in PageOrNone,
              call' = [call EXCEPT ![r] = [Idle EXCEPT !.at = at, !.page = p]],
              UNCHANGED <<tabs, active, page, born, memo, refs>>
       PROVE  Sound
  <2>1. PICK c : c = [Idle EXCEPT !.at = at, !.page = p] /\ call' = [call EXCEPT ![r] = c]
    BY <1>11, Zenon
  <2>. QED  BY <1>4, <1>11, <2>1
<1>12. CASE FormStarts(r) \/ ActStarts(r) \/ NavigateStarts(r)
  BY <1>1, <1>11, <1>12, Zenon DEF FormStarts, ActStarts, NavigateStarts, Acting
<1>15. ASSUME NEW f \in refs, ActsByRef(r, f)  PROVE Sound
  <2>1. f.page \in PageOrNone
    BY ZeroIsNone DEF Types, Reference
  <2>. QED  BY <1>11, <1>15, <2>1, Zenon DEF ActsByRef, Acting
<1>16. CASE ReadEnds(r)
  <2>1. PICK k \in Reading : k = call[r].keys
    BY <1>1 DEF Call
  <2>3. k \in Readings(r)
    BY <2>1 DEF Readings
  <2>2. /\ memo' = [memo EXCEPT ![r].read = k] /\ call' = [call EXCEPT ![r] = Idle]
        /\ UNCHANGED <<tabs, active, page, born, refs>>
    BY <1>16, <2>1, Zenon DEF ReadEnds
  <2>4. /\ k \in Readings(r) \/ (Active # 0 /\ k = Keys(Active))
        /\ memo' = [memo EXCEPT ![r].read = k] \/ memo' = [memo EXCEPT ![r].form = k]
    BY <2>2, <2>3, Zenon
  <2>. QED  BY <2>2, <2>4, ReadingRemembered, Zenon
<1>17. CASE FormEnds(r)
  <2>. DEFINE k == Keys(Active)
  <2>1. Active # 0 /\ k \in Reading
    BY <1>2, <1>17, ZeroIsNone DEF FormEnds, IsOpen, Types, Active
  <2>2. /\ memo' = [memo EXCEPT ![r].form = k] /\ call' = [call EXCEPT ![r] = Idle]
        /\ UNCHANGED <<tabs, active, page, born, refs>>
    BY <1>17 DEF FormEnds
  <2>3. k = Keys(Active)
    OBVIOUS
  <2>. HIDE DEF k
  <2>. QED  BY <2>1, <2>2, <2>3, ReadingRemembered
<1>13. ASSUME NEW i \in DOMAIN tabs, SwitchTab(r, i)  PROVE Sound
  <2>1. /\ active' = i /\ UNCHANGED <<tabs, page, born, refs, memo, call>>
    BY <1>13 DEF SwitchTab
  <2>2. Types'
    BY <2>1 DEF Types
  <2>. QED  BY <2>1, <2>2, PagesKept, MemoryKept DEF Sound
<1>14. CASE NewRound(r)
  <2>1. UNCHANGED <<tabs, active, page, born, refs, memo, call>>
    BY <1>14 DEF NewRound
  <2>2. Types'
    BY <2>1 DEF Types
  <2>. QED  BY <2>1, <2>2, PagesKept, MemoryKept DEF Sound
<1>. QED
  BY <1>7, <1>8, <1>9, <1>10, <1>12, <1>13, <1>14, <1>15, <1>16, <1>17,
     FindEndsSound, ActSucceedsSound, CallFailsSound, FilterSound,
     NavigateEndsSound, RunEndsSound
  DEF RunStep, FindStep, ReadStep, FormStep, ActStep

LEMMA StepSound ==
  ASSUME Types, [Next]_vars
  PROVE  Sound
<1>1. CASE UNCHANGED vars
  <2>1. UNCHANGED <<tabs, active, page, born, refs, memo, call>>
    BY <1>1 DEF vars
  <2>2. Types'
    BY <2>1 DEF Types
  <2>. QED  BY <2>1, <2>2, PagesKept, MemoryKept DEF Sound
<1>. QED  BY <1>1, PageStepSound, RunStepSound DEF Next

-----------------------------------------------------------------------------
(* The invariants                                                          *)

LEMMA InitSound == Init => Types /\ ReadingsBehind /\ AnswersBacked
<1>. SUFFICES ASSUME Init PROVE Types /\ ReadingsBehind /\ AnswersBacked
  OBVIOUS
<1>1. NoRead \in Reading /\ NoRead.page = 0 /\ 0 \in PageOrNone
  BY NoReadIsReading, ZeroIsNone DEF NoRead
<1>2. /\ NoMemo \in Memory /\ Idle \in Call
      /\ NoMemo.finds = {} /\ NoMemo.read = NoRead /\ NoMemo.form = NoRead
      /\ Idle.keys = NoRead
  BY <1>1 DEF NoMemo, Memory, Idle, Call
<1>3. /\ \A r \in Runs : memo[r] = NoMemo /\ call[r] = Idle
      /\ born = 0 /\ tabs = <<>> /\ refs = {}
  BY DEF Init
<1>4. Types
  <2>1. memo \in [Runs -> Memory] /\ call \in [Runs -> Call]
    BY <1>2 DEF Init
  <2>2. page \in PageType
    BY DEF Init, PageType
  <2>. QED  BY <1>1, <2>1, <2>2 DEF Types, Init
<1>5. ReadingsBehind
  BY <1>1, <1>2, <1>3 DEF ReadingsBehind, Readings, Behind
<1>6. AnswersBacked
  BY <1>2, <1>3 DEF AnswersBacked
<1>. QED  BY <1>4, <1>5, <1>6

\* A page that is open has been opened: its number is a page.
LEMMA OpenPages ==
  ASSUME Types, NEW p, IsOpen(p)
  PROVE  p \in Pages /\ p <= born
BY DEF Types, IsOpen

LEMMA ReadingsStayBehind ==
  ASSUME Types, ReadingsBehind, Sound, OnlyReported
  PROVE  ReadingsBehind'
<1>1. PICK t \in PageOrNone : ReadingsFrom(t)
  BY DEF Sound
<1>. SUFFICES ASSUME NEW r \in Runs, NEW k \in Readings(r)'
              PROVE  Behind(k)'
  BY DEF ReadingsBehind
<1>2. /\ \A p \in Pages : /\ page[p].nav \in Nat /\ page[p].rev \in Nat
                          /\ page'[p].nav \in Nat /\ page'[p].rev \in Nat
      /\ born \in Nat /\ born' \in Nat /\ born <= born'
  BY PageMemoryAssumption
     DEF Sound, Types, PageType, PageOrNone, PageMemoryAssumption, Grows
<1>3. \A m \in Readings(r) : m \in Reading /\ Behind(m)
  BY DEF Types, Memory, Call, Readings, ReadingsBehind
<1>4. CASE k = NoRead
  BY <1>2, <1>4 DEF Behind, NoRead
<1>5. ASSUME NEW m \in Readings(r), k = m \/ k = Outdated(m, t)
      PROVE  Behind(k)'
  <2>1. /\ m \in Reading /\ Behind(m) /\ m.page \in PageOrNone
        /\ m.nav \in Nat /\ m.rev \in Nat
    BY <1>3 DEF Reading
  <2>2. /\ k.page = m.page /\ k.nav = m.nav /\ k.rev = m.rev
        /\ k.changed => m.changed \/ m.page = t
    <3>1. CASE k = m
      BY <3>1
    <3>2. CASE k = Outdated(m, t)
      <4>. DEFINE d == m.changed \/ m.page = t
      <4>1. Outdated(m, t) = [page |-> m.page, nav |-> m.nav, rev |-> m.rev, changed |-> d]
        BY <2>1, Outdating
      <4>. HIDE DEF d
      <4>2. k.page = m.page /\ k.nav = m.nav /\ k.rev = m.rev /\ k.changed = d
        BY <3>2, <4>1
      <4>. QED  BY <4>2, Zenon DEF d
    <3>. QED  BY <1>5, <3>1, <3>2
  <2>3. k.page <= born'
    BY <1>2, <2>1, <2>2, PageMemoryAssumption
       DEF Behind, PageOrNone, PageMemoryAssumption
  <2>4. ASSUME k.page # 0, IsOpen(k.page)'
        PROVE  /\ k.nav <= page'[k.page].nav /\ k.rev <= page'[k.page].rev
               /\ k.changed => k.nav < page'[k.page].nav \/ k.rev < page'[k.page].rev
    <3>1. m.page \in Pages /\ m.page <= born
      BY <2>1, <2>2, <2>4 DEF Behind, PageOrNone, Pages
    <3>2. /\ IsOpen(m.page)
          /\ page[m.page].nav <= page'[m.page].nav
          /\ page[m.page].rev <= page'[m.page].rev
      BY <2>2, <2>4, <3>1 DEF Sound, Grows
    <3>3. /\ m.nav <= page[m.page].nav /\ m.rev <= page[m.page].rev
          /\ m.changed => m.nav < page[m.page].nav \/ m.rev < page[m.page].rev
      BY <2>1, <2>2, <2>4, <3>2 DEF Behind
    <3>4. m.page = t => page[m.page].rev < page'[m.page].rev
      BY <1>1, <2>2, <2>4 DEF ReadingsFrom
    <3>. QED  BY <1>2, <2>1, <2>2, <3>1, <3>2, <3>3, <3>4
  <2>. QED  BY <2>3, <2>4 DEF Behind
<1>6. CASE Active # 0 /\ k = Keys(Active) /\ UNCHANGED <<tabs, page, born>>
  <2>1. Active \in Pages /\ Active <= born
    BY <1>6, ActiveIsOpen
  <2>2. /\ k.page = Active /\ k.nav = page[Active].nav /\ k.rev = page[Active].rev
        /\ k.changed = FALSE
    BY <1>6, <2>1, KeysAreReading
  <2>. QED  BY <1>2, <1>6, <2>1, <2>2 DEF Behind
<1>. QED  BY <1>1, <1>4, <1>5, <1>6 DEF ReadingsFrom

LEMMA AnswersStayBacked ==
  ASSUME Types, AnswersBacked, Sound
  PROVE  AnswersBacked'
<1>. SUFFICES ASSUME NEW r \in Runs, NEW a \in memo'[r].finds
              PROVE  Backed(r, a)'
  BY DEF AnswersBacked
<1>1. /\ \A p \in Pages : page[p].nav \in Nat /\ page'[p].nav \in Nat
      /\ born \in Nat /\ born' \in Nat /\ born <= born'
      /\ \A f \in refs : f \in Reference
  BY PageMemoryAssumption
     DEF Sound, Types, PageType, PageOrNone, PageMemoryAssumption, Grows
<1>2. a \in Found
  BY DEF Sound, Types, Memory
<1>3. a.page \in PageOrNone /\ a.nav \in Nat
  BY <1>2 DEF Found
<1>4. CASE Given(r, a)
  <2>1. a.page <= born'
    BY <1>1, <1>3, <1>4, PageMemoryAssumption
       DEF Given, PageOrNone, PageMemoryAssumption
  <2>2. a.gave /\ a.page # 0 /\ IsOpen(a.page)' => a.page \in Pages
    BY <1>3 DEF PageOrNone, Pages
  <2>. QED  BY <1>1, <1>4, <2>1, <2>2 DEF Backed, Given
<1>5. CASE a \in memo[r].finds
  <2>1. Backed(r, a)
    BY <1>5 DEF AnswersBacked
  <2>2. a.page <= born'
    BY <1>1, <1>3, <2>1, PageMemoryAssumption
       DEF Backed, PageOrNone, PageMemoryAssumption
  <2>3. ASSUME a.gave, a.page # 0, IsOpen(a.page)'
        PROVE  /\ a.nav <= page'[a.page].nav
               /\ a.nav = page'[a.page].nav =>
                    \E f \in refs' : f.run = r /\ f.page = a.page /\ f.query = a.query
    <3>1. a.page \in Pages /\ a.page <= born
      BY <1>3, <2>1, <2>3 DEF Backed, PageOrNone, Pages
    <3>2. IsOpen(a.page) /\ page[a.page].nav <= page'[a.page].nav
      BY <2>3, <3>1 DEF Sound, Grows
    <3>3. /\ a.nav <= page[a.page].nav
          /\ a.nav = page[a.page].nav =>
               \E f \in refs : f.run = r /\ f.page = a.page /\ f.query = a.query
      BY <2>1, <2>3, <3>2 DEF Backed
    <3>4. ASSUME a.nav = page'[a.page].nav
          PROVE  \E f \in refs' : f.run = r /\ f.page = a.page /\ f.query = a.query
      <4>1. a.nav = page[a.page].nav /\ ~(page[a.page].nav < page'[a.page].nav)
        BY <1>1, <1>3, <3>1, <3>2, <3>3, <3>4
      <4>2. PICK f \in refs : f.run = r /\ f.page = a.page /\ f.query = a.query
        BY <3>3, <4>1
      <4>. QED  BY <2>3, <4>1, <4>2 DEF Sound, AnswersFrom
    <3>. QED  BY <1>1, <1>3, <3>1, <3>2, <3>3, <3>4
  <2>. QED  BY <2>2, <2>3 DEF Backed
<1>. QED  BY <1>4, <1>5 DEF Sound, AnswersFrom

(* The types, whatever is counted.                                         *)
THEOREM TypesCorrect == Spec => []Types
<1>1. Types /\ [Next]_vars => Types'
  BY StepSound DEF Sound
<1>. QED  BY <1>1, InitSound, PTL DEF Spec

(* A browser_find that is refused, because the same was answered with a    *)
(* reference to this page, leaves the run a reference by an answer that    *)
(* overlaps the query: for any number of pages, tabs, runs and queries,    *)
(* whatever relation the texts have, and whenever all is forgotten         *)
(* (find_repeat.py, browser/refs.py).                                      *)
THEOREM RefusedFindsHoldReferences == Spec => []RefusedHoldsRef
<1>1. Types /\ AnswersBacked /\ [Next]_vars => (Types /\ AnswersBacked)'
  BY StepSound, AnswersStayBacked DEF Sound
<1>2. Types /\ AnswersBacked => RefusedHoldsRef
  <2>. SUFFICES ASSUME Types, AnswersBacked, NEW r \in Runs, NEW q \in Queries,
                       Active # 0, SomethingAsked(q), NEW a \in memo[r].finds,
                       a.gave, Repeats(a, q, Active)
                PROVE  \E f \in refs : f.run = r /\ f.page = Active /\ Overlaps(q, f.query)
    BY DEF RefusedHoldsRef
  <2>1. IsOpen(Active) /\ a.page = Active /\ a.nav = page[Active].nav
    BY ActiveIsOpen DEF Repeats
  <2>2. PICK f \in refs : f.run = r /\ f.page = Active /\ f.query = a.query
    BY <2>1 DEF AnswersBacked, Backed
  <2>3. Overlaps(q, a.query)
    BY DEF Repeats, Overlaps, SomethingAsked
  <2>. QED  BY <2>2, <2>3
<1>. QED  BY <1>1, <1>2, InitSound, PTL DEF Spec

(* A run is told that a page is as it has read it only if no tool has      *)
(* reported success in acting on it since, for any number of runs, pages   *)
(* and actions.  What the tools do not report (a filter, a failed action,  *)
(* one that ends on another tab) is not counted by the code either         *)
(* (read.py, manager.record_action).                                       *)
THEOREM UnchangedPagesAreUntouched ==
  ASSUME Strict \cap {"tab", "filter", "failed"} = {}
  PROVE  Spec => []UnchangedIsUntouched
<1>0. OnlyReported
  BY DEF OnlyReported
<1>1. Types /\ ReadingsBehind /\ [Next]_vars => (Types /\ ReadingsBehind)'
  BY <1>0, StepSound, ReadingsStayBehind DEF Sound
<1>2. Types /\ ReadingsBehind => UnchangedIsUntouched
  <2>. SUFFICES ASSUME Types, ReadingsBehind, NEW r \in Runs, Active # 0,
                       NEW k \in Readings(r), SameKeys(k, Keys(Active))
                PROVE  ~k.changed
    BY DEF UnchangedIsUntouched, Readings
  <2>1. IsOpen(Active) /\ Active \in Pages
    BY ActiveIsOpen
  <2>2. k.page = Active /\ k.nav = page[Active].nav /\ k.rev = page[Active].rev
    BY DEF SameKeys, Keys
  <2>3. page[Active].nav \in Nat /\ page[Active].rev \in Nat
    BY <2>1 DEF Types, PageType
  <2>. QED  BY <2>1, <2>2, <2>3 DEF ReadingsBehind, Behind
<1>. QED  BY <1>1, <1>2, InitSound, PTL DEF Spec
=============================================================================
