-------------------------- MODULE LoginWatchProofs --------------------------
(***************************************************************************)
(* Properties of LoginWatch for any number of runs, any forms and any      *)
(* number of documents and saves: a form is taken for done only with the   *)
(* newest credential, no attempt to fill a form survives its run, and the  *)
(* agent is let go on only when the form on the page has its user name and *)
(* password.                                                               *)
(***************************************************************************)
EXTENDS LoginWatch, SequenceTheorems, WellFoundedInduction, TLAPS

\* The records the arguments below are about: functions of the runs and the
\* workers whose values have the fields in question.
Shape ==
  /\ DOMAIN watch = Runs /\ DOMAIN hook = Runs /\ DOMAIN job = Workers
  /\ DOMAIN cred = {"saved", "stored"}
  /\ \A r \in Runs : DOMAIN watch[r] = DOMAIN NewWatch
  /\ \A r \in Runs : DOMAIN hook[r] = DOMAIN NewHook
  /\ \A w \in Workers : DOMAIN job[w] = DOMAIN NoJob

\* The credential that is stored is the one that was saved last.
StoredIsNewest == cred.stored \in {0, cred.saved}

\* SavedIsTried without the page: whatever form a watcher has remembered.
TriedWithNewest ==
  \A r \in Runs :
    ~saving /\ watch[r].tried.n # 0 /\ cred.stored # 0 => watch[r].with = cred.saved

WatchInv == Shape /\ StoredIsNewest /\ TriedWithNewest /\ NoFillAfterRun

LEMMA StartsWatched == Init => WatchInv
<1> SUFFICES ASSUME Init PROVE WatchInv
  OBVIOUS
<1>1. Shape
  BY DEF Init, Shape, NewWatch, NewHook, NoJob
<1>2. StoredIsNewest
  BY DEF Init, StoredIsNewest
<1>3. TriedWithNewest
  BY DEF Init, TriedWithNewest, NewWatch, None
<1>4. NoFillAfterRun
  BY DEF Init, NoFillAfterRun, NewWatch, NewHook, NoJob, Workers
<1>5. QED
  BY <1>1, <1>2, <1>3, <1>4 DEF WatchInv

\* The page, the person and the reading of a credential touch neither the
\* watchers nor the attempts.
LEMMA PageStepsKeep ==
  ASSUME WatchInv, PageStep \/ UNCHANGED vars
  PROVE  WatchInv'
<1>1. UNCHANGED <<credVars, watch, hook, job>>
  BY DEF PageStep, Navigates, Rebuilds, Mutated, Types, vars, credVars
<1>2. QED
  BY <1>1 DEF WatchInv, Shape, StoredIsNewest, TriedWithNewest, NoFillAfterRun,
              credVars

LEMMA CredentialStepsKeep ==
  ASSUME WatchInv, CredentialStep
  PROVE  WatchInv'
<1> USE DEF WatchInv, Shape
<1>1. UNCHANGED <<hook, job>>
  BY DEF CredentialStep, SaveBegins, SaveEnds, Delete
<1>2. /\ DOMAIN watch' = Runs
      /\ \A r \in Runs : /\ DOMAIN watch'[r] = DOMAIN NewWatch
                        /\ watch'[r].at = watch[r].at
  BY DEF CredentialStep, SaveBegins, SaveEnds, Delete, Clear, NewWatch
<1>3. Shape'
  <2>1. DOMAIN cred' = {"saved", "stored"}
    BY DEF CredentialStep, SaveBegins, SaveEnds, Delete
  <2>2. QED
    BY <1>1, <1>2, <2>1
<1>4. StoredIsNewest'
  BY DEF StoredIsNewest, CredentialStep, SaveBegins, SaveEnds, Delete
<1>5. TriedWithNewest'
  <2>1. CASE SaveBegins
    BY <2>1 DEF SaveBegins, TriedWithNewest
  <2>2. CASE SaveEnds
    BY <2>2 DEF SaveEnds, TriedWithNewest, Clear, NewWatch, None
  <2>3. CASE Delete
    BY <2>3 DEF Delete, TriedWithNewest
  <2>4. QED
    BY <2>1, <2>2, <2>3 DEF CredentialStep
<1>6. NoFillAfterRun'
  BY <1>1, <1>2 DEF NoFillAfterRun
<1>7. QED
  BY <1>3, <1>4, <1>5, <1>6

\* A watcher that has looked for the form goes back to its poll, or begins an
\* attempt with the form it found and the credential that is stored.
LEMMA ExtractionEnds ==
  ASSUME WatchInv, NEW r \in Runs, DrainExtracts(r)
  PROVE  /\ \A q \in Runs \ {r} : watch'[q] = watch[q]
         /\ \/ /\ watch'[r].at = "idle" /\ watch'[r].with = watch[r].with
               /\ watch'[r].tried \in {watch[r].tried, None}
               /\ job' = job
            \/ /\ watch'[r].at = "filling" /\ watch'[r].with = cred.stored
         /\ \A q \in Runs : job'[<<q, "hook">>] = job[<<q, "hook">>]
         /\ \A q \in Runs \ {r} : job'[<<q, "watch">>] = job[<<q, "watch">>]
<1> USE DEF WatchInv, Shape, NewWatch, Workers
<1>1. CASE watch' = [watch EXCEPT ![r] = Idle(@)] /\ job' = job
  BY <1>1 DEF Idle
<1>2. CASE watch' = [watch EXCEPT ![r] = [Idle(@) EXCEPT !.tried = None]] /\ job' = job
  <2>1. watch'[r] = [Idle(watch[r]) EXCEPT !.tried = None]
    BY <1>2
  <2>2. DOMAIN Idle(watch[r]) = DOMAIN NewWatch /\ Idle(watch[r]).at = "idle"
          /\ Idle(watch[r]).with = watch[r].with
    BY DEF Idle
  <2>3. QED
    BY <1>2, <2>1, <2>2
<1>3. CASE /\ watch' = [watch EXCEPT ![r] = [Remembered(@, doc) EXCEPT !.at = "filling"]]
           /\ job' = [job EXCEPT ![<<r, "watch">>] = JobFor(doc)]
  <2>1. watch'[r] = [Remembered(watch[r], doc) EXCEPT !.at = "filling"]
    BY <1>3
  <2>2. DOMAIN Remembered(watch[r], doc) = DOMAIN NewWatch
          /\ Remembered(watch[r], doc).with = cred.stored
    BY DEF Remembered
  <2>3. QED
    BY <1>3, <2>1, <2>2
<1>4. QED
  BY <1>1, <1>2, <1>3 DEF DrainExtracts

\* A slot that is read or written leaves its attempt in progress.
LEMMA FillStepsKeep ==
  ASSUME WatchInv, NEW w \in Workers, FillStep(w)
  PROVE  WatchInv'
<1> USE DEF WatchInv, Shape
<1>1. UNCHANGED <<cred, saving, watch, hook>>
  BY DEF FillStep, ReadSlot, WriteSlot, credVars
<1>2. job[w].at # "none"
  BY DEF FillStep, ReadSlot, WriteSlot
<1>3. /\ DOMAIN job' = Workers
      /\ \A u \in Workers : DOMAIN job'[u] = DOMAIN NoJob
      /\ \A u \in Workers \ {w} : job'[u] = job[u]
  BY DEF FillStep, ReadSlot, WriteSlot, Dropped, FailureNoted, NoJob
<1>4. Shape' /\ StoredIsNewest' /\ TriedWithNewest'
  BY <1>1, <1>3 DEF StoredIsNewest, TriedWithNewest
<1>5. NoFillAfterRun'
  BY <1>1, <1>2, <1>3 DEF NoFillAfterRun, Workers
<1>6. QED
  BY <1>4, <1>5

LEMMA WatchStepsKeep ==
  ASSUME WatchInv, NEW r \in Runs, WatchStep(r)
  PROVE  WatchInv'
<1> USE DEF WatchInv, Shape
<1>1. UNCHANGED <<cred, saving, hook>>
  BY DEF WatchStep, DrainBegins, DrainLooks, DrainExtracts, DrainFilled, credVars
<1>2. Shape'
  <2>1. DOMAIN job' = Workers /\ \A u \in Workers : DOMAIN job'[u] = DOMAIN NoJob
    BY DEF WatchStep, DrainBegins, DrainLooks, DrainExtracts, DrainFilled,
           JobFor, NoJob
  <2>2. DOMAIN watch' = Runs /\ \A q \in Runs : DOMAIN watch'[q] = DOMAIN NewWatch
    BY DEF WatchStep, DrainBegins, DrainLooks, DrainExtracts, DrainFilled,
           Idle, Remembered, NewWatch
  <2>3. QED
    BY <1>1, <2>1, <2>2
<1>3. StoredIsNewest'
  BY <1>1 DEF StoredIsNewest
<1>4. TriedWithNewest'
  <2>1. CASE DrainBegins(r)
    BY <1>1, <2>1 DEF DrainBegins, TriedWithNewest, NewWatch
  <2>2. CASE DrainLooks(r)
    BY <1>1, <2>2 DEF DrainLooks, TriedWithNewest, NewWatch, Idle
  <2>3. CASE DrainExtracts(r)
    <3>1. /\ \A q \in Runs \ {r} : watch'[q] = watch[q]
          /\ \/ /\ watch'[r].with = watch[r].with
                /\ watch'[r].tried \in {watch[r].tried, None}
             \/ watch'[r].with = cred.stored
      BY <2>3, ExtractionEnds
    <3>2. None.n = 0
      BY DEF None
    <3>3. QED
      BY <1>1, <3>1, <3>2 DEF TriedWithNewest, StoredIsNewest
  <2>4. CASE DrainFilled(r)
    BY <1>1, <2>4 DEF DrainFilled, TriedWithNewest, NewWatch, Idle
  <2>5. QED
    BY <2>1, <2>2, <2>3, <2>4 DEF WatchStep
<1>5. NoFillAfterRun'
  <2>1. CASE DrainBegins(r)
    BY <1>1, <2>1 DEF DrainBegins, NoFillAfterRun, NewWatch
  <2>2. CASE DrainLooks(r)
    BY <1>1, <2>2 DEF DrainLooks, NoFillAfterRun, NewWatch, Idle
  <2>3. CASE DrainExtracts(r)
    <3>1. watch[r].at = "extracting"
      BY <2>3 DEF DrainExtracts
    <3>2. /\ \A q \in Runs \ {r} : watch'[q] = watch[q]
          /\ \A q \in Runs : job'[<<q, "hook">>] = job[<<q, "hook">>]
          /\ \A q \in Runs \ {r} : job'[<<q, "watch">>] = job[<<q, "watch">>]
          /\ watch'[r].at = "filling" \/ job' = job
      BY <2>3, ExtractionEnds
    <3>3. QED
      BY <1>1, <3>1, <3>2 DEF NoFillAfterRun
  <2>4. CASE DrainFilled(r)
    BY <1>1, <2>4 DEF DrainFilled, NoFillAfterRun, NewWatch, Idle, Workers, NoJob
  <2>5. QED
    BY <2>1, <2>2, <2>3, <2>4 DEF WatchStep
<1>6. QED
  BY <1>2, <1>3, <1>4, <1>5

LEMMA HookStepsKeep ==
  ASSUME WatchInv, NEW r \in Runs, HookStep(r)
  PROVE  WatchInv'
<1> USE DEF WatchInv, Shape
<1>1. UNCHANGED <<cred, saving>>
  BY DEF HookStep, ToolReturns, TakesFingerprint, Extracts, Filled, Decides,
         Resumes, RunEnds, credVars
<1>2. /\ DOMAIN watch' = Runs
      /\ \A q \in Runs : \/ watch'[q] = watch[q]
                        \/ /\ DOMAIN watch'[q] = DOMAIN NewWatch
                           /\ watch'[q].tried.n = 0
  <2>1. CASE ToolReturns(r)
    <3>1. CASE watch[r].at = "off"
      <4>1. watch' = [watch EXCEPT ![r] = [NewWatch EXCEPT !.at = "idle"]]
        BY <2>1, <3>1 DEF ToolReturns, Started
      <4>2. QED
        BY <4>1 DEF NewWatch, None
    <3>2. CASE watch[r].at # "off"
      BY <2>1, <3>2 DEF ToolReturns
    <3>3. QED
      BY <3>1, <3>2
  <2>2. CASE RunEnds(r)
    BY <2>2 DEF RunEnds, NewWatch, None
  <2>3. CASE UNCHANGED watch
    BY <2>3
  <2>4. QED
    BY <2>1, <2>2, <2>3
       DEF HookStep, TakesFingerprint, Extracts, Filled, Decides, Resumes
<1>3. Shape'
  <2>1. DOMAIN job' = Workers /\ \A u \in Workers : DOMAIN job'[u] = DOMAIN NoJob
    BY DEF HookStep, ToolReturns, TakesFingerprint, Extracts, Filled, Decides,
           Resumes, RunEnds, JobFor, NoJob, Cancelled
  <2>2. DOMAIN hook' = Runs /\ \A q \in Runs : DOMAIN hook'[q] = DOMAIN NewHook
    BY DEF HookStep, ToolReturns, TakesFingerprint, Extracts, Filled, Decides,
           Resumes, RunEnds, NewHook
  <2>3. \A q \in Runs : DOMAIN watch'[q] = DOMAIN NewWatch
    BY <1>2 DEF NewWatch
  <2>4. QED
    BY <1>1, <1>2, <2>1, <2>2, <2>3
<1>4. StoredIsNewest' /\ TriedWithNewest'
  BY <1>1, <1>2 DEF StoredIsNewest, TriedWithNewest
<1>5. NoFillAfterRun'
  <2> USE DEF NoFillAfterRun, NewWatch, NewHook, Workers
  <2>1. CASE ToolReturns(r)
    BY <2>1 DEF ToolReturns, Started
  <2>2. CASE TakesFingerprint(r)
    BY <2>2 DEF TakesFingerprint
  <2>3. CASE Extracts(r)
    <3>1. hook[r].at = "extracting" /\ watch' = watch
          /\ \A q \in Runs \ {r} : hook'[q] = hook[q]
      BY <2>3 DEF Extracts
    <3>2. /\ \A q \in Runs : job'[<<q, "watch">>] = job[<<q, "watch">>]
          /\ \A q \in Runs \ {r} : job'[<<q, "hook">>] = job[<<q, "hook">>]
          /\ hook'[r].at = "filling" \/ job' = job
      <4>1. CASE job' = job
        BY <4>1
      <4>2. CASE /\ hook' = [hook EXCEPT ![r] =
                      [@ EXCEPT !.at = "filling", !.info = doc, !.again = FALSE,
                                !.last = doc, !.miss = <<>>]]
                 /\ job' = [job EXCEPT ![<<r, "hook">>] = JobFor(doc)]
        BY <4>2
      <4>3. QED
        BY <2>3, <4>1, <4>2 DEF Extracts
    <3>3. job[<<r, "hook">>].at = "none"
      BY <3>1
    <3>4. ASSUME NEW q \in Runs
          PROVE  /\ job'[<<q, "watch">>].at # "none" => watch'[q].at = "filling"
                 /\ job'[<<q, "hook">>].at # "none" => hook'[q].at = "filling"
      <4>1. CASE q = r
        BY <3>1, <3>2, <3>3, <4>1
      <4>2. CASE q # r
        BY <3>1, <3>2, <4>2
      <4>3. QED
        BY <4>1, <4>2
    <3>5. QED
      BY <3>4
  <2>4. CASE Filled(r)
    BY <2>4 DEF Filled, NoJob
  <2>5. CASE Decides(r)
    BY <2>5 DEF Decides
  <2>6. CASE Resumes(r)
    BY <2>6 DEF Resumes
  <2>7. CASE RunEnds(r)
    BY <2>7 DEF RunEnds, Cancelled, NoJob
  <2>8. QED
    BY <2>1, <2>2, <2>3, <2>4, <2>5, <2>6, <2>7 DEF HookStep
<1>6. QED
  BY <1>3, <1>4, <1>5

\* What the two theorems below rest on.
THEOREM InductiveInvariant == Spec => []WatchInv
<1>1. Init => WatchInv
  BY StartsWatched
<1>2. WatchInv /\ [Next]_vars => WatchInv'
  <2> SUFFICES ASSUME WatchInv, [Next]_vars PROVE WatchInv'
    OBVIOUS
  <2>1. CASE PageStep \/ UNCHANGED vars
    BY <2>1, PageStepsKeep
  <2>2. CASE CredentialStep
    BY <2>2, CredentialStepsKeep
  <2>3. CASE \E w \in Workers : FillStep(w)
    BY <2>3, FillStepsKeep
  <2>4. CASE \E r \in Runs : WatchStep(r) \/ HookStep(r)
    BY <2>4, WatchStepsKeep, HookStepsKeep
  <2>5. QED
    BY <2>1, <2>2, <2>3, <2>4 DEF Next
<1>3. QED
  BY <1>1, <1>2, PTL DEF Spec

\* A watcher that takes the form on the page for done has tried it with the
\* newest credential (clear_autofill_memory), for any number of watchers.
THEOREM FormTriedWithNewest == Spec => []SavedIsTried
<1>1. WatchInv => SavedIsTried
  BY DEF WatchInv, TriedWithNewest, SavedIsTried, SameForm
<1>2. QED
  BY <1>1, InductiveInvariant, PTL

\* No attempt to fill a form is left when its run has ended (LoginWatcher.stop).
THEOREM AttemptsEndWithRun == Spec => []NoFillAfterRun
<1>1. WatchInv => NoFillAfterRun
  BY DEF WatchInv
<1>2. QED
  BY <1>1, InductiveInvariant, PTL

-----------------------------------------------------------------------------
(* The form is filled before the agent goes on                             *)

\* The least element: the order of the natural numbers is well founded.
LEMMA LeastNumber ==
  ASSUME NEW S, S \subseteq Nat, S # {}
  PROVE  \E n \in S : \A m \in S : n <= m
<1> DEFINE R == OpToRel(<, Nat)
<1>1. \A m, n \in Nat : <<m, n>> \in R <=> m < n
  BY DEF OpToRel
<1>2. IsWellFoundedOn(R, Nat)
  BY NatLessThanWellFounded
<1> HIDE DEF R
<1>3. PICK n \in S : \A m \in S : <<m, n>> \notin R
  BY <1>2, WFMin, Zenon
<1>4. \A m \in S : ~(m < n)
  BY <1>1, <1>3
<1>5. QED
  BY <1>3, <1>4

LEMMA FirstIsMember ==
  ASSUME NEW S, S \subseteq Nat, S # {}
  PROVE  FirstOf(S) \in S
BY LeastNumber DEF FirstOf

\* The fields a form's user name and password are found in are fields of it.
LEMMA SlotsAreFields ==
  ASSUME NEW f \in LoginForms
  PROVE  /\ DOMAIN f.fields \subseteq Nat
         /\ UsernameAt(f) # 0 => UsernameAt(f) \in DOMAIN f.fields
         /\ PasswordAt(f) # 0 => PasswordAt(f) \in DOMAIN f.fields
         /\ ExtraAt(f) # 0 => ExtraAt(f) \in DOMAIN f.fields
<1>1. DOMAIN f.fields \subseteq Nat
  BY DEF LoginForms
<1>2. ASSUME NEW S, S \subseteq DOMAIN f.fields, FirstOf(S) # 0
      PROVE  FirstOf(S) \in DOMAIN f.fields
  <2>1. S # {}
    BY <1>2 DEF FirstOf
  <2>2. QED
    BY <1>1, <1>2, <2>1, FirstIsMember
<1> DEFINE N == Positions(f, IsUsername)
           M == Positions(f, MayServeAsUsername)
           P == Positions(f, IsPassword)
           E == ExtraCandidates(f)
           X == {i \in E : f.fields[i].extra}
<1>3. /\ N \subseteq DOMAIN f.fields /\ M \subseteq DOMAIN f.fields
      /\ P \subseteq DOMAIN f.fields /\ E \subseteq DOMAIN f.fields
      /\ X \subseteq DOMAIN f.fields
  BY DEF Positions, ExtraCandidates
<1>4. /\ UsernameAt(f) = FirstOf(IF N # {} THEN N ELSE M) /\ PasswordAt(f) = FirstOf(P)
      /\ ExtraAt(f) \in {FirstOf(X), FirstOf(E), 0}
  BY DEF UsernameAt, PasswordAt, ExtraAt
<1> HIDE DEF N, M, P, E, X
<1>5. QED
  BY <1>1, <1>2, <1>3, <1>4

\* A slot the attempt still has to come to.
Ahead(todo, i) == \E k \in DOMAIN todo : todo[k] = i

LEMMA StillAhead ==
  ASSUME NEW S, NEW s \in Seq(S), NEW t \in Seq(S), NEW i, Ahead(s, i) \/ Ahead(t, i)
  PROVE  s \o t \in Seq(S) /\ Ahead(s \o t, i)
<1>1. /\ s \o t \in Seq(S) /\ Len(s \o t) = Len(s) + Len(t)
      /\ \A k \in 1..(Len(s) + Len(t)) :
           (s \o t)[k] = IF k <= Len(s) THEN s[k] ELSE t[k - Len(s)]
  BY ConcatProperties, Zenon
<1>2. PICK u : u = s \o t
  OBVIOUS
<1>3. DOMAIN u = 1..(Len(s) + Len(t))
  BY <1>1, <1>2
<1>4. ASSUME NEW k \in DOMAIN t, t[k] = i
      PROVE  Len(s) + k \in DOMAIN u /\ u[Len(s) + k] = i
  BY <1>1, <1>2, <1>3, <1>4
<1>5. ASSUME NEW k \in DOMAIN s, s[k] = i
      PROVE  k \in DOMAIN u /\ u[k] = i
  BY <1>1, <1>2, <1>3, <1>5
<1>6. QED
  BY <1>1, <1>2, <1>4, <1>5 DEF Ahead

LEMMA OneSlot ==
  ASSUME NEW i, NEW S, i \in S
  PROVE  Slot(i) \in Seq(S) /\ (i # 0 => Ahead(Slot(i), i))
<1>1. CASE i = 0
  <2>1. Slot(i) = <<>>
    BY <1>1 DEF Slot
  <2>2. <<>> \in Seq(S)
    OBVIOUS
  <2>3. QED
    BY <1>1, <2>1, <2>2
<1>2. CASE i # 0
  <2>1. Slot(i) = <<i>>
    BY <1>2 DEF Slot
  <2>2. DOMAIN <<i>> = {1} /\ <<i>>[1] = i /\ <<i>> \in Seq(S)
    OBVIOUS
  <2>3. QED
    BY <2>1, <2>2 DEF Ahead
<1>3. QED
  BY <1>1, <1>2

LEMMA ThreeSlots ==
  ASSUME NEW S, NEW u \in S, NEW p \in S, NEW e \in S,
         NEW slots, slots = Slot(u) \o Slot(p) \o Slot(e)
  PROVE  /\ slots \in Seq(S)
         /\ u # 0 => Ahead(slots, u)
         /\ p # 0 => Ahead(slots, p)
<1>1. /\ Slot(u) \in Seq(S) /\ Slot(p) \in Seq(S) /\ Slot(e) \in Seq(S)
      /\ u # 0 => Ahead(Slot(u), u)
      /\ p # 0 => Ahead(Slot(p), p)
  BY OneSlot
<1>2. PICK two : two = Slot(u) \o Slot(p)
  OBVIOUS
<1>3. two \in Seq(S) /\ (u # 0 => Ahead(two, u)) /\ (p # 0 => Ahead(two, p))
  BY <1>1, <1>2, StillAhead, ConcatProperties
<1>4. slots = two \o Slot(e)
  BY <1>2
<1>5. QED
  BY <1>1, <1>3, <1>4, StillAhead, ConcatProperties

\* The user name and the password are among the slots that are to be filled.
LEMMA SlotsAreAhead ==
  ASSUME NEW f \in LoginForms
  PROVE  /\ Slots(f) \in Seq(Nat)
         /\ UsernameAt(f) # 0 => Ahead(Slots(f), UsernameAt(f))
         /\ PasswordAt(f) # 0 => Ahead(Slots(f), PasswordAt(f))
<1>1. UsernameAt(f) \in Nat /\ PasswordAt(f) \in Nat /\ ExtraAt(f) \in Nat
  BY SlotsAreFields
<1>2. PICK u, p, e \in Nat :
        u = UsernameAt(f) /\ p = PasswordAt(f) /\ e = IF Extra THEN ExtraAt(f) ELSE 0
  BY <1>1
<1>3. PICK slots : slots = Slot(u) \o Slot(p) \o Slot(e)
  OBVIOUS
<1>4. slots \in Seq(Nat) /\ (u # 0 => Ahead(slots, u)) /\ (p # 0 => Ahead(slots, p))
  BY <1>3, ThreeSlots, Zenon
<1>5. Slots(f) = slots
  BY <1>2, <1>3 DEF Slots
<1>6. QED
  BY <1>2, <1>4, <1>5

-----------------------------------------------------------------------------
(* What an attempt of the hook has done so far                             *)

\* The page: its fields hold values, and its form is one of those.
PageShape ==
  /\ DOMAIN doc = {"n", "url", "form"} /\ doc.n \in Nat \ {0}
  /\ doc.form \in LoginForms
  /\ DOMAIN values = DOMAIN doc.form.fields

\* What was extracted is the document that is showing, or an earlier one.
IsSeen(i) == i.n \in Nat /\ i.n <= doc.n /\ (i.n = doc.n => i = doc)

\* A slot holds something, or is still ahead.
Served(todo, i) == i # 0 /\ (values[i] # "empty" \/ Ahead(todo, i))

\* An attempt that may let the agent go on, in the document it is about.
Serves(j) ==
  j.info.n = doc.n /\ j.with # 0 /\ ~j.failed /\ ~NeedsOtp(j.info.form) =>
    Served(j.todo, UsernameAt(doc.form)) /\ Served(j.todo, PasswordAt(doc.form))

Attempting(r) ==
  LET j == job[<<r, "hook">>]
  IN  /\ hook[r].info = j.info /\ IsSeen(j.info) /\ Serves(j)
      /\ j.todo \in Seq(Nat) /\ (j.at = "writing" => j.todo # <<>>)

Deciding(r) ==
  /\ IsSeen(hook[r].info)
  /\ hook[r].decision = "reset" /\ hook[r].info.n = doc.n =>
       Served(<<>>, UsernameAt(doc.form)) /\ Served(<<>>, PasswordAt(doc.form))

FillInv ==
  /\ PageShape
  /\ \A r \in Runs : /\ hook[r].at = "filling" => Attempting(r)
                     /\ hook[r].at = "deciding" => Deciding(r)

\* The page as a step leaves it: the same document whose fields have lost no
\* value, or a new one.
PageMoves ==
  \/ /\ doc' = doc /\ DOMAIN values' = DOMAIN values
     /\ \A i \in DOMAIN values : values[i] # "empty" => values'[i] # "empty"
  \/ PageShape' /\ doc'.n = doc.n + 1

LEMMA ServedStays ==
  ASSUME PageShape, PageMoves, doc' = doc, NEW todo, NEW i,
         i # 0 => i \in DOMAIN values, Served(todo, i)
  PROVE  Served(todo, i)'
BY DEF PageMoves, PageShape, Served

\* A run whose hook and attempt the step leaves alone.
LEMMA OthersGoOn ==
  ASSUME FillInv, PageMoves, NEW r \in Runs,
         hook'[r] = hook[r], job'[<<r, "hook">>] = job[<<r, "hook">>]
  PROVE  /\ hook'[r].at = "filling" => Attempting(r)'
         /\ hook'[r].at = "deciding" => Deciding(r)'
<1> PICK u, p : u = UsernameAt(doc.form) /\ p = PasswordAt(doc.form)
  OBVIOUS
<1>1. CASE doc' = doc
  <2>1. \A todo : /\ Served(todo, u) => Served(todo, u)'
                  /\ Served(todo, p) => Served(todo, p)'
    <3>1. (u # 0 => u \in DOMAIN values) /\ (p # 0 => p \in DOMAIN values)
      BY SlotsAreFields DEF FillInv, PageShape
    <3>2. QED
      BY <1>1, <3>1, ServedStays DEF FillInv
  <2>2. ASSUME hook'[r].at = "filling" PROVE Attempting(r)'
    <3>1. Attempting(r)
      BY <2>2 DEF FillInv
    <3>2. Serves(job[<<r, "hook">>])'
      BY <1>1, <2>1, <3>1 DEF Attempting, Serves
    <3>3. QED
      BY <1>1, <3>1, <3>2 DEF Attempting, IsSeen
  <2>3. ASSUME hook'[r].at = "deciding" PROVE Deciding(r)'
    <3>1. Deciding(r)
      BY <2>3 DEF FillInv
    <3>2. QED
      BY <1>1, <2>1, <3>1 DEF Deciding, IsSeen
  <2>4. QED
    BY <2>2, <2>3
<1>2. CASE doc'.n = doc.n + 1
  <2>1. \A i : IsSeen(i) => i.n # doc'.n /\ IsSeen(i)'
    BY <1>2 DEF IsSeen, FillInv, PageShape
  <2>2. QED
    BY <2>1 DEF FillInv, Attempting, Deciding, Serves
<1>3. QED
  BY <1>1, <1>2 DEF PageMoves

LEMMA ShapeStays ==
  ASSUME PageShape, PageMoves
  PROVE  PageShape'
BY DEF PageShape, PageMoves

LEMMA StartsUnfilled == Init => FillInv
<1> SUFFICES ASSUME Init PROVE FillInv
  OBVIOUS
<1>1. PICK d \in First : doc = [n |-> 1, url |-> d.url, form |-> d.form]
  BY DEF Init
<1>2. d.form \in LoginForms
  BY LoginWatchAssumption
<1>3. PageShape
  BY <1>1, <1>2 DEF Init, PageShape
<1>4. \A r \in Runs : hook[r].at = "idle"
  BY DEF Init, NewHook
<1>5. QED
  BY <1>3, <1>4 DEF FillInv

LEMMA PageStepMoves ==
  ASSUME PageShape, PageStep
  PROVE  PageMoves
<1>1. ASSUME NEW d \in Docs, Shows(d) PROVE PageMoves
  <2>1. d.form \in LoginForms
    BY LoginWatchAssumption
  <2>2. QED
    BY <1>1, <2>1 DEF Shows, PageMoves, PageShape
<1>2. CASE Mutated
  BY <1>2 DEF Mutated, PageMoves
<1>3. ASSUME NEW i \in DOMAIN values, Types(i) PROVE PageMoves
  BY <1>3 DEF Types, PageMoves, PageShape
<1>4. QED
  BY <1>1, <1>2, <1>3 DEF PageStep, Navigates, Rebuilds

\* What is ahead when the first slot is done with.
LEMMA OneLessAhead ==
  ASSUME NEW todo \in Seq(Nat), todo # <<>>, NEW i, Ahead(todo, i)
  PROVE  Tail(todo) \in Seq(Nat) /\ (i = Head(todo) \/ Ahead(Tail(todo), i))
<1>1. PICK k \in DOMAIN todo : todo[k] = i
  BY DEF Ahead
<1>2. CASE k = 1
  BY <1>1, <1>2
<1>3. CASE k # 1
  <2>1. k - 1 \in DOMAIN Tail(todo) /\ Tail(todo)[k - 1] = i
    BY <1>1, <1>3
  <2>2. QED
    BY <2>1 DEF Ahead
<1>4. QED
  BY <1>2, <1>3

\* A slot that now holds something is dropped.
LEMMA DroppedSlotIsServed ==
  ASSUME PageShape, PageMoves, doc' = doc, NEW todo \in Seq(Nat), todo # <<>>,
         Head(todo) \in DOMAIN values => values'[Head(todo)] # "empty",
         NEW i, i # 0 => i \in DOMAIN values, Served(todo, i)
  PROVE  Served(Tail(todo), i)'
<1>1. CASE values[i] # "empty"
  BY <1>1 DEF PageMoves, PageShape, Served
<1>2. CASE Ahead(todo, i)
  <2>1. i = Head(todo) \/ Ahead(Tail(todo), i)
    BY <1>2, OneLessAhead
  <2>2. QED
    BY <2>1 DEF Served
<1>3. QED
  BY <1>1, <1>2 DEF Served

\* The hook's own attempt reads or writes a slot.
LEMMA SlotStepServes ==
  ASSUME WatchInv, FillInv, NEW r \in Runs, FillStep(<<r, "hook">>), Attempting(r)
  PROVE  PageMoves /\ Attempting(r)'
<1> DEFINE w == <<r, "hook">>
           j == job[w]
           h == Head(j.todo)
<1>1. /\ w \in Workers /\ DOMAIN job = Workers /\ DOMAIN j = DOMAIN NoJob
      /\ PageShape /\ UNCHANGED <<doc, hook>>
  BY DEF WatchInv, Shape, Workers, FillInv, FillStep, ReadSlot, WriteSlot, pageVars
<1>2. j.todo \in Seq(Nat) /\ j.todo # <<>> /\ IsSeen(j.info) /\ hook[r].info = j.info /\ Serves(j)
  BY DEF Attempting, FillStep, ReadSlot, WriteSlot
<1>3. PICK u, p : u = UsernameAt(doc.form) /\ p = PasswordAt(doc.form)
  OBVIOUS
<1>4. (u # 0 => u \in DOMAIN values) /\ (p # 0 => p \in DOMAIN values)
  BY <1>1, <1>3, SlotsAreFields DEF PageShape
<1>5. PICK todo \in Seq(Nat) : todo = j.todo /\ todo # <<>>
  BY <1>2
<1>6. CASE /\ Finds(j) /\ PageMoves
           /\ Head(todo) \in DOMAIN values => values'[Head(todo)] # "empty"
           /\ job' = [job EXCEPT ![w] = Dropped(j)]
  <2>1. /\ job'[w].info = j.info /\ job'[w].at = "reading" /\ job'[w].todo = Tail(todo)
        /\ job'[w].with = j.with /\ job'[w].failed = j.failed
    BY <1>1, <1>5, <1>6 DEF Dropped, NoJob
  <2>2. /\ Served(todo, u) => Served(Tail(todo), u)'
        /\ Served(todo, p) => Served(Tail(todo), p)'
    BY <1>1, <1>4, <1>5, <1>6, DroppedSlotIsServed
  <2>3. Serves(j) => Serves(job[w])'
    BY <1>1, <1>3, <1>5, <2>1, <2>2 DEF Serves
  <2>4. Tail(todo) \in Seq(Nat)
    BY <1>5
  <2>5. QED
    BY <1>1, <1>2, <1>6, <2>1, <2>3, <2>4 DEF Attempting, IsSeen
<1>7. CASE UNCHANGED values /\ job' = [job EXCEPT ![w] = [j EXCEPT !.at = "writing"]]
  <2>1. /\ job'[w].info = j.info /\ job'[w].todo = j.todo
        /\ job'[w].with = j.with /\ job'[w].failed = j.failed
    BY <1>1, <1>7 DEF NoJob
  <2>2. PageMoves /\ Serves(job[w])'
    BY <1>1, <1>2, <1>7, <2>1 DEF Serves, Served, PageMoves
  <2>3. QED
    BY <1>1, <1>2, <2>1, <2>2 DEF Attempting, IsSeen
<1>8. CASE UNCHANGED values /\ job' = [job EXCEPT ![w] = Dropped(FailureNoted(j))]
  <2>1. /\ job'[w].info = j.info /\ job'[w].todo = Tail(todo)
        /\ job'[w].failed /\ job'[w].at = "reading"
    BY <1>1, <1>5, <1>8 DEF NoJob, Dropped, FailureNoted
  <2>2. PageMoves /\ Serves(job[w])'
    BY <1>1, <1>8, <2>1 DEF Serves, PageMoves
  <2>3. Tail(todo) \in Seq(Nat)
    BY <1>5
  <2>4. QED
    BY <1>1, <1>2, <2>1, <2>2, <2>3 DEF Attempting, IsSeen
<1>9. QED
  <2>1. CASE ReadSlot(w)
    <3>1. values' = values /\ (Head(todo) \in DOMAIN values => Finds(j) \/ ~Finds(j))
      BY <2>1 DEF ReadSlot, pageVars
    <3>2. PICK answers \in BOOLEAN :
            job' = [job EXCEPT ![w] =
              IF answers /\ Finds(j) /\ values[Head(j.todo)] # "empty"
              THEN Dropped(j) ELSE [j EXCEPT !.at = "writing"]]
      BY <2>1 DEF ReadSlot
    <3>3. CASE answers /\ Finds(j) /\ values[Head(j.todo)] # "empty"
      BY <1>1, <1>5, <1>6, <3>1, <3>2, <3>3 DEF PageMoves
    <3>4. CASE ~(answers /\ Finds(j) /\ values[Head(j.todo)] # "empty")
      BY <1>7, <3>1, <3>2, <3>4
    <3>5. QED
      BY <3>3, <3>4
  <2>2. CASE WriteSlot(w)
    <3>1. CASE /\ Finds(j) /\ values' = [values EXCEPT ![Head(j.todo)] = "filled"]
               /\ job' = [job EXCEPT ![w] = Dropped(j)]
      BY <1>1, <1>5, <1>6, <3>1 DEF PageMoves, PageShape
    <3>2. CASE values' = values /\ job' = [job EXCEPT ![w] = Dropped(FailureNoted(j))]
      BY <1>8, <3>2
    <3>3. QED
      BY <2>2, <3>1, <3>2 DEF WriteSlot
  <2>3. QED
    BY <2>1, <2>2 DEF FillStep

LEMMA FillStepServes ==
  ASSUME WatchInv, FillInv, NEW w \in Workers, FillStep(w)
  PROVE  FillInv'
<1>1. /\ PageShape /\ UNCHANGED <<doc, hook>> /\ DOMAIN job = Workers
      /\ \A u \in Workers \ {w} : job'[u] = job[u]
  BY DEF WatchInv, Shape, FillInv, FillStep, ReadSlot, WriteSlot, pageVars
<1>2. PageMoves
  <2>1. values' = values \/ values' = [values EXCEPT ![Head(job[w].todo)] = "filled"]
    BY DEF FillStep, ReadSlot, WriteSlot, pageVars
  <2>2. QED
    BY <1>1, <2>1 DEF PageMoves, PageShape
<1>3. ASSUME NEW r \in Runs
      PROVE  /\ hook'[r].at = "filling" => Attempting(r)'
             /\ hook'[r].at = "deciding" => Deciding(r)'
  <2>1. CASE w # <<r, "hook">>
    BY <1>1, <1>2, <2>1, OthersGoOn DEF Workers
  <2>2. CASE w = <<r, "hook">>
    <3>1. job[w].at # "none"
      BY DEF FillStep, ReadSlot, WriteSlot
    <3>2. hook[r].at = "filling"
      BY <2>2, <3>1 DEF WatchInv, NoFillAfterRun
    <3>3. QED
      BY <1>1, <2>2, <3>2, SlotStepServes DEF FillInv
  <2>3. QED
    BY <2>1, <2>2
<1>4. QED
  BY <1>1, <1>2, <1>3, ShapeStays DEF FillInv

LEMMA WatchStepServes ==
  ASSUME WatchInv, FillInv, NEW r \in Runs, WatchStep(r)
  PROVE  FillInv'
<1>1. UNCHANGED <<doc, values, hook>> /\ PageShape
  BY DEF WatchStep, DrainBegins, DrainLooks, DrainExtracts, DrainFilled, pageVars, FillInv
<1>2. \A q \in Runs : job'[<<q, "hook">>] = job[<<q, "hook">>]
  <2>1. CASE DrainExtracts(r)
    BY <2>1, ExtractionEnds, Zenon
  <2>2. CASE DrainFilled(r)
    BY <2>2 DEF DrainFilled, WatchInv, Shape, Workers
  <2>3. CASE DrainBegins(r)
    BY <2>3 DEF DrainBegins
  <2>4. CASE DrainLooks(r)
    BY <2>4 DEF DrainLooks
  <2>5. QED
    BY <2>1, <2>2, <2>3, <2>4, Zenon DEF WatchStep
<1>3. PageMoves
  BY <1>1 DEF PageMoves
<1>4. QED
  BY <1>1, <1>2, <1>3, OthersGoOn, ShapeStays DEF FillInv

LEMMA HookStepServes ==
  ASSUME WatchInv, FillInv, NEW r \in Runs, HookStep(r)
  PROVE  FillInv'
<1>1. /\ PageShape /\ DOMAIN hook = Runs /\ DOMAIN job = Workers
      /\ DOMAIN hook[r] = DOMAIN NewHook
  BY DEF FillInv, WatchInv, Shape
<1>2. /\ UNCHANGED <<doc, values>>
      /\ \A q \in Runs \ {r} : hook'[q] = hook[q] /\ job'[<<q, "hook">>] = job[<<q, "hook">>]
  <2>1. CASE ToolReturns(r)
    BY <1>1, <2>1 DEF ToolReturns
  <2>2. CASE TakesFingerprint(r)
    BY <1>1, <2>2 DEF TakesFingerprint, pageVars
  <2>3. CASE Extracts(r)
    BY <1>1, <2>3 DEF Extracts, pageVars, Workers
  <2>4. CASE Filled(r)
    BY <1>1, <2>4 DEF Filled, pageVars, Workers
  <2>5. CASE Decides(r)
    BY <1>1, <2>5 DEF Decides, pageVars
  <2>6. CASE Resumes(r)
    BY <1>1, <2>6 DEF Resumes, pageVars
  <2>7. CASE RunEnds(r)
    BY <1>1, <2>7 DEF RunEnds, Workers
  <2>8. QED
    BY <2>1, <2>2, <2>3, <2>4, <2>5, <2>6, <2>7 DEF HookStep
<1>3. PageMoves
  BY <1>2 DEF PageMoves
<1>4. /\ hook'[r].at = "filling" => Attempting(r)'
      /\ hook'[r].at = "deciding" => Deciding(r)'
  <2>1. ASSUME hook'[r].at = "deciding", hook'[r].info = None
        PROVE  Deciding(r)'
    <3>1. None.n = 0
      BY DEF None
    <3>2. doc' = doc /\ doc.n \in Nat \ {0}
      BY <1>1, <1>2 DEF PageShape
    <3>3. QED
      BY <2>1, <3>1, <3>2 DEF Deciding, IsSeen
  <2>2. CASE ToolReturns(r) \/ Decides(r) \/ Resumes(r) \/ RunEnds(r)
    <3>1. CASE ToolReturns(r)
      BY <1>1, <3>1 DEF ToolReturns, NewHook
    <3>2. CASE Decides(r)
      BY <1>1, <3>2 DEF Decides, NewHook
    <3>3. CASE Resumes(r)
      BY <1>1, <3>3 DEF Resumes, NewHook
    <3>4. CASE RunEnds(r)
      BY <1>1, <3>4 DEF RunEnds, NewHook
    <3>5. QED
      BY <2>2, <3>1, <3>2, <3>3, <3>4
  <2>3. CASE TakesFingerprint(r)
    BY <1>1, <2>1, <2>3 DEF TakesFingerprint, NewHook
  <2>4. CASE Extracts(r)
    <3>1. CASE hook'[r].at = "deciding" /\ hook'[r].info = None
      BY <2>1, <3>1
    <3>2. CASE /\ hook'[r].at = "filling" /\ hook'[r].info = doc
               /\ job' = [job EXCEPT ![<<r, "hook">>] = JobFor(doc)]
      <4>1. job'[<<r, "hook">>] = JobFor(doc)
        BY <1>1, <3>2 DEF Workers
      <4>2. /\ JobFor(doc).info = doc /\ JobFor(doc).at # "writing"
            /\ JobFor(doc).with # 0 => /\ JobFor(doc).todo = Slots(doc.form)
                                       /\ JobFor(doc).failed = SlotMissing(doc.form)
            /\ JobFor(doc).todo \in {<<>>, Slots(doc.form)}
        BY DEF JobFor, NoJob
      <4>3. /\ Slots(doc.form) \in Seq(Nat)
            /\ UsernameAt(doc.form) # 0 => Ahead(Slots(doc.form), UsernameAt(doc.form))
            /\ PasswordAt(doc.form) # 0 => Ahead(Slots(doc.form), PasswordAt(doc.form))
        BY <1>1, SlotsAreAhead DEF PageShape
      <4>4. Serves(JobFor(doc))
        BY <4>2, <4>3 DEF Serves, Served, SlotMissing
      <4>5. Attempting(r)'
        <5>1. PICK j : j = JobFor(doc)
          OBVIOUS
        <5>2. Serves(j)'
          BY <1>2, <4>4, <5>1 DEF Serves, Served
        <5>3. IsSeen(doc) /\ doc' = doc
          BY <1>1, <1>2 DEF IsSeen, PageShape
        <5>4. j.info = doc /\ j.at # "writing"
          BY <4>2, <5>1
        <5>5. j.todo \in Seq(Nat)
          <6>1. <<>> \in Seq(Nat)
            OBVIOUS
          <6>2. QED
            BY <4>2, <4>3, <5>1, <6>1, Zenon
        <5>6. QED
          BY <3>2, <4>1, <5>1, <5>2, <5>3, <5>4, <5>5 DEF Attempting, IsSeen
      <4>6. QED
        BY <3>2, <4>5
    <3> DEFINE Nothing(last) == [hook[r] EXCEPT !.at = "deciding", !.info = None,
                                                !.again = FALSE, !.last = last]
               Skipped == [hook[r] EXCEPT !.at = "deciding", !.info = None, !.again = FALSE,
                                          !.last = None, !.miss = <<>>]
               Found == [hook[r] EXCEPT !.at = "filling", !.info = doc, !.again = FALSE,
                                        !.last = doc, !.miss = <<>>]
    <3>3. /\ \A last : Nothing(last).at = "deciding" /\ Nothing(last).info = None
          /\ Skipped.at = "deciding" /\ Skipped.info = None
          /\ Found.at = "filling" /\ Found.info = doc
      BY <1>1 DEF NewHook
    <3>4. \/ \E last : hook'[r] = Nothing(last)
          \/ hook'[r] = Skipped
          \/ hook'[r] = Found /\ job' = [job EXCEPT ![<<r, "hook">>] = JobFor(doc)]
      <4>1. CASE hook' = [hook EXCEPT ![r] =
                   [@ EXCEPT !.at = "deciding", !.info = None, !.again = FALSE,
                             !.last = IF hook[r].again THEN None ELSE @]]
        <5>1. PICK last : hook' = [hook EXCEPT ![r] =
                [@ EXCEPT !.at = "deciding", !.info = None, !.again = FALSE, !.last = last]]
          BY <4>1, Zenon
        <5>2. hook'[r] = Nothing(last)
          BY <1>1, <5>1
        <5>3. QED
          BY <5>2, Zenon
      <4>2. CASE hook' = [hook EXCEPT ![r] =
                   [@ EXCEPT !.at = "deciding", !.info = None, !.again = FALSE,
                             !.last = None, !.miss = <<>>]]
        BY <1>1, <4>2
      <4>3. CASE /\ hook' = [hook EXCEPT ![r] =
                      [@ EXCEPT !.at = "filling", !.info = doc, !.again = FALSE,
                                !.last = doc, !.miss = <<>>]]
                 /\ job' = [job EXCEPT ![<<r, "hook">>] = JobFor(doc)]
        BY <1>1, <4>3
      <4>4. QED
        BY <2>4, <4>1, <4>2, <4>3, Zenon DEF Extracts
    <3> HIDE DEF Nothing, Skipped, Found
    <3>5. QED
      BY <3>1, <3>2, <3>3, <3>4
  <2>5. CASE Filled(r)
    <3>1. /\ Attempting(r) /\ job[<<r, "hook">>].todo = <<>>
          /\ hook'[r].at = "deciding" /\ hook'[r].info = hook[r].info
          /\ hook'[r].decision = Decision(job[<<r, "hook">>])
      BY <1>1, <2>5 DEF Filled, Done, NewHook, FillInv
    <3>2. Deciding(r)'
      BY <1>2, <3>1 DEF Attempting, Deciding, Serves, Served, IsSeen, Decision
    <3>3. QED
      BY <3>1, <3>2
  <2>6. QED
    BY <2>2, <2>3, <2>4, <2>5 DEF HookStep
<1>5. QED
  BY <1>1, <1>2, <1>3, <1>4, OthersGoOn, ShapeStays DEF FillInv

\* The agent is let go on in the document its hook has looked at only when its
\* user name and password hold something (decide_takeover), for any forms and
\* any number of attempts, people and documents that come in between.
THEOREM ReleasedAgentIsLoggedIn == Spec => []ReleasedOnlyWhenFilled
<1>1. Init => FillInv
  BY StartsUnfilled
<1>2. WatchInv /\ FillInv /\ [Next]_vars => FillInv'
  <2> SUFFICES ASSUME WatchInv, FillInv, [Next]_vars PROVE FillInv'
    OBVIOUS
  <2>1. CASE PageStep \/ CredentialStep \/ UNCHANGED vars
    <3>1. UNCHANGED <<hook, job>>
      BY <2>1 DEF PageStep, Navigates, Rebuilds, Mutated, Types, CredentialStep,
                  SaveBegins, SaveEnds, Delete, vars
    <3>2. PageMoves
      BY <2>1, PageStepMoves DEF FillInv, PageMoves, CredentialStep,
                  SaveBegins, SaveEnds, Delete, vars, pageVars
    <3>3. QED
      BY <3>1, <3>2, OthersGoOn, ShapeStays DEF FillInv
  <2>2. CASE \E w \in Workers : FillStep(w)
    BY <2>2, FillStepServes
  <2>3. CASE \E r \in Runs : WatchStep(r) \/ HookStep(r)
    BY <2>3, WatchStepServes, HookStepServes
  <2>4. QED
    BY <2>1, <2>2, <2>3 DEF Next
<1>3. FillInv => ReleasedOnlyWhenFilled
  <2> SUFFICES ASSUME FillInv, NEW r \in Runs, hook[r].at = "deciding",
                      hook[r].decision = "reset", hook[r].info.n = doc.n
               PROVE  /\ UsernameAt(doc.form) # 0 /\ values[UsernameAt(doc.form)] # "empty"
                      /\ PasswordAt(doc.form) # 0 /\ values[PasswordAt(doc.form)] # "empty"
    BY DEF ReleasedOnlyWhenFilled
  <2>1. \A i : ~Ahead(<<>>, i)
    BY DEF Ahead
  <2>2. QED
    BY <2>1 DEF FillInv, Deciding, Served
<1>4. QED
  BY <1>1, <1>2, <1>3, InductiveInvariant, PTL DEF Spec
=============================================================================
