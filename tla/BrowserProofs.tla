---------------------------- MODULE BrowserProofs ----------------------------
(***************************************************************************)
(* However launches, closes, lost browsers, lost pages and tool calls      *)
(* interleave, and for any number of runs, of concurrent closes and of     *)
(* launches: the manager never holds a mixture of two launches, its tool   *)
(* counter never exceeds the tools that run, and its viewers see what      *)
(* BrowserTarget promises them.  However many viewers share what it        *)
(* promises, one that leaves takes no frames from another.                 *)
(***************************************************************************)
EXTENDS BrowserManager, BrowserStream, FiniteSetTheorems, TLAPS

Running == {r \in Runs : tool[r] # "off"}

RefsInv == /\ mgr.pw \in {0, last} /\ mgr.br \in {0, last}
           /\ mgr.cx \in {0, last} /\ mgr.pg \in {0, last}

IInv == ManagerTypeOK /\ RefsInv /\ mgr.active <= Cardinality(Running)

\* n is m with references dropped, and with the count of tools kept or reset:
\* what every operation but a launch and the count itself does to a manager.
Weaker(m, n) ==
  /\ n \in BrowserManagerType
  /\ n.pw \in {0, m.pw} /\ n.br \in {0, m.br}
  /\ n.cx \in {0, m.cx} /\ n.pg \in {0, m.pg}
  /\ n.active \in {0, m.active}

-----------------------------------------------------------------------------
(* The operations on a manager                                             *)

\* One that changes nothing.
LEMMA WeakerReflexive ==
  ASSUME NEW m \in BrowserManagerType
  PROVE  Weaker(m, m)
BY DEF Weaker

\* One after the other.
LEMMA WeakerTransitive ==
  ASSUME NEW m, NEW n, NEW o, Weaker(m, n), Weaker(n, o)
  PROVE  Weaker(m, o)
BY DEF Weaker

\* Zero is a launch and a count.
LEMMA ZeroType == 0 \in 0..MaxLaunches /\ 0 \in 0..FailureLimit /\ 0 \in Nat
BY BrowserManagerAssumption

\* The two that forget the browser leave no reference.
LEMMA ClearedWeaker ==
  ASSUME NEW m \in BrowserManagerType
  PROVE  /\ Weaker(m, Cleared(m)) /\ Weaker(m, ResetManager(m))
         /\ Cleared(m).pw = 0 /\ Cleared(m).br = 0 /\ Cleared(m).cx = 0
         /\ Cleared(m).pg = 0 /\ ResetManager(m).pg = 0
<1>1. Reset(m.takeover) \in TakeoverType
  BY DEF Reset, BrowserManagerType, TakeoverType, TakeoverStates
<1>2. ASSUME NEW t \in TakeoverType, NEW n,
             n = [m EXCEPT !.pw = 0, !.br = 0, !.cx = 0, !.pg = 0,
                           !.active = 0, !.takeover = t, !.auth = FALSE]
      PROVE  /\ n \in BrowserManagerType
             /\ n.pw = 0 /\ n.br = 0 /\ n.cx = 0 /\ n.pg = 0 /\ n.active = 0
  BY <1>2, ZeroType DEF BrowserManagerType
<1>3. /\ Cleared(m) \in BrowserManagerType
      /\ Cleared(m).pw = 0 /\ Cleared(m).br = 0 /\ Cleared(m).cx = 0
      /\ Cleared(m).pg = 0 /\ Cleared(m).active = 0
  BY <1>1, <1>2 DEF Cleared
<1>4. ASSUME NEW n \in BrowserManagerType, n.pw = 0, n.br = 0, n.cx = 0,
             n.pg = 0, n.active = 0
      PROVE  LET o == [n EXCEPT !.navFails = 0, !.elemFails = 0]
             IN  /\ o \in BrowserManagerType
                 /\ o.pw = 0 /\ o.br = 0 /\ o.cx = 0 /\ o.pg = 0 /\ o.active = 0
  BY <1>4, ZeroType DEF BrowserManagerType
<1>5. /\ ResetManager(m) \in BrowserManagerType
      /\ ResetManager(m).pw = 0 /\ ResetManager(m).br = 0
      /\ ResetManager(m).cx = 0 /\ ResetManager(m).pg = 0
      /\ ResetManager(m).active = 0
  BY <1>3, <1>4 DEF ResetManager
<1>. QED  BY <1>3, <1>5 DEF Weaker

\* A lookup.
LEMMA SeenWeaker ==
  ASSUME NEW m \in BrowserManagerType
  PROVE  Weaker(m, Seen(m))
BY ClearedWeaker, WeakerReflexive DEF Seen

\* A request for a takeover.
LEMMA AskedWeaker ==
  ASSUME NEW m \in BrowserManagerType
  PROVE  Weaker(m, Asked(m))
BY DEF Weaker, Asked, Requested, BrowserManagerType, TakeoverType, TakeoverStates

\* Counting a failure.
LEMMA CountedType ==
  ASSUME NEW n \in 0..FailureLimit
  PROVE  Counted(n) \in 0..FailureLimit
BY BrowserManagerAssumption DEF Counted

LEMMA FailedWeaker ==
  ASSUME NEW m \in BrowserManagerType
  PROVE  Weaker(m, NavFailed(m)) /\ Weaker(m, ElementFailed(m))
<1>1. ASSUME NEW n, n = [m EXCEPT !.navFails = Counted(@)]
      PROVE  Weaker(m, n)
  <2>1. m.navFails \in 0..FailureLimit
    BY DEF BrowserManagerType
  <2>2. Counted(m.navFails) \in 0..FailureLimit
    BY <2>1, CountedType
  <2>. QED  BY <1>1, <2>2 DEF Weaker, BrowserManagerType
<1>2. ASSUME NEW n, n = [m EXCEPT !.elemFails = Counted(@)]
      PROVE  Weaker(m, n)
  <2>1. m.elemFails \in 0..FailureLimit
    BY DEF BrowserManagerType
  <2>2. Counted(m.elemFails) \in 0..FailureLimit
    BY <2>1, CountedType
  <2>. QED  BY <1>2, <2>2 DEF Weaker, BrowserManagerType
<1>3. ASSUME NEW n, Weaker(m, n)
      PROVE  Weaker(m, Asked(n))
  BY <1>3, AskedWeaker, WeakerTransitive DEF Weaker
<1>4. Weaker(m, NavFailed(m))
  BY <1>1, <1>3 DEF NavFailed
<1>5. Weaker(m, ElementFailed(m))
  BY <1>2, <1>3 DEF ElementFailed
<1>. QED  BY <1>4, <1>5

\* What a tool records.
LEMMA RecordedWeaker ==
  ASSUME NEW m \in BrowserManagerType, NEW o \in Outcomes
  PROVE  Weaker(m, Recorded(m, o))
<1>1. CASE o = "quiet"
  BY <1>1, WeakerReflexive DEF Recorded
<1>2. CASE o = "navigated"
  <2>1. Weaker(m, [m EXCEPT !.navFails = 0, !.elemFails = 0])
    BY ZeroType DEF Weaker, BrowserManagerType
  <2>. QED  BY <1>2, <2>1 DEF Recorded
<1>3. CASE o = "unreachable"
  BY <1>3, FailedWeaker DEF Recorded
<1>4. CASE o = "needs_auth"
  <2>1. Weaker(m, [m EXCEPT !.auth = TRUE])
    BY DEF Weaker, BrowserManagerType
  <2>2. Weaker([m EXCEPT !.auth = TRUE], NavFailed([m EXCEPT !.auth = TRUE]))
    BY <2>1, FailedWeaker DEF Weaker
  <2>. QED  BY <1>4, <2>1, <2>2, WeakerTransitive DEF Recorded
<1>5. CASE o = "element_failed"
  BY <1>5, FailedWeaker DEF Recorded
<1>. QED  BY <1>1, <1>2, <1>3, <1>4, <1>5 DEF Outcomes

-----------------------------------------------------------------------------
(* The steps                                                               *)

\* A step that weakens the manager and starts or ends no launch and no tool.
Quiet == /\ Weaker(mgr, mgr') /\ last' = last
         /\ \A r \in Runs : tool'[r] = "off" <=> tool[r] = "off"

LEMMA QuietKeepsRefs ==
  ASSUME IInv, Quiet
  PROVE  RefsInv' /\ (mgr.active <= Cardinality(Running))'
<1>1. RefsInv'
  BY DEF IInv, Quiet, Weaker, RefsInv
<1>2. Running' = Running
  BY DEF Running, Quiet
<1>3. Running \in SUBSET Runs
  BY DEF Running
<1>4. Cardinality(Running) \in Nat
  BY <1>3, FS_Subset, FS_CardinalityType, BrowserManagerAssumption
<1>5. mgr'.active \in {0, mgr.active}
  BY DEF Quiet, Weaker
<1>. QED  BY <1>1, <1>2, <1>4, <1>5 DEF IInv

\* A launch begins with no reference and goes on to set its own.
LEMMA LaunchKeeps ==
  ASSUME IInv, LaunchStep
  PROVE  IInv'
<1>. USE DEF IInv, ManagerTypeOK
<1>0. Running' = Running /\ 0 <= Cardinality(Running)
  <2>1. Running \in SUBSET Runs
    BY DEF Running
  <2>2. Cardinality(Running) \in Nat
    BY <2>1, FS_Subset, FS_CardinalityType, BrowserManagerAssumption
  <2>3. tool' = tool
    BY DEF LaunchStep, Launch, DriverStarts, BrowserStarts, ContextCreated,
           PageCreated, LaunchFails
  <2>. QED  BY <2>2, <2>3 DEF Running
<1>1. CASE Launch
  <2>1. /\ mgr' = Cleared(mgr) /\ stage' = "driver" /\ last' = last + 1
        /\ last < MaxLaunches /\ UNCHANGED <<realVars, closer, tool>>
    BY <1>1 DEF Launch, LaunchBegins
  <2>2. /\ mgr' \in BrowserManagerType /\ mgr'.active \in {0, mgr.active}
        /\ mgr'.pw = 0 /\ mgr'.br = 0 /\ mgr'.cx = 0 /\ mgr'.pg = 0
    BY <2>1, ClearedWeaker DEF Weaker
  <2>3. last' \in Launches /\ last' \in 0..MaxLaunches
    BY <2>1, BrowserManagerAssumption DEF Launches
  <2>4. idle' \in BOOLEAN
    BY <1>1 DEF Launch
  <2>5. ManagerTypeOK'
    BY <2>1, <2>2, <2>3, <2>4 DEF realVars
  <2>. QED  BY <2>2, <2>5, <1>0 DEF RefsInv
<1>2. CASE DriverStarts
  <2>1. mgr' = [mgr EXCEPT !.pw = last] /\ last \in 0..MaxLaunches
    BY <1>2 DEF DriverStarts
  <2>2. /\ mgr' \in BrowserManagerType /\ mgr'.active = mgr.active
        /\ mgr'.pw = last /\ mgr'.br = mgr.br
        /\ mgr'.cx = mgr.cx /\ mgr'.pg = mgr.pg
    BY <2>1 DEF BrowserManagerType
  <2>3. ManagerTypeOK'
    BY <1>2, <2>2 DEF DriverStarts
  <2>. QED  BY <1>2, <2>2, <2>3, <1>0 DEF DriverStarts, RefsInv
<1>3. CASE BrowserStarts
  <2>1. mgr' = [mgr EXCEPT !.br = last] /\ last \in 0..MaxLaunches
    BY <1>3 DEF BrowserStarts
  <2>2. /\ mgr' \in BrowserManagerType /\ mgr'.active = mgr.active
        /\ mgr'.pw = mgr.pw /\ mgr'.br = last
        /\ mgr'.cx = mgr.cx /\ mgr'.pg = mgr.pg
    BY <2>1 DEF BrowserManagerType
  <2>3. ManagerTypeOK'
    BY <1>3, <2>2 DEF BrowserStarts
  <2>. QED  BY <1>3, <2>2, <2>3, <1>0 DEF BrowserStarts, RefsInv
<1>4. CASE ContextCreated
  <2>1. mgr' = [mgr EXCEPT !.cx = last] /\ last \in 0..MaxLaunches
    BY <1>4 DEF ContextCreated
  <2>2. /\ mgr' \in BrowserManagerType /\ mgr'.active = mgr.active
        /\ mgr'.pw = mgr.pw /\ mgr'.br = mgr.br
        /\ mgr'.cx = last /\ mgr'.pg = mgr.pg
    BY <2>1 DEF BrowserManagerType
  <2>3. ManagerTypeOK'
    BY <1>4, <2>2 DEF ContextCreated, realVars
  <2>. QED  BY <1>4, <2>2, <2>3, <1>0 DEF ContextCreated, RefsInv
<1>5. CASE PageCreated
  <2>1. /\ mgr' \in BrowserManagerType /\ mgr'.active \in {0, mgr.active}
        /\ mgr'.pw \in {0, mgr.pw} /\ mgr'.br \in {0, mgr.br}
        /\ mgr'.cx \in {0, mgr.cx} /\ mgr'.pg \in {0, mgr.pg, last}
    <3>1. CASE mgr.cx = 0
      BY <1>5, <3>1, ClearedWeaker DEF PageCreated, Weaker
    <3>2. CASE mgr.cx # 0
      BY <1>5, <3>2 DEF PageCreated, BrowserManagerType
    <3>. QED  BY <3>1, <3>2
  <2>2. (browser[last] # "down") \in BOOLEAN
    OBVIOUS
  <2>3. ManagerTypeOK'
    BY <1>5, <2>1, <2>2 DEF PageCreated
  <2>. QED  BY <1>5, <2>1, <2>3, <1>0 DEF PageCreated, RefsInv
<1>6. CASE LaunchFails
  <2>1. Weaker(mgr, mgr')
    BY <1>6, ClearedWeaker DEF LaunchFails
  <2>2. ManagerTypeOK'
    BY <1>6, <2>1 DEF LaunchFails, realVars, Weaker
  <2>. QED  BY <1>6, <2>1, <2>2, QuietKeepsRefs DEF LaunchFails, Quiet
<1>. QED  BY <1>1, <1>2, <1>3, <1>4, <1>5, <1>6 DEF LaunchStep

\* close() drops references, and changes processes and closers.
LEMMA CloseKeeps ==
  ASSUME IInv, NEW c \in Closers, CloseStep(c)
  PROVE  IInv'
<1>. USE DEF IInv, ManagerTypeOK
<1>1. Weaker(mgr, mgr')
  BY SeenWeaker, ClearedWeaker, WeakerReflexive
     DEF CloseStep, CloseBegins, CloseBrowserDone, CloseDriverDone, CloseEnds
<1>2. UNCHANGED <<stage, last, tool>>
  BY DEF CloseStep, CloseBegins, CloseBrowserDone, CloseDriverDone
<1>3. /\ closer' \in [Closers -> [at : {"idle", "browser", "driver"},
                                  target : 0..MaxLaunches]]
      /\ idle' \in BOOLEAN
  <2>1. CASE CloseBegins(c)
    <3>1. mgr.br \in 0..MaxLaunches
      BY DEF BrowserManagerType
    <3>2. [at |-> "browser", target |-> mgr.br]
            \in [at : {"idle", "browser", "driver"}, target : 0..MaxLaunches]
      BY <3>1
    <3>3. CASE IsLaunched(mgr)
      BY <2>1, <3>2, <3>3 DEF CloseBegins
    <3>4. CASE ~IsLaunched(mgr)
      BY <2>1, <3>4 DEF CloseBegins
    <3>. QED  BY <3>3, <3>4
  <2>2. CASE CloseBrowserDone(c)
    <3>1. mgr.pw \in 0..MaxLaunches
      BY DEF BrowserManagerType
    <3>. QED  BY <2>2, <3>1, ZeroType DEF CloseBrowserDone, CloseEnds
  <2>3. CASE CloseDriverDone(c)
    BY <2>3, ZeroType DEF CloseDriverDone, CloseEnds
  <2>. QED  BY <2>1, <2>2, <2>3 DEF CloseStep
<1>4. /\ driver' \in [Launches -> {"none", "up", "stopped"}]
      /\ browser' \in [Launches -> {"none", "up", "told", "down"}]
      /\ open' \in [Launches -> BOOLEAN]
  <2>1. CASE CloseBegins(c)
    BY <2>1 DEF CloseBegins, Told
  <2>2. CASE CloseBrowserDone(c)
    BY <2>2 DEF CloseBrowserDone, realVars
  <2>3. CASE CloseDriverDone(c)
    <3>1. PICK l : /\ driver' = [driver EXCEPT ![l] = "stopped"]
                   /\ browser' = [browser EXCEPT ![l] =
                                     IF @ = "none" THEN @ ELSE "down"]
                   /\ open' = [open EXCEPT ![l] = FALSE]
      BY <2>3 DEF CloseDriverDone
    <3>. QED  BY <3>1
  <2>. QED  BY <2>1, <2>2, <2>3 DEF CloseStep
<1>5. ManagerTypeOK'
  BY <1>1, <1>2, <1>3, <1>4 DEF Weaker
<1>6. Quiet
  BY <1>1, <1>2 DEF Quiet
<1>. QED  BY <1>5, <1>6, QuietKeepsRefs

\* So do the events of the browser and the idle timer.
LEMMA EventKeeps ==
  ASSUME IInv, \/ \E l \in Launches : EventStep(l)
               \/ IdleArmed \/ IdleFires
  PROVE  IInv'
<1>. USE DEF IInv, ManagerTypeOK
<1>1. CASE \E l \in Launches : EventStep(l)
  <2>0. PICK l \in Launches : EventStep(l)
    BY <1>1
  <2>1. Weaker(mgr, mgr')
    <3>1. \A b \in BOOLEAN : Weaker(mgr, [mgr EXCEPT !.auth = b])
      BY DEF Weaker, BrowserManagerType
    <3>. QED  BY <2>0, <3>1, ClearedWeaker, WeakerReflexive
                 DEF EventStep, Disconnected, PageClosed, Response
  <2>2. /\ browser' \in [Launches -> {"none", "up", "told", "down"}]
        /\ open' \in [Launches -> BOOLEAN]
    BY <2>0 DEF EventStep, Disconnected, PageClosed, Response, realVars
  <2>3. UNCHANGED <<stage, last, driver, closer, idle, tool>>
    BY <2>0 DEF EventStep, Disconnected, PageClosed, Response, realVars
  <2>4. ManagerTypeOK'
    BY <2>1, <2>2, <2>3 DEF Weaker
  <2>. QED  BY <2>1, <2>3, <2>4, QuietKeepsRefs DEF Quiet
<1>2. CASE IdleArmed
  <2>1. Weaker(mgr, mgr')
    BY <1>2, SeenWeaker DEF IdleArmed
  <2>2. idle' \in BOOLEAN
    <3>1. idle' = IsLaunched(mgr)
      BY <1>2 DEF IdleArmed
    <3>2. IsLaunched(mgr) \in BOOLEAN
      BY Zenon DEF IsLaunched
    <3>. QED  BY <3>1, <3>2, Zenon
  <2>3. ManagerTypeOK'
    BY <1>2, <2>1, <2>2 DEF IdleArmed, realVars, Weaker
  <2>. QED  BY <1>2, <2>1, <2>3, QuietKeepsRefs DEF IdleArmed, Quiet
<1>3. CASE IdleFires
  <2>1. Weaker(mgr, mgr')
    BY <1>3, SeenWeaker DEF IdleFires
  <2>2. browser' \in [Launches -> {"none", "up", "told", "down"}]
    BY <1>3 DEF IdleFires, Told
  <2>3. idle' \in BOOLEAN /\ UNCHANGED <<stage, last, driver, open, closer, tool>>
    BY <1>3 DEF IdleFires
  <2>4. ManagerTypeOK'
    BY <2>1, <2>2, <2>3 DEF Weaker
  <2>. QED  BY <2>1, <2>3, <2>4, QuietKeepsRefs DEF Quiet
<1>. QED  BY <1>1, <1>2, <1>3

\* The steps of a tool and of the takeover it asked for.
LEMMA ToolWeakens ==
  ASSUME IInv, NEW r \in Runs,
         \/ ToolEnters(r) \/ ToolActs(r) \/ ToolLooked(r) \/ ToolTimesOut(r)
         \/ TakeoverMoves(r)
  PROVE  Weaker(mgr, mgr')
<1>0. mgr \in BrowserManagerType
  BY DEF IInv, ManagerTypeOK
<1>1. CASE ToolEnters(r)
  BY <1>0, <1>1, SeenWeaker DEF ToolEnters
<1>2. CASE ToolActs(r)
  <2>1. PICK o \in Outcomes : \/ mgr' = Asked(Recorded(mgr, o))
                              \/ mgr' = Seen(Recorded(mgr, o))
    BY <1>2 DEF ToolActs
  <2>2. Weaker(mgr, Recorded(mgr, o)) /\ Recorded(mgr, o) \in BrowserManagerType
    BY <1>0, RecordedWeaker DEF Weaker
  <2>. QED  BY <2>1, <2>2, AskedWeaker, SeenWeaker, WeakerTransitive
<1>3. CASE ToolLooked(r)
  BY <1>0, <1>3, AskedWeaker, WeakerReflexive DEF ToolLooked
<1>4. CASE ToolTimesOut(r)
  BY <1>0, <1>4, WeakerReflexive DEF ToolTimesOut
<1>5. CASE TakeoverMoves(r)
  <2>1. \A t \in TakeoverType :
          /\ Weaker(mgr, [mgr EXCEPT !.takeover = t])
          /\ Weaker(mgr, [mgr EXCEPT !.takeover = t, !.auth = FALSE])
    BY <1>0 DEF Weaker, BrowserManagerType
  <2>2. mgr.takeover \in TakeoverType
    BY <1>0 DEF BrowserManagerType
  <2>3. /\ Waiting(mgr.takeover, r) \in TakeoverType
        /\ HumanControl(mgr.takeover) \in TakeoverType
        /\ Completed(mgr.takeover) \in TakeoverType
        /\ Cancelled(mgr.takeover) \in TakeoverType
        /\ Reset(mgr.takeover) \in TakeoverType
    BY <2>2 DEF Waiting, HumanControl, Completed, Cancelled, Reset,
                TakeoverType, TakeoverStates
  <2>. QED  BY <1>5, <2>1, <2>3 DEF TakeoverMoves
<1>. QED  BY <1>1, <1>2, <1>3, <1>4, <1>5

\* The counter follows the tools that run, up and down.
LEMMA ToolKeeps ==
  ASSUME IInv, NEW r \in Runs, ToolStep(r)
  PROVE  IInv'
<1>0. /\ mgr \in BrowserManagerType
      /\ tool \in [Runs -> {"off", "started", "acting", "looking", "finishing"}]
      /\ UNCHANGED <<stage, last, driver, browser, open, closer>>
  BY DEF IInv, ManagerTypeOK, ToolStep, ToolStart, ToolEnters, ToolActs,
         ToolLooked, ToolTimesOut, ToolFinish, TakeoverMoves, realVars
<1>1. ASSUME mgr' \in BrowserManagerType, idle' \in BOOLEAN,
             tool' \in [Runs -> {"off", "started", "acting", "looking", "finishing"}]
      PROVE  ManagerTypeOK'
  BY <1>0, <1>1 DEF IInv, ManagerTypeOK
<1>2. /\ IsFiniteSet(Running) /\ Cardinality(Running) \in Nat
      /\ mgr.active \in Nat /\ mgr.active <= Cardinality(Running)
  <2>1. Running \in SUBSET Runs
    BY DEF Running
  <2>. QED  BY <1>0, <2>1, FS_Subset, FS_CardinalityType,
               BrowserManagerAssumption DEF IInv, BrowserManagerType
<1>3. CASE ToolStart(r)
  <2>1. /\ mgr' \in BrowserManagerType /\ mgr'.active = mgr.active + 1
        /\ mgr'.pw = mgr.pw /\ mgr'.br = mgr.br
        /\ mgr'.cx = mgr.cx /\ mgr'.pg = mgr.pg
    BY <1>0, <1>3 DEF ToolStart, ToolStarted, BrowserManagerType
  <2>2. /\ tool' \in [Runs -> {"off", "started", "acting", "looking", "finishing"}]
        /\ Running' = Running \cup {r} /\ r \notin Running
    BY <1>0, <1>3 DEF ToolStart, Running
  <2>3. Cardinality(Running') = Cardinality(Running) + 1
    BY <1>2, <2>2, FS_AddElement
  <2>4. idle' \in BOOLEAN
    BY <1>3 DEF ToolStart, IInv, ManagerTypeOK
  <2>5. RefsInv'
    BY <1>0, <2>1 DEF IInv, RefsInv
  <2>. QED  BY <1>1, <1>2, <2>1, <2>2, <2>3, <2>4, <2>5 DEF IInv
<1>4. CASE ToolFinish(r)
  <2>1. /\ mgr' \in BrowserManagerType
        /\ mgr'.active = IF mgr.active > 0 THEN mgr.active - 1 ELSE 0
        /\ mgr'.pw = mgr.pw /\ mgr'.br = mgr.br
        /\ mgr'.cx = mgr.cx /\ mgr'.pg = mgr.pg
    BY <1>0, <1>4 DEF ToolFinish, ToolFinished, BrowserManagerType
  <2>2. /\ tool' \in [Runs -> {"off", "started", "acting", "looking", "finishing"}]
        /\ Running' = Running \ {r} /\ r \in Running
    BY <1>0, <1>4 DEF ToolFinish, Running
  <2>3. /\ Cardinality(Running') = Cardinality(Running) - 1
        /\ Cardinality(Running') \in Nat
    BY <1>2, <2>2, FS_RemoveElement, FS_CardinalityType
  <2>4. idle' \in BOOLEAN
    BY <1>4 DEF ToolFinish, IInv, ManagerTypeOK
  <2>5. RefsInv'
    BY <1>0, <2>1 DEF IInv, RefsInv
  <2>. QED  BY <1>1, <1>2, <2>1, <2>2, <2>3, <2>4, <2>5 DEF IInv
<1>5. CASE \/ ToolEnters(r) \/ ToolActs(r) \/ ToolLooked(r) \/ ToolTimesOut(r)
           \/ TakeoverMoves(r)
  <2>1. Weaker(mgr, mgr')
    BY <1>5, ToolWeakens
  <2>2. /\ tool' \in [Runs -> {"off", "started", "acting", "looking", "finishing"}]
        /\ \A q \in Runs : tool'[q] = "off" <=> tool[q] = "off"
    BY <1>0, <1>5 DEF ToolEnters, ToolActs, ToolLooked, ToolTimesOut, TakeoverMoves
  <2>3. idle' \in BOOLEAN
    BY <1>5 DEF ToolEnters, ToolActs, ToolLooked, ToolTimesOut, TakeoverMoves,
                IInv, ManagerTypeOK
  <2>4. ManagerTypeOK' /\ Quiet
    BY <1>0, <1>1, <2>1, <2>2, <2>3 DEF Quiet, Weaker
  <2>. QED  BY <2>4, QuietKeepsRefs DEF IInv
<1>. QED  BY <1>3, <1>4, <1>5 DEF ToolStep

-----------------------------------------------------------------------------
(* The invariant                                                           *)

LEMMA InitInv == ManagerInit => IInv
<1>. SUFFICES ASSUME ManagerInit PROVE IInv
  OBVIOUS
<1>1. [state |-> "running", timer |-> NoRun] \in TakeoverType
  BY DEF TakeoverType, TakeoverStates
<1>2. mgr \in BrowserManagerType /\ RefsInv /\ mgr.active = 0
  BY <1>1, ZeroType DEF ManagerInit, NewManager, BrowserManagerType, RefsInv
<1>3. ManagerTypeOK
  BY <1>2, ZeroType DEF ManagerInit, ManagerTypeOK
<1>4. Running = {}
  BY DEF ManagerInit, Running
<1>. QED  BY <1>2, <1>3, <1>4, FS_EmptySet DEF IInv

LEMMA NextInv == IInv /\ [ManagerNext]_managerVars => IInv'
<1>. SUFFICES ASSUME IInv, [ManagerNext]_managerVars PROVE IInv'
  OBVIOUS
<1>1. CASE UNCHANGED managerVars
  BY <1>1 DEF managerVars, realVars, IInv, ManagerTypeOK, RefsInv, Running, Launches
<1>2. CASE LaunchStep
  BY <1>2, LaunchKeeps
<1>3. CASE \E c \in Closers : CloseStep(c)
  BY <1>3, CloseKeeps
<1>4. CASE (\E l \in Launches : EventStep(l)) \/ IdleArmed \/ IdleFires
  BY <1>4, EventKeeps
<1>5. CASE \E r \in Runs : ToolStep(r)
  BY <1>5, ToolKeeps
<1>. QED  BY <1>1, <1>2, <1>3, <1>4, <1>5 DEF ManagerNext

\* Every reachable state of every instance satisfies the invariant.
THEOREM InductiveInvariant == ManagerSpec => []IInv
BY InitInv, NextInv, PTL DEF ManagerSpec

\* The four references the manager keeps (BrowserManager._playwright,
\* ._browser, ._context, ._page) are None or of the newest launch, whatever
\* close, loss, failure or lookup clears them at whatever await of a launch.
THEOREM OneLaunch == ManagerSpec => []RefsAreOfOneLaunch
<1>1. IInv => RefsAreOfOneLaunch
  BY DEF IInv, RefsInv, RefsAreOfOneLaunch, Refs
<1>. QED  BY <1>1, InductiveInvariant, PTL

\* BrowserManager.is_tool_running counts no tool that has ended, however many
\* run at once and however often the count was reset under them.
THEOREM CountSound == ManagerSpec => []ToolCountSound
<1>1. IInv => ToolCountSound
  BY DEF IInv, Running, ToolCountSound
<1>. QED  BY <1>1, InductiveInvariant, PTL

-----------------------------------------------------------------------------
(* The refinement                                                          *)

\* A step that only drops references is, to a viewer, none or a Forget.
LEMMA QuietForgets ==
  ASSUME Weaker(mgr, mgr'), UNCHANGED <<stage, last, open>>
  PROVE  [Target!TargetNext]_(Target!targetVars)
<1>1. CASE mgr'.pg = mgr.pg
  BY <1>1 DEF Target!targetVars
<1>2. CASE mgr'.pg = 0
  BY <1>2 DEF Target!TargetNext, Target!Forget
<1>. QED  BY <1>1, <1>2 DEF Weaker

\* The first await of a launch is LaunchStarts, its end LaunchEnds; between
\* them it shows nothing.
LEMMA LaunchImplements ==
  ASSUME IInv, LaunchStep
  PROVE  [Target!TargetNext]_(Target!targetVars)
<1>0. /\ mgr \in BrowserManagerType /\ open \in [Launches -> BOOLEAN]
      /\ stage # "idle" => last \in Launches
      /\ mgr.pg \in {0, last}
  BY DEF IInv, ManagerTypeOK, RefsInv
<1>1. CASE Launch
  <2>1. mgr'.pg = 0
    BY <1>0, <1>1, ClearedWeaker DEF Launch, LaunchBegins
  <2>2. /\ stage = "idle" /\ stage' = "driver" /\ last < MaxLaunches
        /\ last' = last + 1 /\ open' = open
    BY <1>1 DEF Launch, LaunchBegins, realVars
  <2>3. Target!LaunchStarts
    BY <2>1, <2>2 DEF Target!LaunchStarts
  <2>. QED  BY <2>3 DEF Target!TargetNext
<1>2. CASE DriverStarts \/ BrowserStarts \/ ContextCreated
  <2>1. mgr'.pg = mgr.pg
    BY <1>0, <1>2 DEF DriverStarts, BrowserStarts, ContextCreated, BrowserManagerType
  <2>2. stage # "idle" /\ stage' # "idle" /\ last' = last /\ open' = open
    BY <1>2 DEF DriverStarts, BrowserStarts, ContextCreated, realVars
  <2>3. (stage' # "idle") = (stage # "idle")
    BY <2>2
  <2>. QED  BY <2>1, <2>2, <2>3 DEF Target!targetVars
<1>3. CASE PageCreated
  <2>1. mgr'.pg \in {0, last}
    <3>1. CASE mgr.cx = 0
      BY <1>0, <1>3, <3>1, ClearedWeaker DEF PageCreated
    <3>2. CASE mgr.cx # 0
      BY <1>0, <1>3, <3>2 DEF PageCreated, BrowserManagerType
    <3>. QED  BY <3>1, <3>2
  <2>2. PICK o \in BOOLEAN : open' = [open EXCEPT ![last] = o]
    BY <1>3 DEF PageCreated
  <2>3. stage # "idle" /\ stage' = "idle" /\ last' = last
    BY <1>3 DEF PageCreated
  <2>4. Target!LaunchEnds
    BY <2>1, <2>2, <2>3 DEF Target!LaunchEnds
  <2>. QED  BY <2>4 DEF Target!TargetNext
<1>4. CASE LaunchFails
  <2>1. mgr'.pg = 0
    BY <1>0, <1>4, ClearedWeaker DEF LaunchFails
  <2>2. /\ stage # "idle" /\ stage' = "idle" /\ last' = last /\ open' = open
        /\ last \in Launches
    BY <1>0, <1>4 DEF LaunchFails, realVars
  <2>3. PICK o \in BOOLEAN : open' = [open EXCEPT ![last] = o]
    <3>1. open[last] \in BOOLEAN /\ open' = [open EXCEPT ![last] = open[last]]
      BY <1>0, <2>2
    <3>. QED  BY <3>1
  <2>4. Target!LaunchEnds
    BY <2>1, <2>2, <2>3 DEF Target!LaunchEnds
  <2>. QED  BY <2>4 DEF Target!TargetNext
<1>. QED  BY <1>1, <1>2, <1>3, <1>4 DEF LaunchStep

\* A page that goes away, with its browser or alone, is a Vanish.
LEMMA VanishImplements ==
  ASSUME NEW l \in Launches, open' = [open EXCEPT ![l] = FALSE],
         mgr'.pg \in {0, mgr.pg}, mgr'.pg # l, UNCHANGED <<stage, last>>
  PROVE  [Target!TargetNext]_(Target!targetVars)
<1>1. Target!Vanish(l)
  BY DEF Target!Vanish
<1>. QED  BY <1>1 DEF Target!TargetNext, Target!Pages, Launches

LEMMA CloseImplements ==
  ASSUME IInv, NEW c \in Closers, CloseStep(c)
  PROVE  [Target!TargetNext]_(Target!targetVars)
<1>0. /\ mgr \in BrowserManagerType /\ open \in [Launches -> BOOLEAN]
      /\ closer[c].target \in 0..MaxLaunches
  BY DEF IInv, ManagerTypeOK
<1>1. CASE CloseBegins(c) \/ CloseBrowserDone(c)
  <2>1. Weaker(mgr, mgr')
    BY <1>0, <1>1, SeenWeaker, ClearedWeaker, WeakerReflexive
       DEF CloseBegins, CloseBrowserDone, CloseEnds
  <2>. QED  BY <1>1, <2>1, QuietForgets
            DEF CloseBegins, CloseBrowserDone, realVars
<1>2. CASE CloseDriverDone(c)
  <2>1. /\ open' = [open EXCEPT ![closer[c].target] = FALSE]
        /\ mgr' = Cleared(mgr) /\ UNCHANGED <<stage, last>>
    BY <1>2 DEF CloseDriverDone, CloseEnds
  <2>2. Weaker(mgr, mgr') /\ mgr'.pg = 0
    BY <1>0, <2>1, ClearedWeaker
  <2>3. CASE closer[c].target \in Launches
    <3>1. 0 \notin Launches
      BY DEF Launches
    <3>. QED  BY <2>1, <2>2, <2>3, <3>1, VanishImplements
  <2>4. CASE closer[c].target \notin Launches
    <3>1. open' = open
      BY <1>0, <2>1, <2>4
    <3>. QED  BY <2>1, <2>2, <3>1, QuietForgets
  <2>. QED  BY <2>3, <2>4
<1>. QED  BY <1>1, <1>2 DEF CloseStep

LEMMA EventImplements ==
  ASSUME IInv, NEW l \in Launches, EventStep(l)
  PROVE  [Target!TargetNext]_(Target!targetVars)
<1>0. mgr \in BrowserManagerType /\ 0 # l
  BY DEF IInv, ManagerTypeOK, Launches
<1>1. CASE Disconnected(l) \/ PageClosed(l)
  <2>1. mgr'.pg \in {0, mgr.pg} /\ mgr'.pg # l
    BY <1>0, <1>1, ClearedWeaker DEF Disconnected, PageClosed
  <2>. QED  BY <1>1, <2>1, VanishImplements DEF Disconnected, PageClosed
<1>2. CASE Response(l)
  <2>1. Weaker(mgr, mgr')
    BY <1>0, <1>2 DEF Response, Weaker, BrowserManagerType
  <2>. QED  BY <1>2, <2>1, QuietForgets DEF Response, realVars
<1>. QED  BY <1>1, <1>2 DEF EventStep

LEMMA ToolImplements ==
  ASSUME IInv, NEW r \in Runs, ToolStep(r)
  PROVE  [Target!TargetNext]_(Target!targetVars)
<1>0. mgr \in BrowserManagerType
  BY DEF IInv, ManagerTypeOK
<1>1. UNCHANGED <<stage, last, open>>
  BY DEF ToolStep, ToolStart, ToolEnters, ToolActs, ToolLooked, ToolTimesOut,
         ToolFinish, TakeoverMoves, realVars
<1>2. CASE ToolStart(r) \/ ToolFinish(r)
  <2>1. mgr'.pg = mgr.pg
    BY <1>0, <1>2 DEF ToolStart, ToolFinish, ToolStarted, ToolFinished,
                      BrowserManagerType
  <2>. QED  BY <1>1, <2>1 DEF Target!targetVars
<1>3. CASE \/ ToolEnters(r) \/ ToolActs(r) \/ ToolLooked(r) \/ ToolTimesOut(r)
           \/ TakeoverMoves(r)
  BY <1>1, <1>3, ToolWeakens, QuietForgets
<1>. QED  BY <1>2, <1>3 DEF ToolStep

LEMMA StepImplements ==
  IInv /\ [ManagerNext]_managerVars => [Target!TargetNext]_(Target!targetVars)
<1>. SUFFICES ASSUME IInv, [ManagerNext]_managerVars
              PROVE  [Target!TargetNext]_(Target!targetVars)
  OBVIOUS
<1>0. mgr \in BrowserManagerType
  BY DEF IInv, ManagerTypeOK
<1>1. CASE UNCHANGED managerVars
  BY <1>1 DEF managerVars, realVars, Target!targetVars
<1>2. CASE LaunchStep
  BY <1>2, LaunchImplements
<1>3. CASE \E c \in Closers : CloseStep(c)
  BY <1>3, CloseImplements
<1>4. CASE \E l \in Launches : EventStep(l)
  BY <1>4, EventImplements
<1>5. CASE IdleArmed \/ IdleFires
  <2>1. Weaker(mgr, mgr')
    BY <1>0, <1>5, SeenWeaker DEF IdleArmed, IdleFires
  <2>. QED  BY <1>5, <2>1, QuietForgets DEF IdleArmed, IdleFires, realVars
<1>6. CASE \E r \in Runs : ToolStep(r)
  BY <1>6, ToolImplements
<1>. QED  BY <1>1, <1>2, <1>3, <1>4, <1>5, <1>6 DEF ManagerNext

\* To those who read its page (BrowserManager.page, GET /browser/stream), the
\* manager behaves as BrowserTarget: a launch begins without a page and ends
\* with its own or none, and a page that goes away is forgotten in that step.
THEOREM ManagerImplementsTarget == ManagerSpec => ImplementsTarget
<1>1. ManagerInit => Target!TargetInit
  BY DEF ManagerInit, NewManager, Target!TargetInit, Launches, Target!Pages
<1>. QED  BY <1>1, InductiveInvariant, StepImplements, PTL
             DEF ManagerSpec, ImplementsTarget, Target!TargetSpec
-----------------------------------------------------------------------------
(* Viewers                                                                 *)

Locked == {"attaching", "stopping"}

\* Where a handler is before it has shown a page: nobody helps it yet.
Early(v) == \/ v.ws \in {"waiting", "starting", "attaching", "recovering", "launching"}
            \/ v.ws \in {"closing", "stopping"} /\ ~v.retried

\* Of a connection c: v is its view, n the registered connection and s whom
\* pages send frames to.  The page of the registered connection, and of one
\* that stops what it took for its own stream, sends to no other, unless a
\* restart has written the page and does not hold the lock yet.
Viewing(c, v, n, s) ==
  /\ Early(v) => v.helper = "off"
  /\ n = c => v.ws # "off" /\ ~Early(v)
  /\ v.helper = "attaching" => n \in {c, NoConn}
  /\ v.owns => v.ws = "stopping" \/ v.helper = "stopping"
  /\ v.page # 0 /\ s[v.page] \notin {c, NoConn} =>
       /\ n = c => v.helper = "starting" /\ v.page = v.aim
       /\ v.owns => v.helper = "starting"

OneHolder ==
  \A c, d \in Conns, j, k \in Tasks : Holds(c, j) /\ Holds(d, k) => c = d /\ j = k

ViewersInv ==
  /\ ViewersTypeOK /\ OneHolder
  /\ \A c \in Conns : Viewing(c, view[c], conn, sink)

\* A registration that is forgotten and streams that end disturb nobody.
LEMMA LessIsFine ==
  ASSUME NEW c \in Conns, NEW v \in ViewType, NEW n, NEW s, NEW m, NEW t,
         Viewing(c, v, n, s), m \in {n, NoConn}, \A l \in Pages : t[l] \in {s[l], NoConn}
  PROVE  Viewing(c, v, m, t)
<1>1. NoConn # c
  BY BrowserStreamAssumption
<1>2. v.page # 0 => v.page \in Pages
  BY BrowserStreamAssumption DEF ViewType, Pages
<1>3. QED
  BY <1>1, <1>2 DEF Viewing

\* Nor does another's stream, if neither the lock nor the registration is c's.
LEMMA OthersAreFine ==
  ASSUME NEW c, NEW v, NEW n, NEW s, NEW m, NEW t, Viewing(c, v, n, s),
         v.ws \notin Locked, v.helper \notin Locked, m # c
  PROVE  Viewing(c, v, m, t)
BY DEF Viewing, Locked

\* A step of one connection.
LEMMA ViewStepKeeps ==
  ASSUME ViewersInv, NEW c \in Conns, NEW w \in ViewType, view' = [view EXCEPT ![c] = w],
         ViewersTypeOK', Viewing(c, w, conn', sink'),
         \A d \in Conns \ {c} : Viewing(d, view[d], conn', sink'),
         \/ /\ w.ws \in Locked => Holds(c, "ws")
            /\ w.helper \in Locked => Holds(c, "helper")
         \/ LockFree /\ ~(w.ws \in Locked /\ w.helper \in Locked)
  PROVE  ViewersInv'
<1>1. view'[c] = w /\ \A d \in Conns \ {c} : view'[d] = view[d]
  BY DEF ViewersInv, ViewersTypeOK
<1>2. \A d \in Conns : Viewing(d, view[d], conn, sink)'
  BY <1>1
<1>3. OneHolder'
  <2>1. SUFFICES ASSUME NEW d \in Conns, NEW e \in Conns, NEW j \in Tasks, NEW k \in Tasks,
                        Holds(d, j)', Holds(e, k)'
                 PROVE  d = e /\ j = k
    BY DEF OneHolder
  <2>2. \A f \in Conns \ {c}, i \in Tasks : Holds(f, i)' <=> Holds(f, i)
    BY <1>1 DEF Holds
  <2>3. /\ Holds(c, "ws")' <=> w.ws \in Locked
        /\ Holds(c, "helper")' <=> w.helper \in Locked
    BY <1>1 DEF Holds, Locked
  <2>4. CASE /\ w.ws \in Locked => Holds(c, "ws")
             /\ w.helper \in Locked => Holds(c, "helper")
    <3>1. Holds(d, j) /\ Holds(e, k)
      BY <2>1, <2>2, <2>3, <2>4 DEF Tasks
    <3>2. QED
      BY <3>1 DEF ViewersInv, OneHolder
  <2>5. CASE LockFree /\ ~(w.ws \in Locked /\ w.helper \in Locked)
    <3>1. d = c /\ e = c
      BY <2>1, <2>2, <2>5 DEF LockFree
    <3>2. QED
      BY <2>1, <2>3, <2>5, <3>1 DEF Tasks
  <2>6. QED
    BY <2>4, <2>5
<1>4. QED
  BY <1>2, <1>3 DEF ViewersInv

LEMMA QuietStepKeeps ==
  ASSUME ViewersInv, NEW c \in Conns, NEW w \in ViewType, view' = [view EXCEPT ![c] = w],
         TargetTypeOK', conn' \in {conn, NoConn},
         sink' = sink \/ \E l \in Nat : sink' = [sink EXCEPT ![l] = NoConn],
         Viewing(c, w, conn', sink'),
         \/ /\ w.ws \in Locked => Holds(c, "ws")
            /\ w.helper \in Locked => Holds(c, "helper")
         \/ LockFree /\ ~(w.ws \in Locked /\ w.helper \in Locked)
  PROVE  ViewersInv'
<1>1. /\ view \in [Conns -> ViewType] /\ conn \in Conns \cup {NoConn}
      /\ sink \in [Pages -> Conns \cup {NoConn}]
  BY DEF ViewersInv, ViewersTypeOK
<1>2. sink' \in [Pages -> Conns \cup {NoConn}] /\ \A l \in Pages : sink'[l] \in {sink[l], NoConn}
  BY <1>1
<1>3. ViewersTypeOK'
  BY <1>1, <1>2 DEF ViewersTypeOK
<1>4. \A d \in Conns \ {c} : Viewing(d, view[d], conn', sink')
  <2>1. TAKE d \in Conns \ {c}
  <2>2. view[d] \in ViewType /\ Viewing(d, view[d], conn, sink)
    BY <1>1 DEF ViewersInv
  <2>3. QED
    BY <1>2, <2>2, LessIsFine
<1>5. QED
  BY <1>3, <1>4, ViewStepKeeps

LEMMA LooksIsQuiet ==
  ASSUME ViewersInv, NEW p \in 0..MaxPages, Looks(p), UNCHANGED <<launching, newest, alive>>
  PROVE  TargetTypeOK' /\ conn' \in {conn, NoConn}
BY BrowserStreamAssumption DEF ViewersInv, ViewersTypeOK, TargetTypeOK, Looks, Forgotten

LEMMA ForgottenIsQuiet ==
  ASSUME ViewersInv, Forgotten, UNCHANGED <<launching, newest, alive>>
  PROVE  TargetTypeOK' /\ conn' \in {conn, NoConn}
BY BrowserStreamAssumption DEF ViewersInv, ViewersTypeOK, TargetTypeOK, Forgotten

LEMMA NothingIsQuiet ==
  ASSUME ViewersInv, UNCHANGED <<targetVars, conn>>
  PROVE  TargetTypeOK' /\ conn' \in {conn, NoConn}
BY DEF ViewersInv, ViewersTypeOK, TargetTypeOK, targetVars

LEMMA ViewOf ==
  ASSUME ViewersInv, NEW c \in Conns
  PROVE  /\ view[c] \in ViewType /\ Viewing(c, view[c], conn, sink)
         /\ NoConn # c /\ conn \in Conns \cup {NoConn}
         /\ sink \in [Pages -> Conns \cup {NoConn}]
BY BrowserStreamAssumption DEF ViewersInv, ViewersTypeOK

LEMMA ConnectKeeps ==
  ASSUME ViewersInv, NEW c \in Conns, Connect(c)
  PROVE  ViewersInv'
<1> DEFINE w == [NewView EXCEPT !.ws = "waiting"]
<1>1. w \in ViewType
  <2>1. 0 \in 0..MaxPages
    BY BrowserStreamAssumption
  <2>2. NewView \in ViewType
    BY <2>1 DEF NewView, ViewType
  <2>3. QED
    BY <2>2 DEF ViewType
<1>2. Viewing(c, w, conn', sink')
  BY ViewOf DEF Viewing, Early, NewView, Connect, ViewType
<1>3. w.ws \notin Locked /\ w.helper \notin Locked
  BY DEF NewView, Locked
<1>4. view' = [view EXCEPT ![c] = w] /\ sink' = sink
  BY DEF Connect, Moves
<1>5. TargetTypeOK' /\ conn' \in {conn, NoConn}
  BY NothingIsQuiet DEF Connect
<1> HIDE DEF w
<1>6. QED
  BY <1>1, <1>2, <1>3, <1>4, <1>5, QuietStepKeeps

LEMMA PageFoundKeeps ==
  ASSUME ViewersInv, NEW c \in Conns, PageFound(c)
  PROVE  ViewersInv'
<1>1. PICK p \in 0..MaxPages :
        /\ Looks(p)
        /\ IF p # 0
           THEN Moves(c, [view[c] EXCEPT !.ws = "starting", !.page = p, !.track = TRUE])
           ELSE Moves(c, [view[c] EXCEPT !.ws = "closing"])
  BY DEF PageFound
<1>2. view[c].ws = "waiting" /\ sink' = sink /\ UNCHANGED <<launching, newest, alive>>
  BY DEF PageFound
<1>3. TargetTypeOK' /\ conn' \in {conn, NoConn}
  BY <1>1, <1>2, LooksIsQuiet
<1>4. PICK w \in ViewType :
        /\ view' = [view EXCEPT ![c] = w] /\ w.owns = view[c].owns /\ w.helper = view[c].helper
        /\ \/ w.ws = "starting" /\ w.page = p /\ p # 0
           \/ w.ws = "closing" /\ w.page = view[c].page /\ w.retried = view[c].retried
  <2>1. CASE p # 0
    <3> DEFINE u == [view[c] EXCEPT !.ws = "starting", !.page = p, !.track = TRUE]
    <3>1. u \in ViewType /\ u.owns = view[c].owns /\ u.helper = view[c].helper
      BY ViewOf DEF ViewType
    <3>2. u.ws = "starting" /\ u.page = p /\ view' = [view EXCEPT ![c] = u]
      BY <1>1, <2>1, ViewOf DEF Moves, ViewType
    <3> HIDE DEF u
    <3>3. QED
      BY <2>1, <3>1, <3>2
  <2>2. CASE p = 0
    <3> DEFINE u == [view[c] EXCEPT !.ws = "closing"]
    <3>1. /\ u \in ViewType /\ u.owns = view[c].owns /\ u.helper = view[c].helper
          /\ u.retried = view[c].retried /\ u.page = view[c].page
      BY ViewOf DEF ViewType
    <3>2. u.ws = "closing" /\ view' = [view EXCEPT ![c] = u]
      BY <1>1, <2>2, ViewOf DEF Moves, ViewType
    <3> HIDE DEF u
    <3>3. QED
      BY <3>1, <3>2
  <2>3. QED
    BY <2>1, <2>2
<1>5. QED
  <2>1. conn # c /\ view[c].helper = "off" /\ ~view[c].owns
    BY <1>2, ViewOf DEF Viewing, Early, ViewType
  <2>2. w.ws \notin {"off", "stopping", "attaching"} /\ w.helper = "off" /\ ~w.owns /\ conn' # c
    BY <1>3, <1>4, <2>1, ViewOf
  <2>3. Viewing(c, w, conn', sink')
    BY <2>2 DEF Viewing
  <2>4. w.ws \notin Locked /\ w.helper \notin Locked
    BY <2>2 DEF Locked
  <2>5. QED
    BY <1>2, <1>3, <1>4, <2>3, <2>4, QuietStepKeeps

LEMMA AttachKeeps ==
  ASSUME ViewersInv, NEW c \in Conns, NEW k \in Tasks, Attach(c, k)
  PROVE  ViewersInv'
<1>1. view[c][k] = "starting" /\ LockFree /\ conn' = conn
  BY DEF Attach
<1>2. TargetTypeOK' /\ conn' \in {conn, NoConn}
  BY NothingIsQuiet DEF Attach
<1>3. view[c].ws \notin Locked /\ view[c].helper \notin Locked
  BY <1>1 DEF LockFree, Holds, Locked, Tasks
<1>4. CASE k = "ws"
  <2> DEFINE w == [view[c] EXCEPT !.ws = "attaching"]
  <2>1. w \in ViewType /\ view' = [view EXCEPT ![c] = w]
    BY <1>4, ViewOf DEF Attach, Moves, ViewType
  <2>2. PICK l \in Nat : sink' = [sink EXCEPT ![l] = NoConn]
    BY <1>4, ViewOf DEF Attach, PageOf, ViewType
  <2>3. Viewing(c, w, conn', sink')
    BY <1>1, <1>4, ViewOf DEF Viewing, Early, ViewType
  <2>4. LockFree /\ ~(w.ws \in Locked /\ w.helper \in Locked)
    BY <1>1, <1>3, ViewOf DEF ViewType
  <2> HIDE DEF w
  <2>5. QED
    BY <1>2, <2>1, <2>2, <2>3, <2>4, QuietStepKeeps
<1>5. CASE k = "helper" /\ conn = c
  <2> DEFINE w == [view[c] EXCEPT !.helper = "attaching"]
  <2>1. w \in ViewType /\ view' = [view EXCEPT ![c] = w]
    BY <1>5, ViewOf DEF Attach, Moves, ViewType
  <2>2. PICK l \in Nat : l = view[c].aim /\ sink' = [sink EXCEPT ![l] = NoConn]
    BY <1>5, ViewOf DEF Attach, PageOf, ViewType
  <2>3. Viewing(c, w, conn', sink')
    <3>1. /\ view[c].page # 0 /\ sink[view[c].page] \notin {c, NoConn} => view[c].page = view[c].aim
          /\ ~Early(view[c]) /\ view[c].ws # "off"
          /\ view[c].owns => view[c].ws = "stopping"
      BY <1>1, <1>5, ViewOf DEF Viewing
    <3>2. ~view[c].owns
      BY <1>3, <3>1, ViewOf DEF Locked, ViewType
    <3>3. view[c].page # 0 => view[c].page \in Pages
      BY BrowserStreamAssumption, ViewOf DEF ViewType, Pages
    <3>4. view[c].page # 0 => sink'[view[c].page] \in {c, NoConn}
      BY <2>2, <3>1, <3>3, ViewOf
    <3>5. /\ w.ws = view[c].ws /\ w.helper = "attaching" /\ w.page = view[c].page
          /\ w.owns = view[c].owns /\ w.retried = view[c].retried
      BY ViewOf DEF ViewType
    <3>6. ~Early(w) /\ w.ws # "off"
      BY <3>1, <3>5 DEF Early
    <3> HIDE DEF w
    <3>7. QED
      BY <1>1, <1>5, <3>2, <3>4, <3>5, <3>6 DEF Viewing
  <2>4. LockFree /\ ~(w.ws \in Locked /\ w.helper \in Locked)
    BY <1>1, <1>3, ViewOf DEF ViewType
  <2> HIDE DEF w
  <2>5. QED
    BY <1>2, <2>1, <2>2, <2>3, <2>4, QuietStepKeeps
<1>6. CASE k = "helper" /\ conn # c
  <2> DEFINE w == [view[c] EXCEPT !.helper = "off"]
  <2>1. w \in ViewType /\ view' = [view EXCEPT ![c] = w] /\ sink' = sink
    BY <1>6, ViewOf DEF Attach, Moves, ViewType
  <2>2. Viewing(c, w, conn', sink')
    <3>1. view[c].owns => view[c].ws = "stopping"
      BY <1>1, <1>6, ViewOf DEF Viewing
    <3>2. ~view[c].owns
      BY <1>3, <3>1, ViewOf DEF Locked, ViewType
    <3>3. w.helper = "off" /\ w.owns = view[c].owns
      BY ViewOf DEF ViewType
    <3>4. QED
      BY <1>1, <1>6, <3>2, <3>3 DEF Viewing
  <2>3. w.ws \notin Locked /\ w.helper \notin Locked
    BY <1>3, ViewOf DEF ViewType, Locked
  <2> HIDE DEF w
  <2>4. QED
    BY <1>2, <2>1, <2>2, <2>3, QuietStepKeeps
<1>7. QED
  BY <1>4, <1>5, <1>6 DEF Tasks

LEMMA AttachedKeeps ==
  ASSUME ViewersInv, NEW c \in Conns, NEW k \in Tasks, Attached(c, k)
  PROVE  ViewersInv'
<1>1. view[c][k] = "attaching" /\ sink' = [sink EXCEPT ![PageOf(c, k)] = c]
  BY DEF Attached
<1>2. TargetTypeOK'
  BY DEF Attached, ViewersInv, ViewersTypeOK, TargetTypeOK, targetVars
<1>3. sink' \in [Pages -> Conns \cup {NoConn}]
  BY <1>1, ViewOf
<1>4. Holds(c, k)
  BY <1>1 DEF Holds
<1>5. \A d \in Conns \ {c} : view[d].ws \notin Locked /\ view[d].helper \notin Locked
  BY <1>4 DEF ViewersInv, OneHolder, Holds, Locked, Tasks
<1>6. \A j \in Tasks \ {k} : view[c][j] \notin Locked
  BY <1>4 DEF ViewersInv, OneHolder, Holds, Locked, Tasks
<1>7. CASE k = "ws"
  <2> DEFINE w == [view[c] EXCEPT !.ws = "viewing"]
  <2>1. w \in ViewType /\ view' = [view EXCEPT ![c] = w] /\ conn' = c
    BY <1>7, ViewOf DEF Attached, Moves, ViewType
  <2>2. /\ w.ws = "viewing" /\ w.helper = view[c].helper /\ w.owns = view[c].owns
        /\ w.page = view[c].page
    BY ViewOf DEF ViewType
  <2>3. view[c].helper = "off" /\ ~view[c].owns
    BY <1>1, <1>7, ViewOf DEF Viewing, Early, ViewType
  <2>4. w.page # 0 => sink'[w.page] = c
    BY <1>1, <1>7, <2>2, ViewOf, BrowserStreamAssumption DEF PageOf, ViewType, Pages
  <2>5. ViewersTypeOK'
    BY <1>2, <1>3, <2>1, ViewOf DEF ViewersInv, ViewersTypeOK
  <2>6. \A d \in Conns \ {c} : Viewing(d, view[d], conn', sink')
    BY <1>5, <2>1, ViewOf, OthersAreFine
  <2> HIDE DEF w
  <2>7. Viewing(c, w, conn', sink')
    BY <2>1, <2>2, <2>3, <2>4 DEF Viewing, Early
  <2>8. w.ws \notin Locked /\ w.helper \notin Locked
    BY <2>2, <2>3 DEF Locked
  <2>9. QED
    BY <2>1, <2>5, <2>6, <2>7, <2>8, ViewStepKeeps
<1>8. CASE k = "helper"
  <2> DEFINE w == [view[c] EXCEPT !.helper = "off"]
  <2>1. w \in ViewType /\ view' = [view EXCEPT ![c] = w] /\ conn' = conn
    BY <1>8, ViewOf DEF Attached, Moves, ViewType
  <2>2. /\ w.helper = "off" /\ w.ws = view[c].ws /\ w.owns = view[c].owns
        /\ w.page = view[c].page /\ w.retried = view[c].retried
    BY ViewOf DEF ViewType
  <2>3. view[c].helper = "attaching" /\ view[c].ws \notin Locked
    BY <1>1, <1>6, <1>8 DEF Tasks
  <2>4. conn \in {c, NoConn} /\ ~view[c].owns
    BY <2>3, ViewOf DEF Viewing, Locked, ViewType
  <2>5. w.page # 0 /\ sink'[w.page] \notin {c, NoConn} => sink[w.page] \notin {c, NoConn}
    BY <1>1, <2>2, ViewOf, BrowserStreamAssumption DEF ViewType, Pages
  <2>6. ViewersTypeOK'
    BY <1>2, <1>3, <2>1, ViewOf DEF ViewersInv, ViewersTypeOK
  <2>7. \A d \in Conns \ {c} : Viewing(d, view[d], conn', sink')
    BY <1>5, <2>1, <2>4, ViewOf, OthersAreFine
  <2> HIDE DEF w
  <2>8. Viewing(c, w, conn', sink')
    <3>1. Viewing(c, view[c], conn, sink)
      BY ViewOf
    <3>2. conn = c => ~(w.page # 0 /\ sink[w.page] \notin {c, NoConn})
      BY <2>2, <2>3, <3>1 DEF Viewing
    <3>3. conn = c => w.ws # "off" /\ ~Early(w)
      BY <2>2, <3>1 DEF Viewing, Early
    <3>4. QED
      BY <2>1, <2>2, <2>4, <2>5, <3>2, <3>3 DEF Viewing
  <2>9. w.ws \notin Locked /\ w.helper \notin Locked
    BY <2>2, <2>3 DEF Locked
  <2>10. QED
    BY <2>1, <2>6, <2>7, <2>8, <2>9, ViewStepKeeps
<1>9. QED
  BY <1>7, <1>8 DEF Tasks

LEMMA AttachFailsKeeps ==
  ASSUME ViewersInv, NEW c \in Conns, NEW k \in Tasks, AttachFails(c, k)
  PROVE  ViewersInv'
<1>1. view[c][k] = "attaching" /\ sink' = sink
  BY DEF AttachFails
<1>2. PICK closed \in BOOLEAN :
        /\ closed = ~alive[PageOf(c, k)]
        /\ IF closed THEN Forgotten ELSE UNCHANGED <<page, conn>>
        /\ IF k = "ws"
           THEN Moves(c, [view[c] EXCEPT !.ws = "closing", !.closed = closed])
           ELSE Moves(c, [view[c] EXCEPT !.clears = TRUE,
                                         !.helper = IF closed THEN "closing" ELSE "off"])
  BY DEF AttachFails
<1>3. TargetTypeOK' /\ conn' \in {conn, NoConn}
  BY <1>2, ForgottenIsQuiet, NothingIsQuiet DEF AttachFails, targetVars
<1>4. Holds(c, k)
  BY <1>1 DEF Holds
<1>5. \A j \in Tasks \ {k} : view[c][j] \notin Locked
  BY <1>4 DEF ViewersInv, OneHolder, Holds, Locked, Tasks
<1>6. CASE k = "ws"
  <2> DEFINE w == [view[c] EXCEPT !.ws = "closing", !.closed = closed]
  <2>1. w \in ViewType /\ view' = [view EXCEPT ![c] = w]
    <3>1. w \in ViewType
      BY ViewOf DEF ViewType
    <3>2. QED
      BY <1>2, <1>6, <3>1 DEF Moves
  <2>2. w.ws = "closing" /\ w.helper = view[c].helper /\ w.owns = view[c].owns
    BY ViewOf DEF ViewType
  <2>3. view[c].helper = "off" /\ ~view[c].owns /\ conn # c
    BY <1>1, <1>6, ViewOf DEF Viewing, Early, ViewType
  <2> HIDE DEF w
  <2>4. Viewing(c, w, conn', sink')
    BY <1>3, <2>2, <2>3, ViewOf DEF Viewing
  <2>5. w.ws \notin Locked /\ w.helper \notin Locked
    BY <2>2, <2>3 DEF Locked
  <2>6. QED
    BY <1>1, <1>3, <2>1, <2>4, <2>5, QuietStepKeeps
<1>7. CASE k = "helper"
  <2> DEFINE w == [view[c] EXCEPT !.clears = TRUE,
                                  !.helper = IF closed THEN "closing" ELSE "off"]
  <2>1. w \in ViewType /\ view' = [view EXCEPT ![c] = w]
    <3>1. w \in ViewType
      BY ViewOf DEF ViewType
    <3>2. QED
      BY <1>2, <1>7, <3>1 DEF Moves
  <2>2. /\ w.helper \in {"off", "closing"} /\ w.ws = view[c].ws /\ w.owns = view[c].owns
        /\ w.page = view[c].page /\ w.retried = view[c].retried
    BY ViewOf DEF ViewType
  <2>3. view[c].helper = "attaching" /\ view[c].ws \notin Locked
    BY <1>1, <1>5, <1>7 DEF Tasks
  <2> HIDE DEF w
  <2>4. Viewing(c, w, conn', sink')
    <3>1. Viewing(c, view[c], conn, sink)
      BY ViewOf
    <3>2. ~view[c].owns /\ ~Early(view[c])
      BY <2>3, <3>1, ViewOf DEF Viewing, Locked, ViewType
    <3>3. ~Early(w) /\ (conn = c => w.ws # "off")
      BY <2>2, <3>1, <3>2 DEF Viewing, Early
    <3>4. conn = c => ~(w.page # 0 /\ sink[w.page] \notin {c, NoConn})
      BY <2>2, <2>3, <3>1 DEF Viewing
    <3>5. QED
      BY <1>1, <1>3, <2>2, <3>2, <3>3, <3>4, ViewOf DEF Viewing
  <2>5. w.ws \notin Locked /\ w.helper \notin Locked
    BY <2>2, <2>3 DEF Locked
  <2>6. QED
    BY <1>1, <1>3, <2>1, <2>4, <2>5, QuietStepKeeps
<1>8. QED
  BY <1>6, <1>7 DEF Tasks

LEMMA RestartKeeps ==
  ASSUME ViewersInv, NEW c \in Conns, Restart(c)
  PROVE  ViewersInv'
<1>1. /\ view[c].helper = "off" /\ conn = c /\ sink' = sink
      /\ UNCHANGED <<launching, newest, alive>>
  BY DEF Restart
<1>2. PICK p \in 0..MaxPages :
        /\ Looks(p)
        /\ IF p # 0
           THEN Moves(c, [view[c] EXCEPT !.helper = "starting", !.page = p, !.aim = p])
           ELSE Moves(c, [view[c] EXCEPT !.helper = "closing", !.clears = TRUE])
  BY DEF Restart
<1>3. TargetTypeOK' /\ conn' \in {conn, NoConn}
  BY <1>1, <1>2, LooksIsQuiet
<1>4. PICK w \in ViewType :
        /\ view' = [view EXCEPT ![c] = w]
        /\ w.ws = view[c].ws /\ w.owns = view[c].owns /\ w.retried = view[c].retried
        /\ \/ w.helper = "starting" /\ w.page = w.aim
           \/ w.helper = "closing" /\ w.page = view[c].page
  <2>1. CASE p # 0
    <3> DEFINE u == [view[c] EXCEPT !.helper = "starting", !.page = p, !.aim = p]
    <3>1. /\ u \in ViewType /\ u.ws = view[c].ws /\ u.owns = view[c].owns
          /\ u.retried = view[c].retried /\ u.helper = "starting" /\ u.page = u.aim
      BY ViewOf DEF ViewType
    <3>2. view' = [view EXCEPT ![c] = u]
      BY <1>2, <2>1 DEF Moves
    <3> HIDE DEF u
    <3>3. QED
      BY <3>1, <3>2
  <2>2. CASE p = 0
    <3> DEFINE u == [view[c] EXCEPT !.helper = "closing", !.clears = TRUE]
    <3>1. /\ u \in ViewType /\ u.ws = view[c].ws /\ u.owns = view[c].owns
          /\ u.retried = view[c].retried /\ u.helper = "closing" /\ u.page = view[c].page
      BY ViewOf DEF ViewType
    <3>2. view' = [view EXCEPT ![c] = u]
      BY <1>2, <2>2 DEF Moves
    <3> HIDE DEF u
    <3>3. QED
      BY <3>1, <3>2
  <2>3. QED
    BY <2>1, <2>2
<1>5. Viewing(c, w, conn', sink')
  <2>1. /\ ~Early(view[c]) /\ view[c].ws # "off" /\ (view[c].owns => view[c].ws = "stopping")
        /\ ~(view[c].page # 0 /\ sink[view[c].page] \notin {c, NoConn})
    BY <1>1, ViewOf DEF Viewing
  <2>2. ~Early(w) /\ w.ws # "off"
    BY <1>4, <2>1 DEF Early
  <2>3. QED
    BY <1>1, <1>4, <2>1, <2>2 DEF Viewing
<1>6. /\ w.ws \in Locked => Holds(c, "ws")
      /\ w.helper \in Locked => Holds(c, "helper")
  BY <1>4 DEF Holds, Locked
<1>7. QED
  BY <1>1, <1>3, <1>4, <1>5, <1>6, QuietStepKeeps

LEMMA IceFailsKeeps ==
  ASSUME ViewersInv, NEW c \in Conns, IceFails(c)
  PROVE  ViewersInv'
<1> DEFINE w == [view[c] EXCEPT !.helper = "closing", !.clears = FALSE]
<1>1. w \in ViewType /\ view' = [view EXCEPT ![c] = w]
  BY ViewOf DEF IceFails, Moves, ViewType
<1>2. /\ w.ws = "viewing" /\ w.helper = "closing" /\ w.owns = view[c].owns
      /\ w.page = view[c].page /\ view[c].ws = "viewing" /\ view[c].helper = "off"
      /\ sink' = sink /\ conn' = conn
  BY ViewOf DEF IceFails, ViewType
<1>3. TargetTypeOK' /\ conn' \in {conn, NoConn}
  BY NothingIsQuiet DEF IceFails
<1> HIDE DEF w
<1>4. Viewing(c, w, conn', sink')
  BY <1>2, ViewOf DEF Viewing, Early
<1>5. w.ws \notin Locked /\ w.helper \notin Locked
  BY <1>2 DEF Locked
<1>6. QED
  BY <1>1, <1>2, <1>3, <1>4, <1>5, QuietStepKeeps

LEMMA DisconnectKeeps ==
  ASSUME ViewersInv, NEW c \in Conns, Disconnect(c)
  PROVE  ViewersInv'
<1> DEFINE w == [view[c] EXCEPT !.ws = "closing", !.retried = TRUE]
<1>1. w \in ViewType /\ view' = [view EXCEPT ![c] = w]
  <2>1. w \in ViewType
    BY ViewOf DEF ViewType
  <2>2. QED
    BY <2>1 DEF Disconnect, Moves
<1>2. /\ w.ws = "closing" /\ w.helper = view[c].helper /\ w.owns = view[c].owns
      /\ w.page = view[c].page /\ w.aim = view[c].aim /\ w.retried /\ view[c].ws = "viewing"
      /\ sink' = sink /\ conn' = conn
  BY ViewOf DEF Disconnect, ViewType
<1>3. TargetTypeOK' /\ conn' \in {conn, NoConn}
  BY NothingIsQuiet DEF Disconnect
<1> HIDE DEF w
<1>4. Viewing(c, w, conn', sink')
  BY <1>2, ViewOf DEF Viewing, Early
<1>5. /\ w.ws \in Locked => Holds(c, "ws")
      /\ w.helper \in Locked => Holds(c, "helper")
  BY <1>2 DEF Locked, Holds
<1>6. QED
  BY <1>1, <1>2, <1>3, <1>4, <1>5, QuietStepKeeps

LEMMA StopKeeps ==
  ASSUME ViewersInv, NEW c \in Conns, NEW k \in Tasks, Stop(c, k)
  PROVE  ViewersInv'
<1>1. view[c][k] = "closing" /\ LockFree /\ sink' = sink /\ conn' = conn
  BY DEF Stop
<1>2. PICK o \in BOOLEAN :
        /\ o <=> conn = c
        /\ Moves(c, [view[c] EXCEPT ![k] = "stopping", !.owns = o, !.track = FALSE])
  BY DEF Stop, Owns
<1>3. TargetTypeOK' /\ conn' \in {conn, NoConn}
  BY NothingIsQuiet DEF Stop
<1>4. view[c].ws \notin Locked /\ view[c].helper \notin Locked
  BY <1>1 DEF LockFree, Holds, Locked, Tasks
<1>5. CASE k = "ws"
  <2> DEFINE w == [view[c] EXCEPT !.ws = "stopping", !.owns = o, !.track = FALSE]
  <2>1. w \in ViewType /\ view' = [view EXCEPT ![c] = w]
    BY <1>2, <1>5, ViewOf DEF Moves, ViewType
  <2>2. /\ w.ws = "stopping" /\ w.helper = view[c].helper /\ w.owns = o
        /\ w.page = view[c].page /\ w.aim = view[c].aim /\ w.retried = view[c].retried
    BY ViewOf DEF ViewType
  <2> HIDE DEF w
  <2>3. Viewing(c, w, conn', sink')
    BY <1>1, <1>2, <1>5, <2>2, ViewOf DEF Viewing, Early
  <2>4. LockFree /\ ~(w.ws \in Locked /\ w.helper \in Locked)
    BY <1>1, <1>4, <2>2
  <2>5. QED
    BY <1>1, <1>3, <2>1, <2>3, <2>4, QuietStepKeeps
<1>6. CASE k = "helper"
  <2> DEFINE w == [view[c] EXCEPT !.helper = "stopping", !.owns = o, !.track = FALSE]
  <2>1. w \in ViewType /\ view' = [view EXCEPT ![c] = w]
    BY <1>2, <1>6, ViewOf DEF Moves, ViewType
  <2>2. /\ w.helper = "stopping" /\ w.ws = view[c].ws /\ w.owns = o
        /\ w.page = view[c].page /\ w.aim = view[c].aim /\ w.retried = view[c].retried
    BY ViewOf DEF ViewType
  <2> HIDE DEF w
  <2>3. Viewing(c, w, conn', sink')
    BY <1>1, <1>2, <1>6, <2>2, ViewOf DEF Viewing, Early
  <2>4. LockFree /\ ~(w.ws \in Locked /\ w.helper \in Locked)
    BY <1>1, <1>4, <2>2
  <2>5. QED
    BY <1>1, <1>3, <2>1, <2>3, <2>4, QuietStepKeeps
<1>7. QED
  BY <1>5, <1>6 DEF Tasks

LEMMA StoppedKeeps ==
  ASSUME ViewersInv, NEW c \in Conns, NEW k \in Tasks, Stopped(c, k)
  PROVE  ViewersInv'
<1>1. view[c][k] = "stopping" /\ (k = "ws" => conn' # c)
  BY ViewOf DEF Stopped
<1>2. sink' = sink \/ \E l \in Nat : sink' = [sink EXCEPT ![l] = NoConn]
  <2>1. view[c].page \in Nat
    BY ViewOf, BrowserStreamAssumption DEF ViewType
  <2>2. QED
    BY <2>1 DEF Stopped
<1>3. TargetTypeOK' /\ conn' \in {conn, NoConn}
  BY DEF Stopped, ViewersInv, ViewersTypeOK, TargetTypeOK, targetVars
<1>4. Holds(c, k)
  BY <1>1 DEF Holds
<1>5. \A j \in Tasks \ {k} : view[c][j] \notin Locked
  BY <1>4 DEF ViewersInv, OneHolder, Holds, Locked, Tasks
<1>6. CASE k = "ws"
  <2>1. PICK a \in {"recovering", "off"} :
          /\ a = AfterClose(view[c])
          /\ a = "recovering" => ~view[c].retried
    BY DEF AfterClose
  <2> DEFINE w == [view[c] EXCEPT !.ws = a, !.page = 0, !.owns = FALSE]
  <2>2. w \in ViewType /\ view' = [view EXCEPT ![c] = w]
    <3>1. 0 \in 0..MaxPages
      BY BrowserStreamAssumption
    <3>2. w \in ViewType
      BY <2>1, <3>1, ViewOf DEF ViewType
    <3>3. Moves(c, [view[c] EXCEPT ![k] = a, !.page = 0, !.owns = FALSE])
      BY <1>6, <2>1 DEF Stopped
    <3>4. QED
      BY <1>6, <3>2, <3>3 DEF Moves
  <2>3. w.ws = a /\ w.helper = view[c].helper /\ ~w.owns /\ w.page = 0
    BY ViewOf DEF ViewType
  <2> HIDE DEF w
  <2>4. Early(w) => w.helper = "off"
    BY <1>1, <1>6, <2>1, <2>3, ViewOf DEF Viewing, Early
  <2>5. view[c].helper \notin Locked
    BY <1>5, <1>6 DEF Tasks
  <2>6. Viewing(c, w, conn', sink')
    BY <1>1, <1>6, <2>3, <2>4, <2>5 DEF Viewing, Locked
  <2>7. w.ws \notin Locked /\ w.helper \notin Locked
    BY <2>1, <2>3, <2>5 DEF Locked
  <2>8. QED
    BY <1>2, <1>3, <2>2, <2>6, <2>7, QuietStepKeeps
<1>7. CASE k = "helper"
  <2> DEFINE w == [view[c] EXCEPT !.helper = "off", !.page = 0, !.owns = FALSE]
  <2>1. w \in ViewType /\ view' = [view EXCEPT ![c] = w]
    <3>1. 0 \in 0..MaxPages
      BY BrowserStreamAssumption
    <3>2. w \in ViewType
      BY <3>1, ViewOf DEF ViewType
    <3>3. Moves(c, [view[c] EXCEPT ![k] = "off", !.page = 0, !.owns = FALSE])
      BY <1>7 DEF Stopped
    <3>4. QED
      BY <1>7, <3>2, <3>3 DEF Moves
  <2>2. /\ w.helper = "off" /\ w.ws = view[c].ws /\ ~w.owns /\ w.page = 0
        /\ w.retried = view[c].retried
    BY ViewOf DEF ViewType
  <2> HIDE DEF w
  <2>3. Viewing(c, w, conn', sink')
    BY <1>3, <2>2, ViewOf DEF Viewing, Early
  <2>4. w.ws \notin Locked /\ w.helper \notin Locked
    BY <1>5, <1>7, <2>2 DEF Locked, Tasks
  <2>5. QED
    BY <1>2, <1>3, <2>1, <2>3, <2>4, QuietStepKeeps
<1>8. QED
  BY <1>6, <1>7 DEF Tasks

\* A recovery changes where the handler of the connection is.
LEMMA RecoveringKeeps ==
  ASSUME ViewersInv, NEW c \in Conns, NEW w \in ViewType,
         view[c].ws \in {"recovering", "launching"},
         w.ws \in {"waiting", "launching", "off"}, w.helper = view[c].helper,
         w.owns = view[c].owns, view' = [view EXCEPT ![c] = w], sink' = sink,
         TargetTypeOK', conn' \in {conn, NoConn}
  PROVE  ViewersInv'
<1>1. conn # c /\ view[c].helper = "off" /\ ~view[c].owns
  BY ViewOf DEF Viewing, Early, ViewType
<1>2. Viewing(c, w, conn', sink')
  BY <1>1, ViewOf DEF Viewing
<1>3. w.ws \notin Locked /\ w.helper \notin Locked
  BY <1>1 DEF Locked
<1>4. QED
  BY <1>2, <1>3, QuietStepKeeps

LEMMA AfterRecovery ==
  ASSUME NEW v \in ViewType, NEW w \in {Retry(v), GivesUp(v), [v EXCEPT !.ws = "launching"]}
  PROVE  /\ w \in ViewType /\ w.ws \in {"waiting", "launching", "off"}
         /\ w.helper = v.helper /\ w.owns = v.owns
<1>1. CASE w = Retry(v)
  BY <1>1 DEF Retry, ViewType
<1>2. CASE w = GivesUp(v)
  BY <1>2 DEF GivesUp, ViewType
<1>3. CASE w = [v EXCEPT !.ws = "launching"]
  BY <1>3 DEF ViewType
<1>4. QED
  BY <1>1, <1>2, <1>3

LEMMA RecoverKeeps ==
  ASSUME ViewersInv, NEW c \in Conns, Recover(c)
  PROVE  ViewersInv'
<1>1. view[c].ws = "recovering" /\ sink' = sink
  BY DEF Recover
<1>2. PICK p \in 0..MaxPages :
       \/ /\ p # 0 /\ Looks(p) /\ Moves(c, Retry(view[c]))
          /\ UNCHANGED <<launching, newest, alive>>
       \/ /\ p = 0 /\ LaunchStarts /\ conn' = NoConn
          /\ Moves(c, [view[c] EXCEPT !.ws = "launching"])
       \/ /\ p = 0 /\ launching /\ Moves(c, GivesUp(view[c]))
          /\ UNCHANGED <<targetVars, conn>>
  BY DEF Recover
<1>3. TargetTypeOK' /\ conn' \in {conn, NoConn}
  <2>1. CASE Looks(p) /\ UNCHANGED <<launching, newest, alive>>
    BY <2>1, LooksIsQuiet
  <2>2. CASE LaunchStarts /\ conn' = NoConn
    BY <2>2, BrowserStreamAssumption
    DEF LaunchStarts, ViewersInv, ViewersTypeOK, TargetTypeOK
  <2>3. CASE UNCHANGED <<targetVars, conn>>
    BY <2>3, NothingIsQuiet
  <2>4. QED
    BY <1>2, <2>1, <2>2, <2>3
<1>4. PICK w \in {Retry(view[c]), GivesUp(view[c]), [view[c] EXCEPT !.ws = "launching"]} :
        view' = [view EXCEPT ![c] = w]
  BY <1>2 DEF Moves
<1>5. QED
  BY <1>1, <1>3, <1>4, ViewOf, AfterRecovery, RecoveringKeeps

LEMMA RecoveredKeeps ==
  ASSUME ViewersInv, NEW c \in Conns, Recovered(c)
  PROVE  ViewersInv'
<1>1. view[c].ws = "launching" /\ sink' = sink
  BY DEF Recovered
<1>2. TargetTypeOK' /\ conn' \in {conn, NoConn}
  BY LooksIsQuiet DEF Recovered
<1>3. PICK w \in {Retry(view[c]), GivesUp(view[c]), [view[c] EXCEPT !.ws = "launching"]} :
        view' = [view EXCEPT ![c] = w]
  BY DEF Recovered, Moves
<1>4. QED
  BY <1>1, <1>2, <1>3, ViewOf, AfterRecovery, RecoveringKeeps

\* What the rest of the program does to the browser takes streams away.
LEMMA TargetStepKeeps ==
  ASSUME ViewersInv, TargetStep
  PROVE  ViewersInv'
<1>1. TargetTypeOK /\ ViewersTypeOK
  BY DEF ViewersInv, ViewersTypeOK
<1>2. TargetTypeOK'
  <2>1. CASE LaunchStarts
    BY <1>1, <2>1, BrowserStreamAssumption DEF LaunchStarts, TargetTypeOK
  <2>2. CASE LaunchEnds
    <3>1. PICK o \in BOOLEAN : alive' = [alive EXCEPT ![newest] = o]
      BY <2>2 DEF LaunchEnds
    <3>2. alive' \in [Pages -> BOOLEAN]
      BY <1>1, <3>1, Zenon DEF TargetTypeOK
    <3>3. page' \in 0..MaxPages
      BY <1>1, <2>2, BrowserStreamAssumption DEF LaunchEnds, TargetTypeOK
    <3>4. launching' \in BOOLEAN /\ newest' \in 0..MaxPages
      BY <1>1, <2>2 DEF LaunchEnds, TargetTypeOK
    <3>5. QED
      BY <3>2, <3>3, <3>4 DEF TargetTypeOK
  <2>3. CASE Forget
    BY <1>1, <2>3, BrowserStreamAssumption DEF Forget, TargetTypeOK
  <2>4. ASSUME NEW l \in Pages, Vanish(l) PROVE TargetTypeOK'
    BY <1>1, <2>4, BrowserStreamAssumption DEF Vanish, TargetTypeOK
  <2>5. QED
    BY <2>1, <2>2, <2>3, <2>4 DEF TargetStep, TargetNext
<1>3. view' = view /\ conn' \in {conn, NoConn}
  BY DEF TargetStep
<1>4. \A l \in Pages : sink'[l] \in {sink[l], NoConn}
  BY DEF TargetStep
<1>5. sink' \in [Pages -> Conns \cup {NoConn}]
  BY <1>1 DEF TargetStep, ViewersTypeOK
<1>6. ViewersTypeOK'
  BY <1>1, <1>2, <1>3, <1>5 DEF ViewersTypeOK
<1>7. ASSUME NEW c \in Conns PROVE Viewing(c, view[c], conn, sink)'
  <2>1. view[c] \in ViewType /\ Viewing(c, view[c], conn, sink)
    BY ViewOf
  <2>2. Viewing(c, view[c], conn', sink')
    BY <1>3, <1>4, <2>1, LessIsFine
  <2>3. QED
    BY <1>3, <2>2
<1>8. OneHolder'
  BY <1>3 DEF ViewersInv, OneHolder, Holds
<1>9. QED
  BY <1>6, <1>7, <1>8 DEF ViewersInv

LEMMA ViewersInvInit == ViewersInit => ViewersInv
<1>1. SUFFICES ASSUME ViewersInit PROVE ViewersInv
  OBVIOUS
<1>2. 0 \in 0..MaxPages
  BY BrowserStreamAssumption
<1>3. NewView \in ViewType
  BY <1>2 DEF NewView, ViewType
<1>4. ViewersTypeOK
  BY <1>1, <1>2, <1>3 DEF ViewersInit, TargetInit, ViewersTypeOK, TargetTypeOK
<1>5. \A c \in Conns : view[c] = NewView
  BY <1>1 DEF ViewersInit
<1>6. OneHolder
  BY <1>5 DEF OneHolder, Holds, NewView, Tasks
<1>7. \A c \in Conns : Viewing(c, view[c], conn, sink)
  BY <1>1, <1>5, BrowserStreamAssumption DEF ViewersInit, Viewing, Early, NewView
<1>8. QED
  BY <1>4, <1>6, <1>7 DEF ViewersInv

LEMMA ViewersInvNext == ViewersInv /\ [ViewersNext]_viewersVars => ViewersInv'
<1>1. SUFFICES ASSUME ViewersInv, [ViewersNext]_viewersVars PROVE ViewersInv'
  OBVIOUS
<1>2. CASE TargetStep
  BY <1>1, <1>2, TargetStepKeeps
<1>3. ASSUME NEW c \in Conns, ViewStep(c) PROVE ViewersInv'
  BY <1>1, <1>3, ConnectKeeps, PageFoundKeeps, AttachKeeps, AttachedKeeps, AttachFailsKeeps,
     RestartKeeps, IceFailsKeeps, DisconnectKeeps, StopKeeps, StoppedKeeps, RecoverKeeps,
     RecoveredKeeps
  DEF ViewStep
<1>4. CASE UNCHANGED viewersVars
  BY <1>1, <1>4
  DEF ViewersInv, viewersVars, targetVars, ViewersTypeOK, TargetTypeOK, OneHolder, Holds
<1>5. QED
  BY <1>1, <1>2, <1>3, <1>4 DEF ViewersNext

\* One task at a time holds the lock, and the page of the registered
\* connection, or of one that stops its own stream, sends to no other.
THEOREM ViewersInvariant == ViewersSpec => []ViewersInv
BY ViewersInvInit, ViewersInvNext, PTL DEF ViewersSpec

\* Nothing but the end of stop() ends it: the lock keeps the others out.
LEMMA OnlyStoppedEndsStop ==
  ASSUME ViewersInv, [ViewersNext]_viewersVars, NEW c \in Conns, NEW k \in Tasks,
         view[c][k] = "stopping", view'[c][k] # "stopping"
  PROVE  \E j \in Tasks : Stopped(c, j)
<1>1. view[c] \in ViewType /\ view \in [Conns -> ViewType]
  BY ViewOf DEF ViewersInv, ViewersTypeOK
<1>2. view' # view /\ ~LockFree
  BY DEF LockFree, Holds
<1>3. PICK d \in Conns : ViewStep(d)
  BY <1>2 DEF ViewersNext, TargetStep, viewersVars
<1>4. PICK v : view' = [view EXCEPT ![d] = v]
  <2>1. CASE \E j \in Tasks : \/ Attach(d, j) \/ Attached(d, j) \/ AttachFails(d, j)
                              \/ Stop(d, j) \/ Stopped(d, j)
    BY <2>1 DEF Attach, Attached, AttachFails, Stop, Stopped, Moves
  <2>2. CASE \/ Connect(d) \/ PageFound(d) \/ Restart(d) \/ IceFails(d) \/ Disconnect(d)
    BY <2>2 DEF Connect, PageFound, Restart, IceFails, Disconnect, Moves
  <2>3. CASE Recover(d) \/ Recovered(d)
    BY <2>3 DEF Recover, Recovered, Moves
  <2>4. QED
    BY <1>3, <2>1, <2>2, <2>3 DEF ViewStep
<1>5. d = c
  BY <1>1, <1>4
<1>6. ASSUME NEW j \in Tasks, Attached(c, j) \/ AttachFails(c, j) PROVE FALSE
  <2>1. view[c][j] = "attaching"
    BY <1>6 DEF Attached, AttachFails
  <2>2. Holds(c, j) /\ Holds(c, k) /\ j # k
    BY <2>1 DEF Holds
  <2>3. QED
    BY <2>2 DEF ViewersInv, OneHolder
<1>7. ~(PageFound(c) \/ Recover(c) \/ Recovered(c) \/ Connect(c))
  <2>1. view[c].ws \notin {"waiting", "recovering", "launching"}
    BY <1>1, ViewOf DEF Viewing, Early, Tasks, ViewType
  <2>2. ~(view[c].ws = "off" /\ view[c].helper = "off")
    BY DEF Tasks
  <2>3. QED
    BY <2>1, <2>2 DEF PageFound, Recover, Recovered, Connect
<1>8. ~(Restart(c) \/ IceFails(c))
  <2>1. ASSUME Restart(c) \/ IceFails(c) PROVE FALSE
    <3>1. k = "ws"
      BY <2>1 DEF Restart, IceFails, Tasks
    <3>2. view'[c].ws = view[c].ws
      <4>1. CASE Restart(c)
        <5>1. PICK p \in 0..MaxPages :
                \/ view' = [view EXCEPT ![c] = [view[c] EXCEPT !.helper = "starting",
                                                            !.page = p, !.aim = p]]
                \/ view' = [view EXCEPT ![c] = [view[c] EXCEPT !.helper = "closing",
                                                            !.clears = TRUE]]
          BY <4>1 DEF Restart, Moves
        <5>2. QED
          BY <1>1, <5>1 DEF ViewType
      <4>2. CASE IceFails(c)
        BY <1>1, <4>2 DEF IceFails, Moves, ViewType
      <4>3. QED
        BY <2>1, <4>1, <4>2
    <3>3. QED
      BY <3>1, <3>2
  <2>2. QED
    BY <2>1
<1>9. ~Disconnect(c)
  <2>1. ASSUME Disconnect(c) PROVE FALSE
    <3>1. k = "helper"
      BY <2>1 DEF Disconnect, Tasks
    <3>2. view'[c].helper = view[c].helper
      BY <1>1, <2>1 DEF Disconnect, Moves, ViewType
    <3>3. QED
      BY <3>1, <3>2
  <2>2. QED
    BY <2>1
<1>10. \A j \in Tasks : ~Attach(c, j) /\ ~Stop(c, j)
  BY <1>2 DEF Attach, Stop
<1>11. QED
  BY <1>3, <1>5, <1>6, <1>7, <1>8, <1>9, <1>10 DEF ViewStep

LEMMA StopSparesOthers ==
  ASSUME ViewersInv, NEW c \in Conns, NEW j \in Tasks, Stopped(c, j),
         view[c].helper # "starting", NEW l \in Pages, sink'[l] # sink[l]
  PROVE  sink[l] = c
<1>1. view[c].owns /\ view[c].page = l /\ l # 0 /\ sink'[l] = NoConn
  BY ViewOf, BrowserStreamAssumption DEF Stopped, Pages, ViewType
<1>2. sink[l] \in {c, NoConn}
  BY <1>1, ViewOf DEF Viewing
<1>3. QED
  BY <1>1, <1>2

\* A viewer that leaves takes no frames from another, unless a restart is
\* pending for its page.
THEOREM LeavingSparesOthers == ViewersSpec => CloseStopsOnlyOwnStream
<1>1. ViewersInv /\ [ViewersNext]_viewersVars
        => [\A c \in Conns : EndsStop(c) =>
              \A l \in Pages : sink'[l] # sink[l] => sink[l] = c]_viewersVars
  <2>1. SUFFICES ASSUME ViewersInv, [ViewersNext]_viewersVars, NEW c \in Conns, EndsStop(c),
                        NEW l \in Pages, sink'[l] # sink[l]
                 PROVE  sink[l] = c
    OBVIOUS
  <2>2. PICK j \in Tasks : Stopped(c, j)
    BY <2>1, OnlyStoppedEndsStop DEF EndsStop
  <2>3. view[c].helper # "starting"
    BY <2>1 DEF EndsStop
  <2>4. QED
    BY <2>1, <2>2, <2>3, StopSparesOthers
<1>2. QED
  BY <1>1, ViewersInvariant, PTL DEF ViewersSpec, CloseStopsOnlyOwnStream
=============================================================================
