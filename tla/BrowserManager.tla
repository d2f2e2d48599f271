--------------------------- MODULE BrowserManager ---------------------------
(***************************************************************************)
(* The browser every run, route and viewer of the process shares:          *)
(* references to the Playwright driver, the browser, its context and its   *)
(* first page, which a launch sets one await after the other and which     *)
(* close(), the events of the browser, a failed launch and mere lookups    *)
(* clear; the count of running tools; the idle timer; and what makes the   *)
(* manager ask for a human takeover.                                       *)
(*                                                                         *)
(* An action is what one task does between two suspension points.  A       *)
(* launch is named by a number; 0 stands for None.                         *)
(***************************************************************************)
EXTENDS Naturals, FiniteSets, Takeover

CONSTANTS Closers,      \* concurrent requests to POST /browser/close
          MaxLaunches,  \* bound: launches that start a driver
          FailureLimit  \* failures that ask for a takeover (3 in the code)

ASSUME BrowserManagerAssumption ==
  /\ IsFiniteSet(Runs)
  /\ MaxLaunches \in Nat
  /\ FailureLimit \in Nat \ {0}

VARIABLES
  mgr,      \* the BrowserManager object
  stage,    \* what the launch in progress waits for ("idle": ~_launching)
  last,     \* the newest launch
  driver,   \* [Launches -> ...]: the driver process each launch started
  browser,  \* [Launches -> ...]: its browser process
  open,     \* [Launches -> BOOLEAN]: its first page is open
  closer,   \* [Closers -> ...]: where each close() is
  idle,     \* the idle timer is armed
  tool      \* [Runs -> ...]: where the tool call of each run is

realVars == <<driver, browser, open>>
managerVars == <<mgr, stage, last, realVars, closer, idle, tool>>

Launches == 1..MaxLaunches
Refs == {"pw", "br", "cx", "pg"}

BrowserManagerType ==
  [pw : 0..MaxLaunches, br : 0..MaxLaunches,
   cx : 0..MaxLaunches, pg : 0..MaxLaunches,
   active : Nat, takeover : TakeoverType, auth : BOOLEAN,
   navFails : 0..FailureLimit, elemFails : 0..FailureLimit]

ManagerTypeOK ==
  /\ mgr \in BrowserManagerType
  /\ stage \in {"idle", "driver", "browser", "context", "page"}
  /\ last \in 0..MaxLaunches
  /\ stage # "idle" => last \in Launches
  /\ driver \in [Launches -> {"none", "up", "stopped"}]
  /\ browser \in [Launches -> {"none", "up", "told", "down"}]
  /\ open \in [Launches -> BOOLEAN]
  /\ closer \in [Closers -> [at : {"idle", "browser", "driver"},
                             target : 0..MaxLaunches]]
  /\ idle \in BOOLEAN
  /\ tool \in [Runs -> {"off", "started", "acting", "looking", "finishing"}]

NewManager ==
  [pw |-> 0, br |-> 0, cx |-> 0, pg |-> 0, active |-> 0,
   takeover |-> [state |-> "running", timer |-> NoRun], auth |-> FALSE,
   navFails |-> 0, elemFails |-> 0]

ManagerInit ==
  /\ mgr = NewManager
  /\ stage = "idle" /\ last = 0
  /\ driver = [l \in Launches |-> "none"]
  /\ browser = [l \in Launches |-> "none"]
  /\ open = [l \in Launches |-> FALSE]
  /\ closer = [c \in Closers |-> [at |-> "idle", target |-> 0]]
  /\ idle = FALSE
  /\ tool = [r \in Runs |-> "off"]

-----------------------------------------------------------------------------
(* The manager as a value                                                  *)

\* _clear_browser_refs: everything that belongs to a browser is forgotten,
\* whether or not anything has been closed.  The registered viewer, which is
\* forgotten too, is in BrowserStream; the element references in PageMemory.
ClearedKeepingPage(m) ==
  [m EXCEPT !.pw = 0, !.br = 0, !.active = 0,
            !.takeover = Reset(@), !.auth = FALSE]
Cleared(m) ==
  [m EXCEPT !.pw = 0, !.br = 0, !.cx = 0, !.pg = 0, !.active = 0,
            !.takeover = Reset(@), !.auth = FALSE]

\* reset(): the failure counts are forgotten too; close() keeps them.
ResetManager(m) == [Cleared(m) EXCEPT !.navFails = 0, !.elemFails = 0]

\* _browser_is_alive: the two objects need not belong together.
Alive(m) == /\ m.br # 0 /\ m.cx # 0 /\ m.pg # 0
            /\ browser[m.br] \in {"up", "told"} /\ open[m.pg]

\* is_launched() and page() clear what they find dead, but not in a launch.
Seen(m) == IF stage # "idle" \/ Alive(m) THEN m ELSE Cleared(m)
IsLaunched(m) == stage = "idle" /\ Alive(m)

\* request_takeover acts only in RUNNING.
Asked(m) == IF CanRequest(m.takeover)
            THEN [m EXCEPT !.takeover = Requested(@)] ELSE m

\* record_nav_timeout and record_element_failure: count, and ask at the limit.
Counted(n) == IF n < FailureLimit THEN n + 1 ELSE n
NavFailed(m) ==
  LET n == [m EXCEPT !.navFails = Counted(@)]
  IN  IF n.navFails = FailureLimit THEN Asked(n) ELSE n
ElementFailed(m) ==
  LET n == [m EXCEPT !.elemFails = Counted(@)]
  IN  IF n.elemFails = FailureLimit THEN Asked(n) ELSE n

ToolStarted(m)  == [m EXCEPT !.active = @ + 1]
ToolFinishedUnchecked(m) == [m EXCEPT !.active = @]
ToolFinished(m) == [m EXCEPT !.active = IF @ > 0 THEN @ - 1 ELSE 0]

-----------------------------------------------------------------------------
(* launch()                                                                *)

\* The part before the first await.  Stale references are dropped, not closed.
LaunchBeginsUncleared(m) ==
  /\ stage = "idle"
  /\ ~(m.br # 0 /\ m.cx = 0 /\ m.pg = 0)
  /\ ~Alive(m)
  /\ last < MaxLaunches
  /\ last' = last + 1
  /\ stage' = "driver"
  /\ mgr' = m
LaunchBegins(m) ==
  /\ stage = "idle"
  /\ ~(m.br # 0 /\ m.cx = 0 /\ m.pg = 0)
  /\ ~Alive(m)
  /\ last < MaxLaunches
  /\ last' = last + 1
  /\ stage' = "driver"
  /\ mgr' = Cleared(m)

\* browser_launch cancels the idle timer; restoring a profile does not.
Launch ==
  /\ LaunchBegins(mgr)
  /\ idle' \in {idle, FALSE}
  /\ UNCHANGED <<realVars, closer, tool>>

DriverStarts ==
  /\ stage = "driver"
  /\ driver' = [driver EXCEPT ![last] = "up"]
  /\ mgr' = [mgr EXCEPT !.pw = last]
  /\ stage' = "browser"
  /\ UNCHANGED <<last, browser, open, closer, idle, tool>>

BrowserStarts ==
  /\ stage = "browser" /\ driver[last] = "up"
  /\ browser' = [browser EXCEPT ![last] = "up"]
  /\ mgr' = [mgr EXCEPT !.br = last]
  /\ stage' = "context"
  /\ UNCHANGED <<last, driver, open, closer, idle, tool>>

ContextCreated ==
  /\ stage = "context" /\ driver[last] = "up"
  /\ mgr' = [mgr EXCEPT !.cx = last]
  /\ stage' = "page"
  /\ UNCHANGED <<last, realVars, closer, idle, tool>>

\* tabs.attach raises when the context was cleared meanwhile.
PageCreated ==
  /\ stage = "page" /\ driver[last] = "up"
  /\ open' = [open EXCEPT ![last] = browser[last] # "down"]
  /\ mgr' = IF mgr.cx = 0 THEN ResetManager(mgr) ELSE [mgr EXCEPT !.pg = last]
  /\ stage' = "idle"
  /\ UNCHANGED <<last, driver, browser, closer, idle, tool>>

\* The except clause: reset() without stopping what was started.
LaunchFails ==
  /\ stage # "idle"
  /\ mgr' = ResetManager(mgr)
  /\ stage' = "idle"
  /\ UNCHANGED <<last, realVars, closer, idle, tool>>

-----------------------------------------------------------------------------
(* close(), the idle timer and the events of the browser                   *)

Told(l) == browser' = [browser EXCEPT ![l] = IF @ = "up" THEN "told" ELSE @]

\* POST /browser/close.
CloseBegins(c) ==
  /\ closer[c].at = "idle"
  /\ IF IsLaunched(mgr)
     THEN /\ idle' = FALSE
          /\ Told(mgr.br)
          /\ closer' = [closer EXCEPT ![c] = [at |-> "browser",
                                              target |-> mgr.br]]
          /\ mgr' = mgr
     ELSE mgr' = Seen(mgr) /\ UNCHANGED <<idle, browser, closer>>
  /\ UNCHANGED <<stage, last, driver, open, tool>>

CloseEnds(c) ==
  /\ mgr' = Cleared(mgr)
  /\ closer' = [closer EXCEPT ![c] = [at |-> "idle", target |-> 0]]

\* browser.close() returned.  _playwright is read only now.
CloseBrowserDone(c) ==
  /\ closer[c].at = "browser" /\ browser[closer[c].target] \in {"told", "down"}
  /\ IF mgr.pw = 0
     THEN CloseEnds(c)
     ELSE /\ closer' = [closer EXCEPT ![c] = [at |-> "driver",
                                              target |-> mgr.pw]]
          /\ mgr' = mgr
  /\ UNCHANGED <<stage, last, realVars, idle, tool>>

\* playwright.stop() returned: the driver's browser is gone with it.
CloseDriverDone(c) ==
  /\ closer[c].at = "driver"
  /\ LET l == closer[c].target
     IN  /\ driver' = [driver EXCEPT ![l] = "stopped"]
         /\ browser' = [browser EXCEPT ![l] = IF @ = "none" THEN @ ELSE "down"]
         /\ open' = [open EXCEPT ![l] = FALSE]
  /\ CloseEnds(c)
  /\ UNCHANGED <<stage, last, idle, tool>>

\* schedule_idle_close, when the outcome of a run was stored.
IdleArmed ==
  /\ mgr' = Seen(mgr)
  /\ idle' = IsLaunched(mgr)
  /\ UNCHANGED <<stage, last, realVars, closer, tool>>

\* The timer calls close(), which cancels the very task it runs in: the
\* browser is told to close, and nothing after that await happens.
IdleFires ==
  /\ idle
  /\ idle' = FALSE
  /\ mgr' = Seen(mgr)
  /\ IF IsLaunched(mgr) THEN Told(mgr.br) ELSE UNCHANGED browser
  /\ UNCHANGED <<stage, last, driver, open, closer, tool>>

\* "disconnected": told to, or because it crashed or the user quit it.
Disconnected(l) ==
  /\ browser[l] \in {"up", "told"}
  /\ browser' = [browser EXCEPT ![l] = "down"]
  /\ open' = [open EXCEPT ![l] = FALSE]
  /\ mgr' = IF mgr.br = l \/ mgr.pg = l THEN Cleared(mgr) ELSE mgr
  /\ UNCHANGED <<stage, last, driver, closer, idle, tool>>

\* The first page is closed, with other tabs still open or not.
PageClosed(l) ==
  /\ open[l]
  /\ open' = [open EXCEPT ![l] = FALSE]
  /\ mgr' = IF mgr.pg = l THEN Cleared(mgr) ELSE mgr
  /\ UNCHANGED <<stage, last, driver, browser, closer, idle, tool>>

\* _on_page_response, of any page any launch has opened.
Response(l) ==
  /\ browser[l] \in {"up", "told"}
  /\ CanRequest(mgr.takeover)
  /\ \E challenge \in BOOLEAN : mgr' = [mgr EXCEPT !.auth = challenge]
  /\ UNCHANGED <<stage, last, realVars, closer, idle, tool>>

-----------------------------------------------------------------------------
(* Tool calls                                                              *)

\* tracked(): the counter goes up before the tool's own task starts.
ToolStart(r) ==
  /\ tool[r] = "off"
  /\ mgr' = ToolStarted(mgr)
  /\ tool' = [tool EXCEPT ![r] = "started"]
  /\ UNCHANGED <<stage, last, realVars, closer, idle>>

Blocked(t) == t.state \in {"human_control", "waiting_human", "detected"}

\* _require_browser and _check_blocked.
ToolEnters(r) ==
  /\ tool[r] = "started"
  /\ idle' = FALSE
  /\ mgr' = Seen(mgr)
  /\ tool' = [tool EXCEPT ![r] =
                IF IsLaunched(mgr) /\ ~Blocked(mgr.takeover)
                THEN "acting" ELSE "finishing"]
  /\ UNCHANGED <<stage, last, realVars, closer>>

Outcomes == {"quiet", "navigated", "unreachable", "needs_auth", "element_failed"}
Recorded(m, o) ==
  CASE o = "quiet"          -> m
    [] o = "navigated"      -> [m EXCEPT !.navFails = 0, !.elemFails = 0]
    [] o = "unreachable"    -> NavFailed(m)
    [] o = "needs_auth"     -> NavFailed([m EXCEPT !.auth = TRUE])
    [] o = "element_failed" -> ElementFailed(m)

\* The tool has acted, records it, and runs detect_takeover up to its await.
ToolActs(r) ==
  /\ tool[r] = "acting"
  /\ \E o \in Outcomes :
       LET m == Recorded(mgr, o)
           detects == /\ o \in {"navigated", "element_failed"}
                      /\ IsLaunched(m) /\ CanRequest(m.takeover)
       IN  /\ mgr' = IF detects /\ m.auth THEN Asked(m) ELSE Seen(m)
           /\ tool' = [tool EXCEPT ![r] = IF detects /\ ~m.auth
                                          THEN "looking" ELSE "finishing"]
  /\ UNCHANGED <<stage, last, realVars, closer, idle>>

\* detect_human_needed returned; _page.url raises when the page was cleared.
ToolLooked(r) ==
  /\ tool[r] = "looking"
  /\ tool' = [tool EXCEPT ![r] = "finishing"]
  /\ \E found \in BOOLEAN :
       mgr' = IF found /\ mgr.pg # 0 THEN Asked(mgr) ELSE mgr
  /\ UNCHANGED <<stage, last, realVars, closer, idle>>

\* asyncio.wait_for gives up on the tool's task.
ToolTimesOut(r) ==
  /\ tool[r] \in {"acting", "looking"}
  /\ tool' = [tool EXCEPT ![r] = "finishing"]
  /\ UNCHANGED <<mgr, stage, last, realVars, closer, idle>>

ToolFinish(r) ==
  /\ tool[r] = "finishing"
  /\ mgr' = ToolFinished(mgr)
  /\ tool' = [tool EXCEPT ![r] = "off"]
  /\ UNCHANGED <<stage, last, realVars, closer, idle>>

\* The takeover hook and the takeover endpoints (see RunLifecycle).  Ending a
\* takeover answers the authentication challenge; entering control cancels
\* the idle timer.
TakeoverMoves(r) ==
  /\ \/ /\ mgr.takeover.state = "detected"
        /\ mgr' = [mgr EXCEPT !.takeover = Waiting(@, r)]
        /\ idle' = idle
     \/ /\ mgr' = [mgr EXCEPT !.takeover = HumanControl(@)]
        /\ idle' = FALSE
     \/ /\ mgr.takeover.state \in {"waiting_human", "human_control"}
        /\ \E t \in {Completed(mgr.takeover), Cancelled(mgr.takeover)} :
             mgr' = [mgr EXCEPT !.takeover = t, !.auth = FALSE]
        /\ idle' = idle
     \/ /\ mgr.takeover.state \in {"resuming", "cancelled"}
        /\ mgr' = [mgr EXCEPT !.takeover = Reset(@), !.auth = FALSE]
        /\ idle' = idle
  /\ UNCHANGED <<stage, last, realVars, closer, tool>>

-----------------------------------------------------------------------------

LaunchStep == Launch \/ DriverStarts \/ BrowserStarts \/ ContextCreated
              \/ PageCreated \/ LaunchFails
CloseStep(c) == CloseBegins(c) \/ CloseBrowserDone(c) \/ CloseDriverDone(c)
EventStep(l) == Disconnected(l) \/ PageClosed(l) \/ Response(l)
ToolStep(r) == ToolStart(r) \/ ToolEnters(r) \/ ToolActs(r) \/ ToolLooked(r)
               \/ ToolTimesOut(r) \/ ToolFinish(r) \/ TakeoverMoves(r)

ManagerNext ==
  \/ LaunchStep
  \/ \E c \in Closers : CloseStep(c)
  \/ \E l \in Launches : EventStep(l)
  \/ IdleArmed \/ IdleFires
  \/ \E r \in Runs : ToolStep(r)

(* What viewers rely on: the manager is a BrowserTarget.                    *)
Target == INSTANCE BrowserTarget
            WITH MaxPages <- MaxLaunches, page <- mgr.pg,
                 launching <- stage # "idle", newest <- last, alive <- open
ImplementsTarget == Target!TargetSpec

ManagerSpec == ManagerInit /\ [][ManagerNext]_managerVars

-----------------------------------------------------------------------------

(* The references the manager holds are of one launch, the newest.  A       *)
(* close() that was overtaken, a lost browser or a failed launch may clear  *)
(* them at any await of a launch, and never leaves a mixture of two.        *)
RefsAreOfOneLaunch ==
  \A f \in Refs : mgr[f] \in {0, last}

(* The tool counter never claims more tools than are running (BrowserManager *)
(* .is_tool_running): a lost browser or a timeout cannot leave it above      *)
(* zero for ever, which would keep the login watcher off the page.           *)
ToolCountSound ==
  mgr.active <= Cardinality({r \in Runs : tool[r] # "off"})
=============================================================================
