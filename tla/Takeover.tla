------------------------------ MODULE Takeover ------------------------------
(***************************************************************************)
(* The browser's HumanTakeoverManager as a value: the state machine and    *)
(* the run whose pause its 150 s timeout task would cancel.  One manager   *)
(* serves every session of the process.  reason, trigger, url and message  *)
(* are display data and are left out.                                      *)
(***************************************************************************)
CONSTANTS Runs,   \* run ids
          NoRun   \* "no run": an empty slot, no checkpoint, no timeout task

ASSUME NoRunAssumption == NoRun \notin Runs

TakeoverStates == {"running", "detected", "waiting_human",
                   "human_control", "resuming", "cancelled"}

TakeoverType == [state : TakeoverStates, timer : Runs \cup {NoRun}]

\* request_takeover acts only in RUNNING.
CanRequest(t) == t.state = "running"
Requested(t)  == [t EXCEPT !.state = "detected"]

\* enter_waiting overwrites the previous timeout task without cancelling it;
\* TimeoutIsSound (RunLifecycle) shows there is none to lose.
Waiting(t, r) == [t EXCEPT !.state = "waiting_human", !.timer = r]

\* The transitions that start with _cancel_timeout().
HumanControl(t) == [t EXCEPT !.state = "human_control", !.timer = NoRun]
Completed(t)    == [t EXCEPT !.state = "resuming", !.timer = NoRun]

CancelledKeepingTimer(t) == [t EXCEPT !.state = "cancelled"]
Cancelled(t)    == [t EXCEPT !.state = "cancelled", !.timer = NoRun]

Reset(t)        == [t EXCEPT !.state = "running", !.timer = NoRun]

\* _timeout_loop fires only while still waiting for the human.
TimeoutDue(t) == t.timer # NoRun /\ t.state = "waiting_human"
=============================================================================
