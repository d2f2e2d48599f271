---------------------------- MODULE RunLifecycle ----------------------------
(***************************************************************************)
(* The life of agent runs: POST /chat admits a run into its session's      *)
(* registry slot, an owner task drives the orchestrator, the agent task    *)
(* runs inside it and may suspend for a human takeover of the (shared)     *)
(* browser or for the approval of deferred tool calls; the resume, cancel  *)
(* and approve endpoints act on it meanwhile, and the owner finally stores *)
(* the outcome and gives the slot back.                                    *)
(*                                                                         *)
(* Everything runs on one asyncio loop: an action is what one task does    *)
(* between two suspension points.  event_bus.publish never suspends (its   *)
(* lock is never held across one), so what the owner does from a run_end   *)
(* event to the removal of the slot is one step.                           *)
(***************************************************************************)
EXTENDS Naturals, Takeover

CONSTANTS Sessions,
          SessionOf,        \* the session each run id is (or will be) used in
          MaxAsks,          \* bound: approval requests per run
          BrowserMayClose   \* does the environment close browser or page?

ASSUME RunLifecycleAssumption ==
  /\ SessionOf \in [Runs -> Sessions]
  /\ MaxAsks \in Nat
  /\ BrowserMayClose \in BOOLEAN

VARIABLES
  phase,      \* [Runs -> Phases]: where the run's owner is
  hook,       \* where the run's takeover hook is
  offer,      \* a human_takeover_request is in the run's queue, undelivered
  outcome,    \* how the agent task ended
  cancelled,  \* RunPauseState.cancelled
  event,      \* RunPauseState.resume_event
  asked,      \* approval requests the run has made; the last is its current one
  approved,   \* the request ApprovalPauseState.decision answers (event set)
  pending,    \* PendingApprovalStore
  checkpoint, \* TakeoverCheckpointStore, by session
  registry,   \* RunRegistry: the run in each session's slot
  marker,     \* ActiveRun.suspended of the run's slot
  takeover,   \* the shared HumanTakeoverManager
  stored,     \* status of the run's StoredRun in its session
  exists,     \* the session is in the session store
  down        \* the process is shutting down

agentVars    == <<hook, offer, outcome>>
pauseVars    == <<cancelled, event>>
approvalVars == <<asked, approved, pending>>
slotVars     == <<registry, marker>>
storeVars    == <<stored, exists>>
vars == <<phase, agentVars, pauseVars, approvalVars, checkpoint, slotVars,
          takeover, storeVars, down>>

Phases == {"unused",    \* run id not in use yet
           "posted",    \* POST /chat is awaiting augment_prompt
           "refused",   \* answered 409 or 502
           "created",   \* slot registered, owner task not started
           "running",   \* the owner waits for the agent's events
           "approval",  \* the owner waits for /approve
           "ended",     \* the agent task is done, the owner has not seen it
           "over"}      \* the owner is done
Outcomes == {"none", "completed", "error", "site_unavailable", "cancelled",
             "deferred", "aborted"}
NoRequest == <<NoRun, 0>>
Requests  == Runs \X (1..MaxAsks)

TypeOK ==
  /\ phase \in [Runs -> Phases]
  /\ hook \in [Runs -> {"idle", "entering", "waiting"}]
  /\ offer \in [Runs -> BOOLEAN]
  /\ outcome \in [Runs -> Outcomes]
  /\ cancelled \in [Runs -> BOOLEAN]
  /\ event \in [Runs -> BOOLEAN]
  /\ asked \in [Runs -> 0..MaxAsks]
  /\ approved \in [Runs -> Requests \cup {NoRequest}]
  /\ pending \in SUBSET Requests
  /\ checkpoint \in [Sessions -> Runs \cup {NoRun}]
  /\ registry \in [Sessions -> Runs \cup {NoRun}]
  /\ marker \in [Runs -> {"none", "takeover", "approval"}]
  /\ takeover \in TakeoverType
  /\ stored \in [Runs -> {"none", "completed", "error", "cancelled"}]
  /\ exists \in [Sessions -> BOOLEAN]
  /\ down \in BOOLEAN

Init ==
  /\ phase = [r \in Runs |-> "unused"]
  /\ hook = [r \in Runs |-> "idle"]
  /\ offer = [r \in Runs |-> FALSE]
  /\ outcome = [r \in Runs |-> "none"]
  /\ cancelled = [r \in Runs |-> FALSE]
  /\ event = [r \in Runs |-> FALSE]
  /\ asked = [r \in Runs |-> 0]
  /\ approved = [r \in Runs |-> NoRequest]
  /\ pending = {}
  /\ checkpoint = [s \in Sessions |-> NoRun]
  /\ registry = [s \in Sessions |-> NoRun]
  /\ marker = [r \in Runs |-> "none"]
  /\ takeover = [state |-> "running", timer |-> NoRun]
  /\ stored = [r \in Runs |-> "none"]
  /\ exists = [s \in Sessions |-> TRUE]
  /\ down = FALSE

-----------------------------------------------------------------------------
(* Registry, stores and persistence                                        *)

\* registry.get(session_id) is None: the check behind the 409 answer.
SlotFreeUnchecked(s) == TRUE
SlotFree(s) == registry[s] = NoRun

\* registry.remove(session_id, run_id): only the slot's own run removes it.
RegistryUnchanged(r) == registry
RegistryWithout(r) ==
  [registry EXCEPT ![SessionOf[r]] = IF @ = r THEN NoRun ELSE @]

CheckpointKept(s) == checkpoint
CheckpointCleared(s) == [checkpoint EXCEPT ![s] = NoRun]

\* registry.mark_suspended is by session: it marks whichever slot is there.
Mark(s, kind) ==
  marker' = IF registry[s] = NoRun THEN marker
            ELSE [marker EXCEPT ![registry[s]] = kind]

\* add_run + save; a session no longer in the store is skipped.
StoredWith(r, status) ==
  IF exists[SessionOf[r]] THEN [stored EXCEPT ![r] = status] ELSE stored

ShouldPersistCompletedOnly(o) == o = "completed"
ShouldPersist(o) == o \in {"completed", "site_unavailable"}

StoredStatus(o) == IF o = "completed" THEN "completed" ELSE "error"

PendingOf(s) == {q \in pending : SessionOf[q[1]] = s}

-----------------------------------------------------------------------------
(* POST /chat and the owner task                                           *)

Live(r) == phase[r] \in {"created", "running", "approval", "ended"}

Post(r) ==
  /\ ~down /\ phase[r] = "unused" /\ exists[SessionOf[r]]
  /\ phase' = [phase EXCEPT ![r] = "posted"]
  /\ UNCHANGED <<agentVars, pauseVars, approvalVars, checkpoint, slotVars,
                 takeover, storeVars, down>>

\* CrawlError (502), or the slot is taken when the awaits are over (409).
Refuse(r) ==
  /\ ~down /\ phase[r] = "posted"
  /\ phase' = [phase EXCEPT ![r] = "refused"]
  /\ UNCHANGED <<agentVars, pauseVars, approvalVars, checkpoint, slotVars,
                 takeover, storeVars, down>>

Register(r) ==
  /\ ~down /\ phase[r] = "posted" /\ SlotFree(SessionOf[r])
  /\ phase' = [phase EXCEPT ![r] = "created"]
  /\ registry' = [registry EXCEPT ![SessionOf[r]] = r]
  /\ UNCHANGED <<agentVars, pauseVars, approvalVars, checkpoint, marker,
                 takeover, storeVars, down>>

\* start_run: fresh tracker, pause and approval state, then the agent task.
Start(r) ==
  /\ ~down /\ phase[r] = "created"
  /\ phase' = [phase EXCEPT ![r] = "running"]
  /\ UNCHANGED <<agentVars, pauseVars, approvalVars, checkpoint, slotVars,
                 takeover, storeVars, down>>

\* resolve_agent raises inside start_run: the owner's finally still runs.
StartFails(r) ==
  /\ ~down /\ phase[r] = "created"
  /\ phase' = [phase EXCEPT ![r] = "over"]
  /\ registry' = RegistryWithout(r)
  /\ UNCHANGED <<agentVars, pauseVars, approvalVars, checkpoint, marker,
                 takeover, storeVars, down>>

\* The events _dispatch_event answers with END.
TerminalOnlyRunEnd(o) == o \in {"completed", "error", "site_unavailable"}
Terminal(o) == o \in {"completed", "error", "site_unavailable", "cancelled"}

\* run_end or takeover_cancelled is dispatched, start_run returns, the owner
\* stores the outcome if _should_persist says so and gives the slot back.
\* Queued events were consumed before: the queue is drained first.
Finish(r) ==
  /\ ~down /\ phase[r] = "ended" /\ ~offer[r]
  /\ Terminal(outcome[r])
  /\ phase' = [phase EXCEPT ![r] = "over"]
  /\ takeover' = Reset(takeover)
  /\ Mark(SessionOf[r], "none")
  /\ checkpoint' = CheckpointCleared(SessionOf[r])
  /\ stored' = IF ShouldPersist(outcome[r])
               THEN StoredWith(r, StoredStatus(outcome[r])) ELSE stored
  /\ registry' = RegistryWithout(r)
  /\ UNCHANGED <<agentVars, pauseVars, approvalVars, exists, down>>

-----------------------------------------------------------------------------
(* The agent task and its takeover hook                                    *)

Executing(r) == phase[r] = "running" /\ hook[r] = "idle"

\* agent.run returns (an answer, or deferred tool calls) or raises.
AgentEnds(r, o) ==
  /\ ~down /\ Executing(r)
  /\ phase' = [phase EXCEPT ![r] = "ended"]
  /\ outcome' = [outcome EXCEPT ![r] = o]
  /\ UNCHANGED <<hook, offer, pauseVars, approvalVars, checkpoint, slotVars,
                 takeover, storeVars, down>>

\* record_nav_timeout / record_element_failure inside a browser tool.
ToolRequestsTakeover(r) ==
  /\ ~down /\ Executing(r) /\ CanRequest(takeover)
  /\ takeover' = Requested(takeover)
  /\ UNCHANGED <<phase, agentVars, pauseVars, approvalVars, checkpoint,
                 slotVars, storeVars, down>>

\* decision.kind = "reset": autofill filled the form, the detection is void.
AutofillClears(r) ==
  /\ ~down /\ Executing(r) /\ takeover.state = "detected"
  /\ takeover' = Reset(takeover)
  /\ UNCHANGED <<phase, agentVars, pauseVars, approvalVars, checkpoint,
                 slotVars, storeVars, down>>

\* The hook detects (or finds) a takeover need: enter_waiting with this run's
\* cancel_run as the timeout callback, then the checkpoint, without suspending.
Pause(r) ==
  /\ ~down /\ Executing(r)
  /\ CanRequest(takeover) \/ takeover.state = "detected"
  /\ takeover' = Waiting(takeover, r)
  /\ checkpoint' = [checkpoint EXCEPT ![SessionOf[r]] = r]
  /\ hook' = [hook EXCEPT ![r] = "entering"]
  /\ UNCHANGED <<phase, offer, outcome, pauseVars, approvalVars, slotVars,
                 storeVars, down>>

\* get_state has returned: the request is queued and the hook waits.
Offer(r) ==
  /\ ~down /\ phase[r] = "running" /\ hook[r] = "entering"
  /\ hook' = [hook EXCEPT ![r] = "waiting"]
  /\ offer' = [offer EXCEPT ![r] = TRUE]
  /\ UNCHANGED <<phase, outcome, pauseVars, approvalVars, checkpoint,
                 slotVars, takeover, storeVars, down>>

\* The owner's dispatcher takes the request from the queue, marks and publishes.
Deliver(r) ==
  /\ ~down /\ offer[r]
  /\ offer' = [offer EXCEPT ![r] = FALSE]
  /\ Mark(SessionOf[r], "takeover")
  /\ UNCHANGED <<phase, hook, outcome, pauseVars, approvalVars, checkpoint,
                 registry, takeover, storeVars, down>>

HookResumes(r) ==
  /\ ~down /\ hook[r] = "waiting" /\ event[r] /\ ~cancelled[r]
  /\ hook' = [hook EXCEPT ![r] = "idle"]
  /\ event' = [event EXCEPT ![r] = FALSE]
  /\ UNCHANGED <<phase, offer, outcome, cancelled, approvalVars, checkpoint,
                 slotVars, takeover, storeVars, down>>

\* TakeoverCancelledError unwinds agent.run; lifecycle turns it into the
\* "cancelled" outcome.
HookCancels(r) ==
  /\ ~down /\ hook[r] = "waiting" /\ event[r] /\ cancelled[r]
  /\ hook' = [hook EXCEPT ![r] = "idle"]
  /\ phase' = [phase EXCEPT ![r] = "ended"]
  /\ outcome' = [outcome EXCEPT ![r] = "cancelled"]
  /\ UNCHANGED <<offer, pauseVars, approvalVars, checkpoint, slotVars,
                 takeover, storeVars, down>>

-----------------------------------------------------------------------------
(* Deferred tool calls                                                     *)

\* Every call is low risk: the stream restarts with the automatic results.
AutoApprove(r) ==
  /\ ~down /\ phase[r] = "ended" /\ outcome[r] = "deferred" /\ ~offer[r]
  /\ phase' = [phase EXCEPT ![r] = "running"]
  /\ outcome' = [outcome EXCEPT ![r] = "none"]
  /\ UNCHANGED <<hook, offer, pauseVars, approvalVars, checkpoint, slotVars,
                 takeover, storeVars, down>>

\* Some call needs a person: a pending approval, the event, the marker.
AskApproval(r) ==
  /\ ~down /\ phase[r] = "ended" /\ outcome[r] = "deferred" /\ ~offer[r]
  /\ asked[r] < MaxAsks
  /\ phase' = [phase EXCEPT ![r] = "approval"]
  /\ outcome' = [outcome EXCEPT ![r] = "none"]
  /\ asked' = [asked EXCEPT ![r] = @ + 1]
  /\ pending' = pending \cup {<<r, asked[r] + 1>>}
  /\ Mark(SessionOf[r], "approval")
  /\ UNCHANGED <<hook, offer, pauseVars, approved, checkpoint, registry,
                 takeover, storeVars, down>>

\* POST /approve looks the request up by id alone and signals the run that is
\* in the session's slot now.
Approve(s, q) ==
  /\ ~down /\ q \in PendingOf(s)
  /\ registry[s] # NoRun /\ phase[registry[s]] # "created"
  /\ approved' = [approved EXCEPT ![registry[s]] = q]
  /\ UNCHANGED <<phase, agentVars, pauseVars, asked, pending, checkpoint,
                 slotVars, takeover, storeVars, down>>

Consumed(r) == pending \ {<<r, asked[r]>>}
SignalledIfMarked(r) == approved[r] # NoRequest /\ marker[r] = "approval"
Signalled(r) == approved[r] # NoRequest

\* The owner wakes, consumes its own request and restarts the stream with the
\* decision; the approval state is replaced by a fresh one.
ApprovalKept(r) == approved
FreshApproval(r) == [approved EXCEPT ![r] = NoRequest]
ApprovalWakes(r) ==
  /\ ~down /\ phase[r] = "approval" /\ Signalled(r)
  /\ phase' = [phase EXCEPT ![r] = "running"]
  /\ pending' = Consumed(r)
  /\ approved' = FreshApproval(r)
  /\ Mark(SessionOf[r], "none")
  /\ UNCHANGED <<agentVars, pauseVars, asked, checkpoint, registry, takeover,
                 storeVars, down>>

-----------------------------------------------------------------------------
(* The browser endpoints.  A request carries a session and the run id its  *)
(* client learnt from the stream; one that names another run is answered   *)
(* run_mismatch and changes nothing, so a request acts on the started run  *)
(* in the slot or not at all.                                              *)

Addressed(s) == registry[s] # NoRun /\ phase[registry[s]] # "created"

\* POST /takeover/complete.  Nothing checks that the run is suspended.
ResumeTakeover(s) ==
  LET r == registry[s] IN
  /\ ~down /\ Addressed(s) /\ ~cancelled[r]
  /\ takeover' = Completed(takeover)
  /\ event' = [event EXCEPT ![r] = TRUE]
  /\ Mark(s, "none")
  /\ UNCHANGED <<phase, agentVars, cancelled, approvalVars, checkpoint,
                 registry, storeVars, down>>

\* POST /takeover/cancel: store the checkpoint's run as cancelled, drop the
\* checkpoint, cancel the takeover, wake the run, remove the slot.
CancelWithoutWaking(r) == event
CancelWaking(r) == [event EXCEPT ![r] = TRUE]
CancelTakeover(s) ==
  LET r == registry[s] IN
  /\ ~down /\ Addressed(s) /\ checkpoint[s] # NoRun
  /\ stored' = StoredWith(checkpoint[s], "cancelled")
  /\ checkpoint' = CheckpointCleared(s)
  /\ takeover' = Cancelled(takeover)
  /\ cancelled' = [cancelled EXCEPT ![r] = TRUE]
  /\ event' = CancelWaking(r)
  /\ Mark(s, "none")
  /\ registry' = RegistryWithout(r)
  /\ UNCHANGED <<phase, agentVars, approvalVars, exists, down>>

\* POST /takeover/enter-human-control: no session, no state is checked.
EnterHumanControl ==
  /\ ~down
  /\ takeover' = HumanControl(takeover)
  /\ UNCHANGED <<phase, agentVars, pauseVars, approvalVars, checkpoint,
                 slotVars, storeVars, down>>

-----------------------------------------------------------------------------
(* Time, the browser, the session list and shutdown                        *)

\* 150 s after enter_waiting.  get_state takes far less, so the timeout does
\* not fall inside the "entering" window.
Timeout ==
  LET r == takeover.timer IN
  /\ ~down /\ TimeoutDue(takeover) /\ hook[r] # "entering"
  /\ takeover' = Cancelled(takeover)
  /\ cancelled' = [cancelled EXCEPT ![r] = TRUE]
  /\ event' = CancelWaking(r)
  /\ UNCHANGED <<phase, agentVars, approvalVars, checkpoint, slotVars,
                 storeVars, down>>

\* _clear_browser_refs: the window or the page was closed, or lost.
BrowserLost ==
  /\ ~down /\ BrowserMayClose
  /\ takeover' = Reset(takeover)
  /\ UNCHANGED <<phase, agentVars, pauseVars, approvalVars, checkpoint,
                 slotVars, storeVars, down>>

\* DELETE /sessions/{id}: the registry is not consulted.
DeleteSession(s) ==
  /\ ~down /\ exists[s]
  /\ exists' = [exists EXCEPT ![s] = FALSE]
  /\ UNCHANGED <<phase, agentVars, pauseVars, approvalVars, checkpoint,
                 slotVars, takeover, stored, down>>

\* The server stops once its request handlers have returned.
Shutdown ==
  /\ ~down /\ \A r \in Runs : phase[r] \notin {"posted", "created"}
  /\ down' = TRUE
  /\ UNCHANGED <<phase, agentVars, pauseVars, approvalVars, checkpoint,
                 slotVars, takeover, storeVars>>

\* The owner task is cancelled: abort_paused_run, then its finally.  A
\* checkpoint is stored as cancelled first; then every pending approval of
\* the session is popped, and the first of them is stored as cancelled.
AbortStoredTakeoverOnly(s) ==
  {IF checkpoint[s] = NoRun THEN stored ELSE StoredWith(checkpoint[s], "cancelled")}
AbortStored(s) ==
  LET afterTakeover == IF checkpoint[s] = NoRun THEN stored
                       ELSE StoredWith(checkpoint[s], "cancelled")
      popped == {q[1] : q \in PendingOf(s)}
  IN  IF popped = {} \/ ~exists[s] THEN {afterTakeover}
      ELSE {[afterTakeover EXCEPT ![r] = "cancelled"] : r \in popped}
AbortRun(r) ==
  LET s == SessionOf[r] IN
  /\ down /\ Live(r)
  /\ phase' = [phase EXCEPT ![r] = "over"]
  /\ outcome' = [outcome EXCEPT ![r] = "aborted"]
  /\ hook' = [hook EXCEPT ![r] = "idle"]
  /\ offer' = [offer EXCEPT ![r] = FALSE]
  /\ Mark(s, "none")
  /\ checkpoint' = CheckpointCleared(s)
  /\ takeover' = IF checkpoint[s] = NoRun THEN takeover ELSE Reset(takeover)
  /\ pending' = pending \ PendingOf(s)
  /\ stored' \in AbortStored(s)
  /\ registry' = RegistryWithout(r)
  /\ UNCHANGED <<pauseVars, asked, approved, exists, down>>

-----------------------------------------------------------------------------
(* The specification                                                       *)

\* Steps the process takes by itself.
RunStep(r) ==
  \/ Refuse(r) \/ Register(r) \/ Start(r) \/ StartFails(r) \/ Finish(r)
  \/ \E o \in {"completed", "error", "site_unavailable", "deferred"} :
       AgentEnds(r, o)
  \/ ToolRequestsTakeover(r) \/ AutofillClears(r) \/ Pause(r)
  \/ Offer(r) \/ Deliver(r) \/ HookResumes(r) \/ HookCancels(r)
  \/ AutoApprove(r) \/ AskApproval(r) \/ ApprovalWakes(r)
  \/ AbortRun(r)

UserStep ==
  \/ \E r \in Runs : Post(r)
  \/ \E s \in Sessions :
       \/ ResumeTakeover(s) \/ CancelTakeover(s) \/ DeleteSession(s)
       \/ \E q \in Requests : Approve(s, q)
  \/ EnterHumanControl

Next == \/ \E r \in Runs : RunStep(r)
        \/ UserStep
        \/ Timeout \/ BrowserLost \/ Shutdown

Spec == Init /\ [][Next]_vars

\* asyncio runs every ready task and every due timer; nobody makes a user act,
\* a browser close, or an agent stop calling tools.
Fairness ==
  /\ \A r \in Runs :
       /\ WF_vars(Refuse(r) \/ Register(r))
       /\ WF_vars(Start(r) \/ StartFails(r))
       /\ WF_vars(Offer(r)) /\ WF_vars(Deliver(r))
       /\ WF_vars(HookResumes(r)) /\ WF_vars(HookCancels(r))
       /\ WF_vars(AutoApprove(r) \/ AskApproval(r)) /\ WF_vars(ApprovalWakes(r))
       /\ WF_vars(Finish(r)) /\ WF_vars(AbortRun(r))
  /\ WF_vars(Timeout)

FairSpec == Spec /\ Fairness

-----------------------------------------------------------------------------
(* Safety                                                                  *)

Registered(r) == registry[SessionOf[r]] = r

\* A slot holds a run of its session whose owner is still there: no finished
\* run keeps a session answering 409.
RegisteredIsLive ==
  \A s \in Sessions :
    registry[s] # NoRun => SessionOf[registry[s]] = s /\ Live(registry[s])

\* A live run is out of its slot only because its takeover was cancelled:
\* concurrent POST /chat and the end of an older run never displace it.
UnregisteredWasCancelled ==
  \A r \in Runs : Live(r) /\ ~Registered(r) => cancelled[r]

\* A finished run leaves no checkpoint, no timeout task and no pending
\* approval behind, whichever way it ended.
NoResidue ==
  \A r \in Runs : phase[r] = "over" =>
    /\ checkpoint[SessionOf[r]] # r
    /\ takeover.timer # r
    /\ \A q \in pending : q[1] # r

\* A timeout task exists exactly while the browser waits for the human, and
\* it would cancel a live run whose checkpoint can still be stored.
TimeoutIsSound ==
  /\ takeover.timer # NoRun <=> takeover.state = "waiting_human"
  /\ \A r \in Runs : takeover.timer = r =>
       Live(r) /\ checkpoint[SessionOf[r]] = r

\* A run suspended on an approval can be answered, and only such a run has a
\* pending request (shutdown pops the requests of a whole session).
ApprovalIsAnswerable ==
  /\ \A q \in pending : phase[q[1]] = "approval" /\ q[2] = asked[q[1]]
  /\ ~down => \A r \in Runs : phase[r] = "approval" => <<r, asked[r]>> \in pending

\* No other run of the session was cancelled and left running.
Undisturbed(r) ==
  \A o \in Runs \ {r} : SessionOf[o] = SessionOf[r] => ~cancelled[o]

\* A run waiting for approval goes on with the answer to its own current
\* request, not to an earlier one (a double click, a late answer).
DecisionIsForCurrentRequest ==
  \A r \in Runs : phase[r] = "approval" /\ Undisturbed(r) =>
    approved[r] \in {NoRequest, <<r, asked[r]>>}

\* A run that ended completed or site_unavailable is in its session with that
\* status, unless the session was deleted.
OutcomeIsStored ==
  \A r \in Runs : phase[r] = "over" /\ exists[SessionOf[r]] =>
    /\ outcome[r] = "completed" => stored[r] = "completed"
    /\ outcome[r] = "site_unavailable" => stored[r] = "error"

\* A slot changes hands only through empty, and is emptied only when its run
\* ends or is cancelled.
SlotStep ==
  \A s \in Sessions : registry[s] # NoRun /\ registry'[s] # registry[s] =>
    /\ registry'[s] = NoRun
    /\ phase'[registry[s]] = "over" \/ cancelled'[registry[s]]
SlotHandover == [][SlotStep]_vars

\* A shutdown leaves a cancelled StoredRun for every run it finds suspended.
SuspendedAtShutdown(r) == hook[r] # "idle" \/ phase[r] = "approval"
RecordingStep ==
  \A r \in Runs :
    (/\ down /\ Live(r) /\ phase'[r] = "over" /\ SuspendedAtShutdown(r)
     /\ ~cancelled[r] /\ Undisturbed(r) /\ exists[SessionOf[r]])
      => stored'[r] = "cancelled"
ShutdownRecordsSuspended == [][RecordingStep]_vars

-----------------------------------------------------------------------------
(* The inductive invariant: what the safety properties rest on             *)

Started(r) == phase[r] \in {"running", "approval", "ended"}

\* A session's checkpoint is of a run of it that has started and not finished.
CheckpointIsStarted ==
  \A s \in Sessions : checkpoint[s] # NoRun =>
    SessionOf[checkpoint[s]] = s /\ Started(checkpoint[s])

TimerIsStarted == takeover.timer # NoRun => Started(takeover.timer)

UnstartedHasNoOutcome ==
  \A r \in Runs : ~Started(r) /\ phase[r] # "over" => outcome[r] = "none"

\* A run holds a decision only while it waits for approval, and its own.
AnswerIsCurrent ==
  \A r \in Runs : Undisturbed(r) /\ phase[r] # "over" =>
    \/ approved[r] = NoRequest
    \/ phase[r] = "approval" /\ approved[r] = <<r, asked[r]>>

\* A run that waits can be recorded as cancelled: by its checkpoint, or by its
\* pending approval, as long as nothing but its own end removes them.
SuspendedIsRecorded ==
  \A r \in Runs :
    /\ hook[r] # "idle" => phase[r] = "running"
    /\ hook[r] # "idle" /\ ~cancelled[r] /\ Undisturbed(r) => checkpoint[SessionOf[r]] = r
    /\ phase[r] = "approval" /\ ~cancelled[r] /\ Undisturbed(r) => <<r, asked[r]>> \in pending

IInv ==
  /\ TypeOK /\ RegisteredIsLive /\ UnregisteredWasCancelled
  /\ CheckpointIsStarted /\ TimerIsStarted /\ TimeoutIsSound
  /\ ApprovalIsAnswerable /\ AnswerIsCurrent
  /\ UnstartedHasNoOutcome /\ OutcomeIsStored /\ SuspendedIsRecorded

-----------------------------------------------------------------------------
(* Liveness                                                                *)

\* What the agent ended with is dispatched and the slot given back.
EndedIsReleased ==
  \A r \in Runs : (phase[r] = "ended" /\ outcome[r] # "deferred") ~> phase[r] = "over"

\* A run cancelled while its hook waits (by the user or the timeout) ends.
CancelledWaitEnds ==
  \A r \in Runs : (hook[r] = "waiting" /\ cancelled[r]) ~> phase[r] = "over"

\* An approval decision restarts the run, however the decision and the
\* suspension interleave.
DecisionRestartsRun ==
  \A r \in Runs : (phase[r] = "approval" /\ approved[r] # NoRequest)
                     ~> phase[r] \in {"running", "over"}

-----------------------------------------------------------------------------
(* What the comments, the tests and the README say                         *)

\* chat.py:106-107: without the await-free admission "the same session would
\* start two runs".
OneExecutingRunPerSession ==
  \A r1, r2 \in Runs :
    r1 # r2 /\ SessionOf[r1] = SessionOf[r2] => ~(Executing(r1) /\ Executing(r2))

\* orchestrator.py:309-310: cancel_takeover "persists a clear terminal state".
CancelledIsTerminal ==
  [][\A r \in Runs : stored[r] = "cancelled" => stored'[r] = "cancelled"]_vars

\* orchestrator.py:329-330: cancelling wakes the suspended run, which then
\* reaches its cancelled end.
CancelWakesSuspended ==
  \A r \in Runs : (phase[r] = "approval" /\ cancelled[r]) ~> phase[r] # "approval"

\* test_takeover_cancel_timeout.py:132: "a timeout (nobody responds) also
\* wakes the suspended run".  A human who took control stops the clock.
WaitEndsUnlessHumanControl ==
  \A r \in Runs : hook[r] = "waiting" ~>
    (hook[r] = "idle" \/ takeover.state = "human_control")

\* takeover_hook.py:136: "resume: allow the next suspension".
ResumeAllowsNextPause ==
  [][\A r \in Runs : hook[r] = "waiting" /\ hook'[r] = "idle" /\ phase'[r] = "running"
       => takeover'.state \in {"running", "detected"}]_vars

\* orchestrator.py:199-200: the "takeover" marker is accurate when it is set.
MarkerIsAccurate ==
  [][\A r \in Runs : marker[r] # "takeover" /\ marker'[r] = "takeover"
       => hook[r] = "waiting" /\ ~event[r]]_vars

\* README: the run "pauses for human takeover whenever a verification step
\* needs a person": a pause is not passed by a signal sent before it.
PauseStartsUnsignalled ==
  [][\A r \in Runs : hook[r] = "idle" /\ hook'[r] = "entering" => ~event[r]]_vars
=============================================================================
