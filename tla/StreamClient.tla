---------------------------- MODULE StreamClient ----------------------------
(***************************************************************************)
(* The chat client (useChatStream, api/stream.ts, useRuns) following one   *)
(* run over the SSE responses that EventBus serves: what it receives, the  *)
(* cursor it keeps, how it comes back after a disconnection, and the view  *)
(* of the run and the loading flag that the user sees.                     *)
(*                                                                         *)
(* A stream is one connection.  got[s] of the bus is what was sent on it;  *)
(* the client has processed the first read[s] frames, and what it has not  *)
(* is lost when the connection goes.  Client callbacks run to completion,  *)
(* so each is one step.  A suspended run waits for a takeover or for an    *)
(* approval; a timeout or a cancel is of a takeover.                       *)
(***************************************************************************)
EXTENDS EventBus, FiniteSets, Functions

CONSTANTS NoStream,
          MaxReattach,  \* MAX_REATTACH_ATTEMPTS
          MaxCuts,      \* bound: connections that end early
          MaxSwitches   \* bound: times the user leaves the session and returns

ASSUME ClientAssumption ==
  /\ {"delta", "suspend", "metadata", "error", "takeover_cancelled"} \subseteq Kinds
  /\ NoStream \notin Subscribers
  /\ MaxReattach \in Nat /\ MaxCuts \in Nat /\ MaxSwitches \in Nat

VARIABLES
  run,        \* the server's run
  link,       \* each stream, as the client has it
  request,    \* from_index of the GET that a stream is requested with
  read,       \* frames of got the client has processed
  lastId,     \* lastEventId of processSseStream
  done,       \* doneCalled of processSseStream
  current,    \* abortRef: the stream opened last
  cursorRef,  \* lastEventIdRef
  attached,   \* attachedRunRef names this run
  attempts,   \* reattachAttemptsRef
  retry,      \* setTimeout timers of scheduleReattach that are running
  answer,     \* an /active-run answer that names the run is on its way
  load,       \* loadSessionData of the session is on its way
  loading,    \* isLoading: the input is disabled
  hasRun,     \* hasRunState: the view has the run
  view,       \* the events the run's view was made from, in order
  cancel,     \* the user's POST /takeover/cancel
  cuts, switches

streamState == <<link, request, read, lastId, done, current>>
refs        == <<cursorRef, attached, attempts>>
pendings    == <<retry, answer, load>>
shown       == <<loading, hasRun, view>>
bounds      == <<cuts, switches>>
session == <<vars, run, streamState, refs, pendings, shown, cancel, bounds>>

ClientTypeOK ==
  /\ TypeOK
  /\ run \in {"unsent", "going", "suspended", "finishing", "over"}
  /\ link \in [Subscribers -> {"free", "requested", "open"}]
  /\ request \in [Subscribers -> Nat]
  /\ read \in [Subscribers -> Nat]
  /\ lastId \in [Subscribers -> Nat]
  /\ done \in [Subscribers -> BOOLEAN]
  /\ current \in Subscribers \cup {NoStream}
  /\ cursorRef \in Nat
  /\ attached \in BOOLEAN
  /\ attempts \in 0..MaxReattach
  /\ retry \in Nat
  /\ answer \in BOOLEAN
  /\ load \in BOOLEAN
  /\ loading \in BOOLEAN
  /\ hasRun \in BOOLEAN
  /\ view \in Seq(1..MaxPublished)
  /\ cancel \in {"no", "sent"}
  /\ cuts \in 0..MaxCuts
  /\ switches \in 0..MaxSwitches

ClientInit ==
  /\ Init
  /\ run = "unsent"
  /\ link = [s \in Subscribers |-> "free"]
  /\ request = [s \in Subscribers |-> 0]
  /\ read = [s \in Subscribers |-> 0]
  /\ lastId = [s \in Subscribers |-> 0]
  /\ done = [s \in Subscribers |-> FALSE]
  /\ current = NoStream
  /\ cursorRef = 0 /\ attached = FALSE /\ attempts = 0
  /\ retry = 0 /\ answer = FALSE /\ load = FALSE
  /\ loading = FALSE /\ hasRun = FALSE /\ view = <<>>
  /\ cancel = "no"
  /\ cuts = 0 /\ switches = 0

-----------------------------------------------------------------------------
(* The run, as far as its stream shows it                                  *)

clientVars == <<streamState, refs, pendings, shown, bounds>>

\* What the owner does from a run's last event to the removal of its slot is
\* one step: the bus is closed and /active-run names no run.
PublishLast(kind) ==
  /\ PublishEvent([number |-> LastIndex + 1, kind |-> kind])
  /\ closed' = TRUE
  /\ ended' = (kind = "run_end")
  /\ run' = "over"
  /\ UNCHANGED <<stream, cursor, from, dropped, got>>

\* The bound on published events leaves room for the run's end.
Room(n) == LastIndex + n < MaxPublished

Emit ==
  /\ run = "going"
  /\ \/ Room(2) /\ Publish("delta") /\ run' = run
     \/ Room(2) /\ Publish("suspend") /\ run' = "suspended"
     \/ \E kind \in {"metadata", "error"} :
          Room(1) /\ Publish(kind) /\ run' = "finishing"
  /\ UNCHANGED <<clientVars, cancel>>

GoOn ==
  /\ run = "suspended"
  /\ run' = "going"
  /\ UNCHANGED <<vars, clientVars, cancel>>

EndRun ==
  /\ run = "finishing"
  /\ PublishLast("run_end")
  /\ UNCHANGED <<clientVars, cancel>>

\* Nobody came: the hook's timeout.
TakeoverTimesOut ==
  /\ run = "suspended"
  /\ PublishLast("takeover_cancelled")
  /\ UNCHANGED <<clientVars, cancel>>

ServeStream(s) == Serve(s) /\ UNCHANGED <<run, clientVars, cancel>>

-----------------------------------------------------------------------------
(* Opening streams                                                         *)

\* handleSend, up to the response of POST /chat.
Send(s) ==
  /\ run = "unsent"
  /\ run' = "going"
  /\ Attach(s, 0)
  /\ link' = [link EXCEPT ![s] = "open"]
  /\ current' = s
  /\ loading' = TRUE
  /\ cursorRef' = 0 /\ attached' = FALSE /\ attempts' = 0
  /\ UNCHANGED <<request, read, lastId, done, pendings, hasRun, view, cancel, bounds>>

\* /active-run, as the server answers it.  An answer that leads to nothing is
\* not kept: reattach returns on it without a trace.
Asked(mustBeSuspended) ==
  answer' = (answer \/ (~closed /\ (mustBeSuspended => run = "suspended")))

RetryFires ==
  /\ retry > 0
  /\ retry' = retry - 1
  /\ Asked(FALSE)
  /\ UNCHANGED <<vars, run, streamState, refs, load, shown, cancel, bounds>>

\* The user leaves the session and comes back: its data is loaded again and
\* the mount effect asks for a suspended run.
SwitchBack ==
  /\ run # "unsent" /\ ~closed
  /\ switches < MaxSwitches
  /\ switches' = switches + 1
  /\ load' = TRUE
  /\ Asked(TRUE)
  /\ UNCHANGED <<vars, run, streamState, refs, retry, shown, cancel, cuts>>

\* setRuns: a run that goes on is not among the stored ones.
Loaded ==
  /\ load
  /\ load' = FALSE
  /\ hasRun' = FALSE
  /\ view' = <<>>
  /\ UNCHANGED <<vars, run, streamState, refs, retry, answer, loading, cancel, bounds>>

AlreadyAttached == attached

\* openRunStream's from_index.
FromIndexLatest == IF hasRun THEN LastIndex ELSE 0
FromIndex == IF hasRun THEN cursorRef ELSE 0

\* reattach, from the answer of /active-run to the GET request.
Reattach ==
  /\ answer
  /\ answer' = FALSE
  /\ IF AlreadyAttached
     THEN UNCHANGED <<vars, streamState, refs, shown>>
     ELSE \E s \in Subscribers :
            /\ link[s] = "free"
            /\ link' = [link EXCEPT ![s] = "requested"]
            /\ request' = [request EXCEPT ![s] = FromIndex]
            /\ read' = [read EXCEPT ![s] = 0]
            /\ lastId' = [lastId EXCEPT ![s] = 0]
            /\ done' = [done EXCEPT ![s] = FALSE]
            /\ current' = s
            /\ loading' = TRUE
            /\ attached' = TRUE
            /\ cursorRef' = IF hasRun THEN cursorRef ELSE 0
            /\ view' = IF hasRun THEN view ELSE <<>>
            /\ UNCHANGED <<vars, attempts, hasRun>>
  /\ UNCHANGED <<run, retry, load, cancel, bounds>>

\* The answer to the GET: the stream, or a 404 when the slot is gone.
Connect(s) ==
  /\ link[s] = "requested"
  /\ IF closed
     THEN /\ link' = [link EXCEPT ![s] = "free"]
          /\ loading' = FALSE
          /\ UNCHANGED vars
     ELSE /\ link' = [link EXCEPT ![s] = "open"]
          /\ Attach(s, request[s])
          /\ UNCHANGED loading
  /\ request' = [request EXCEPT ![s] = 0]
  /\ UNCHANGED <<run, read, lastId, done, current, refs, pendings, hasRun, view,
                 cancel, bounds>>

-----------------------------------------------------------------------------
(* Reading a stream                                                        *)

\* The stream_truncated notice is a frame of its own, with base as its id.
ReadNotice(s) ==
  /\ link[s] = "open"
  /\ dropped[s] > 0 /\ lastId[s] = 0 /\ read[s] = 0
  /\ lastId' = [lastId EXCEPT ![s] = dropped[s]]
  /\ hasRun' = TRUE
  /\ UNCHANGED <<vars, run, link, request, read, done, current, refs, pendings,
                 loading, view, cancel, bounds>>

\* useRuns: what appends to the run's view, and what only sets a field.
Appends(kind) == kind = "delta"
Shown(frame) ==
  LET event == frame.event
  IN  IF Appends(event.kind) \/ event.number \notin Range(view)
      THEN Append(view, event.number) ELSE view

\* The events that processSseStream takes for the end of a run.
TerminalMetadata(kind) == kind = "metadata"
Terminal(kind) == kind \in {"metadata", "error"}

\* onEvent, and onDone or onError on a terminal event.
ReadFrame(s) ==
  /\ link[s] = "open"
  /\ dropped[s] > 0 => lastId[s] > 0
  /\ read[s] < Len(got[s])
  /\ LET frame == got[s][read[s] + 1]
         kind  == frame.event.kind
     IN  /\ lastId' = [lastId EXCEPT ![s] = frame.index]
         /\ view' = Shown(frame)
         /\ done' = [done EXCEPT ![s] = @ \/ Terminal(kind)]
         /\ loading' = (loading /\ ~Terminal(kind))
         /\ IF kind = "metadata"
            THEN attempts' = 0 /\ attached' = FALSE /\ cursorRef' = 0
            ELSE UNCHANGED refs
  /\ hasRun' = TRUE
  /\ read' = [read EXCEPT ![s] = @ + 1]
  /\ UNCHANGED <<vars, run, link, request, current, pendings, cancel, bounds>>

\* onDetached -> scheduleReattach
Detached(s) ==
  /\ cursorRef' = lastId[s]
  /\ IF attempts >= MaxReattach
     THEN loading' = FALSE /\ UNCHANGED <<attempts, retry>>
     ELSE attempts' = attempts + 1 /\ retry' = retry + 1 /\ UNCHANGED loading

\* The response is over: done is false unless a terminal event was read.
Ended(s) ==
  /\ link[s] = "open"
  /\ link' = [link EXCEPT ![s] = "free"]
  /\ Detach(s)
  /\ IF done[s]
     THEN UNCHANGED <<cursorRef, attempts, loading, retry>>
     ELSE Detached(s)
  /\ UNCHANGED <<run, request, read, lastId, done, current, attached, answer, load,
                 hasRun, view, cancel>>

\* The server has sent everything and the client has read it.
EndOfStream(s) ==
  /\ stream[s] = "done"
  /\ read[s] = Len(got[s])
  /\ Ended(s)
  /\ UNCHANGED bounds

\* Something between the two ends the response early; frames may be lost.
CutOff(s) ==
  /\ cuts < MaxCuts
  /\ cuts' = cuts + 1
  /\ Ended(s)
  /\ UNCHANGED switches

\* The connection breaks: reader.read() throws, and onError settles.
Fails(s) ==
  /\ cuts < MaxCuts
  /\ cuts' = cuts + 1
  /\ link[s] = "open"
  /\ link' = [link EXCEPT ![s] = "free"]
  /\ Detach(s)
  /\ loading' = FALSE
  /\ UNCHANGED <<run, request, read, lastId, done, current, refs, pendings, hasRun, view,
                 cancel, switches>>

\* handleTakeoverCancel: abort the stream opened last, then ask the server.
UserCancels ==
  /\ run = "suspended" /\ cancel = "no"
  /\ cancel' = "sent"
  /\ current # NoStream
  /\ IF link[current] = "open"
     THEN Detach(current) /\ link' = [link EXCEPT ![current] = "free"]
     ELSE link' = [link EXCEPT ![current] = "free"] /\ UNCHANGED vars
  /\ UNCHANGED <<run, request, read, lastId, done, current, refs, pendings, shown, bounds>>

\* The server cancels the run unless it is no longer suspended.
CancelAnswered ==
  /\ cancel = "sent"
  /\ IF run = "suspended"
     THEN PublishLast("takeover_cancelled")
     ELSE UNCHANGED <<vars, run>>
  /\ cancel' = "no"
  /\ loading' = FALSE
  /\ UNCHANGED <<streamState, refs, pendings, hasRun, view, bounds>>

-----------------------------------------------------------------------------

ClientStep(s) == \/ Connect(s) \/ ReadNotice(s) \/ ReadFrame(s) \/ EndOfStream(s)

ClientNext ==
  \/ Emit \/ GoOn \/ EndRun \/ TakeoverTimesOut
  \/ RetryFires \/ Reattach \/ SwitchBack \/ Loaded
  \/ UserCancels \/ CancelAnswered
  \/ \E s \in Subscribers :
       Send(s) \/ ServeStream(s) \/ ClientStep(s) \/ CutOff(s) \/ Fails(s)

ClientSpec == ClientInit /\ [][ClientNext]_session

\* The event loops of server and browser run what is ready, requests are
\* answered and timers fire.  The run, the network and the user owe nothing.
ClientLiveSpec ==
  /\ ClientSpec
  /\ WF_session(RetryFires) /\ WF_session(Reattach) /\ WF_session(CancelAnswered)
  /\ WF_session(EndRun)
  /\ \A s \in Subscribers : WF_session(ServeStream(s)) /\ WF_session(ClientStep(s))

-----------------------------------------------------------------------------
(* Properties                                                              *)

\* Whatever the view shows, it shows with everything before it, except what
\* the bus had dropped: disconnections lose no event.
NoGap ==
  \A i \in 1..Len(view) : \A n \in 1..view[i] : n \in Range(view) \/ n <= base

\* A resumed stream never takes the view back to an earlier event.
ViewInOrder == \A i, j \in 1..Len(view) : i < j => view[i] <= view[j]

\* Unless a connection is lost, a run that finishes is seen to, and the input
\* comes back for good, whatever reattachment is under way.
SettlesIfConnected == run = "finishing" ~> []~loading

\* A stream resumed by its cursor does not repeat what was consumed.
NoEventTwice == \A i, j \in 1..Len(view) : i # j => view[i] # view[j]

\* One connection follows a run.
OneStream == \A s, t \in Subscribers : link[s] # "free" /\ link[t] # "free" => s = t

Streamless == loading /\ \A s \in Subscribers : link[s] = "free"

\* A client that lost its stream comes back to it while the run goes on.
DetachedReattaches == (Streamless /\ ~closed) ~> (~Streamless \/ closed)

\* Or it gives up when there is nothing to come back to.
DetachedSettles == Streamless ~> ~Streamless

\* The cancellation of the takeover is an end of the run the client sees.
SettlesAfterCancel ==
  \A s \in Subscribers :
    (\E i \in 1..read[s] : got[s][i].event.kind = "takeover_cancelled") ~> ~loading
=============================================================================
