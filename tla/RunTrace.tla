------------------------------ MODULE RunTrace ------------------------------
(***************************************************************************)
(* What one chat run leaves behind.  The agent's tool calls and its text   *)
(* are kept four times: by RunTracker, for the run that is stored; in the  *)
(* events that EventTranslator queues and the bus carries; in the client's *)
(* view of them (useRuns, useChatMessages); and as the messages that the   *)
(* session's next run starts from.                                         *)
(*                                                                         *)
(* One agent.run() is a stream.  A stream that ends in calls awaiting      *)
(* approval is followed by another, which is given the decisions; a        *)
(* connection error starts the stream's agent over from its history.       *)
(* The agent is pydantic-ai's: a response is text, then calls that are all *)
(* announced before the first one returns.  Pauses, time and slots are in  *)
(* RunLifecycle, lost connections and the bus's capacity in StreamClient.  *)
(***************************************************************************)
EXTENDS Naturals, Sequences, FiniteSets, Functions

CONSTANTS Calls,      \* tool_call_ids
          MaxTexts,   \* bound: pieces of text the model writes
          MaxRetries, \* MAX_CONNECTION_RETRIES
          MaxReloads, \* bound: times the page is loaded again
          MaxLag      \* bound: events the client is behind, but for the last two

ASSUME RunTraceAssumption ==
  /\ MaxTexts \in Nat /\ MaxRetries \in Nat /\ MaxReloads \in Nat
  /\ MaxLag \in Nat \ {0}

VARIABLES
  agent,     \* what agent.run() of this stream is at, or how it ended
  issued,    \* calls the model has made
  open,      \* announced calls that have not returned
  asked,     \* calls deferred in this stream
  human,     \* those of them a person decides on
  granted, denied, \* deferred_tool_results of this stream
  retries,   \* attempts of run_agent
  texts,     \* pieces of text written
  turn,      \* result.new_messages(), so far
  collected, \* _RunState.new_messages
  tracker,   \* RunTracker
  queue,     \* events between the translator and the stream's loop
  bus,       \* events published
  seen,      \* those the client has processed
  shown,     \* the run in useRuns
  bubble,    \* the assistant's message in useChatMessages
  stored,    \* the StoredRun of the session
  message,   \* the assistant message of the session
  history,   \* what the run added to the session's model messages
  reloads

streamVars == <<issued, open, asked, human, granted, denied, retries, texts, turn>>
clientVars == <<seen, shown, bubble, reloads>>
storeVars  == <<stored, message, history>>
traceVars == <<agent, streamVars, collected, tracker, queue, bus, clientVars, storeVars>>

\* Messages, as the calls in them and the calls they return a result for.
NoMessages == [calls |-> {}, returns |-> {}]
Both(m, n) == [calls |-> m.calls \cup n.calls, returns |-> m.returns \cup n.returns]

Started(c) == [id |-> c, status |-> "running"]
CallEntries == [id : Calls, status : {"running", "success", "error"}]
Statuses == {"running", "completed", "error", "cancelled"}

\* Pieces of text are numbered; 0 stands for an error's text.
NewRun == [calls |-> <<>>, output |-> <<>>, status |-> "running", site |-> FALSE]
NoRun  == [NewRun EXCEPT !.status = "none"]

TraceTypeOK ==
  /\ agent \in {"model", "calling", "tools", "deferring", "deferred", "waiting",
                "resuming", "done", "site", "error", "cancelled", "over", "stored"}
  /\ issued \subseteq Calls /\ open \subseteq issued
  /\ human \subseteq asked /\ asked \subseteq issued
  /\ granted \cup denied \subseteq issued
  /\ retries \in 0..MaxRetries + 1
  /\ texts \in 0..MaxTexts + 1
  /\ turn.calls \cup turn.returns \subseteq issued
  /\ collected.calls \cup collected.returns \subseteq issued
  /\ \A r \in {tracker, shown, stored} :
       /\ r.calls \in Seq(CallEntries) /\ r.output \in Seq(0..MaxTexts + 1)
       /\ r.status \in Statuses \cup {"none"} /\ r.site \in BOOLEAN
  /\ seen \in 0..Len(bus)
  /\ bubble \in Seq(0..MaxTexts + 1) /\ message \in Seq(0..MaxTexts + 1)
  /\ reloads \in 0..MaxReloads

TraceInit ==
  /\ agent = "model"
  /\ issued = {} /\ open = {} /\ asked = {} /\ human = {}
  /\ granted = {} /\ denied = {}
  /\ retries = 0 /\ texts = 0
  /\ turn = NoMessages /\ collected = NoMessages
  /\ tracker = NewRun
  /\ queue = <<>> /\ bus = <<[type |-> "run_start"]>>
  /\ seen = 0 /\ shown = NoRun /\ bubble = <<>> /\ reloads = 0
  /\ stored = NoRun /\ message = <<>> /\ history = [calls |-> {}, returns |-> {}, invented |-> {}]

-----------------------------------------------------------------------------
(* The agent, and the translator that handles its events                   *)

Knows(run, c) == \E i \in DOMAIN run.calls : run.calls[i].id = c

\* add_tool_invocation: a call announced again, on resuming, is one call.
WithCall(run, c) ==
  IF Knows(run, c) THEN run ELSE [run EXCEPT !.calls = Append(@, Started(c))]

Outcome(ok) == IF ok THEN "success" ELSE "error"
Settled(calls, c, ok) ==
  [i \in DOMAIN calls |->
     IF calls[i].id = c THEN [calls[i] EXCEPT !.status = Outcome(ok)] ELSE calls[i]]

Writes ==
  /\ agent = "model" /\ texts < MaxTexts
  /\ texts' = texts + 1
  /\ tracker' = [tracker EXCEPT !.output = Append(@, texts')]
  /\ queue' = Append(queue, [type |-> "text_delta", text |-> texts'])
  /\ UNCHANGED <<agent, issued, open, asked, human, granted, denied, retries, turn,
                 collected, bus, clientVars, storeVars>>

\* FunctionToolCallEvent
Announce(c) ==
  /\ tracker' = WithCall(tracker, c)
  /\ queue' = Append(queue, [type |-> "tool_call", call |-> c])

CallTool(c) ==
  /\ agent \in {"model", "calling"} /\ c \notin issued
  /\ agent' = "calling"
  /\ issued' = issued \cup {c} /\ open' = open \cup {c}
  /\ turn' = [turn EXCEPT !.calls = @ \cup {c}]
  /\ Announce(c)
  /\ UNCHANGED <<asked, human, granted, denied, retries, texts, collected, bus,
                 clientVars, storeVars>>

DeferCall(c) ==
  /\ agent \in {"model", "deferring"} /\ c \notin issued
  /\ agent' = "deferring"
  /\ issued' = issued \cup {c} /\ asked' = asked \cup {c}
  /\ turn' = [turn EXCEPT !.calls = @ \cup {c}]
  /\ Announce(c)
  /\ UNCHANGED <<open, human, granted, denied, retries, texts, collected, bus,
                 clientVars, storeVars>>

\* A resumed stream announces the calls it has decisions on once more.
ResumeCall(c) ==
  /\ agent = "resuming" /\ c \in (granted \cup denied) \ open
  /\ open' = open \cup {c}
  /\ agent' = IF open' = granted \cup denied THEN "tools" ELSE "resuming"
  /\ Announce(c)
  /\ UNCHANGED <<issued, asked, human, granted, denied, retries, texts, turn,
                 collected, bus, clientVars, storeVars>>

\* detect_site_unavailable: only tools that go out to the network, which are
\* never deferred, report a site as down; they do by the text of their result,
\* whether or not it is a success.
MayReportSite(c) == c \notin granted \cup denied

\* FunctionToolResultEvent.  The answer to a denied call is text, and text is
\* a success.  A site that is down and a takeover that is cancelled end the
\* run from here, after the result was recorded.
ToolEnds(c, ok) ==
  /\ agent \in {"calling", "tools"} /\ c \in open
  /\ c \in denied => ok
  /\ open' = open \ {c}
  /\ turn' = [turn EXCEPT !.returns = @ \cup {c}]
  /\ tracker' = [tracker EXCEPT !.calls = Settled(@, c, ok)]
  /\ queue' = Append(queue, [type |-> "tool_result", call |-> c, ok |-> ok])
  /\ \/ agent' = IF open' = {} THEN "model" ELSE "tools"
     \/ MayReportSite(c) /\ agent' = "site"
     \/ agent' = "cancelled"
  /\ UNCHANGED <<issued, asked, human, granted, denied, retries, texts,
                 collected, bus, clientVars, storeVars>>

\* run_agent: the same call with the same arguments once more.
ConnectionLost ==
  /\ agent = "model"
  /\ retries' = retries + 1
  /\ agent' = IF retries' > MaxRetries THEN "error"
              ELSE IF granted \cup denied = {} THEN "model" ELSE "resuming"
  /\ turn' = NoMessages
  /\ UNCHANGED <<issued, open, asked, human, granted, denied, texts, collected,
                 tracker, queue, bus, clientVars, storeVars>>

AgentReturns ==
  /\ \/ agent = "model" /\ agent' \in {"done", "error"}
     \/ agent = "deferring" /\ agent' = "deferred"
  /\ UNCHANGED <<streamVars, collected, tracker, queue, bus, clientVars, storeVars>>

-----------------------------------------------------------------------------
(* The stream's loop, and what follows it                                  *)

Forward ==
  /\ Len(bus) < seen + MaxLag
  /\ queue # <<>> /\ agent \notin {"over", "stored"}
  /\ bus' = Append(bus, Head(queue))
  /\ queue' = Tail(queue)
  /\ UNCHANGED <<agent, streamVars, collected, tracker, clientVars, storeVars>>

\* A mutant of the next: the loop ends with the agent's task.
DrainedUnchecked == TRUE

\* The loop is left when the agent has ended and its events are forwarded.
Drained == queue = <<>>

\* A mutant of the next: the stream's messages are not handed on.
CollectedLater == collected

\* The deferred stream's messages, handed on before its requests are.
CollectedDeferred == Both(collected, turn)

\* _process_deferred_requests: either nothing needs a person, and the stream
\* is followed by the next one, or the run waits for the decision.
Restart(yes, no) ==
  /\ agent' = "resuming"
  /\ granted' = yes /\ denied' = no
  /\ asked' = {} /\ human' = {} /\ retries' = 0
  /\ turn' = NoMessages

EndDeferred(pending) ==
  /\ agent = "deferred" /\ Drained
  /\ collected' = CollectedDeferred
  /\ IF pending = {}
     THEN /\ Restart(asked, {})
          /\ bus' = Append(bus, [type |-> "run_start"])
     ELSE /\ agent' = "waiting" /\ human' = pending
          /\ bus' = Append(bus, [type |-> "approval_request"])
          /\ UNCHANGED <<asked, granted, denied, retries, turn>>
  /\ UNCHANGED <<issued, open, texts, tracker, queue, clientVars, storeVars>>

\* signal_approval, and the wake-up that restarts the stream.
Decide(no) ==
  /\ agent = "waiting"
  /\ Restart(asked \ no, no)
  /\ bus' = Append(bus, [type |-> "run_start"])
  /\ UNCHANGED <<issued, open, texts, collected, tracker, queue, clientVars, storeVars>>

\* The text of an answer that was not streamed is known at the end only.
FullOutput == IF tracker.output = <<>> THEN <<MaxTexts + 1>> ELSE tracker.output

EndCompleted ==
  /\ agent = "done" /\ Drained
  /\ tracker' = [tracker EXCEPT !.output = FullOutput, !.status = "completed"]
  /\ collected' = Both(collected, turn)
  /\ bus' = bus \o <<[type |-> "metadata", output |-> FullOutput], [type |-> "run_end"]>>
  /\ agent' = "over"
  /\ UNCHANGED <<streamVars, queue, clientVars, storeVars>>

\* The exception agent.run raised has a SiteUnavailableError in its chain, or not.
Failed == agent \in {"site", "error"}

EndFailed ==
  /\ Failed /\ Drained
  /\ tracker' = [tracker EXCEPT !.status = "error", !.site = (agent = "site")]
  /\ bus' = bus \o <<[type |-> "error"], [type |-> "run_end"]>>
  /\ agent' = "over"
  /\ UNCHANGED <<streamVars, collected, queue, clientVars, storeVars>>

EndCancelled ==
  /\ agent = "cancelled" /\ Drained
  /\ tracker' = [tracker EXCEPT !.status = "cancelled"]
  /\ bus' = Append(bus, [type |-> "takeover_cancelled"])
  /\ agent' = "over"
  /\ UNCHANGED <<streamVars, collected, queue, clientVars, storeVars>>

\* repair_tool_message_pairs: a call without a result is given one.
Repaired(m) ==
  [calls |-> m.calls, returns |-> m.returns \cup m.calls,
   invented |-> m.calls \ m.returns]

\* execute_run and persist_chat_run.
Persist ==
  /\ agent = "over"
  /\ agent' = "stored"
  /\ IF tracker.status = "completed" \/ tracker.site
     THEN /\ stored' = tracker
          /\ message' = IF tracker.site THEN <<0>> ELSE tracker.output
          /\ history' = Repaired(collected)
     ELSE UNCHANGED storeVars
  /\ UNCHANGED <<streamVars, collected, tracker, queue, bus, clientVars>>

-----------------------------------------------------------------------------
(* The client                                                              *)

\* A mutant of the next: only the first entry of a call is marked.
ResultShownOnce(calls, c, ok) ==
  [i \in DOMAIN calls |->
     IF calls[i].id = c /\ \A j \in 1..i - 1 : calls[j].id # c
     THEN [calls[i] EXCEPT !.status = Outcome(ok)] ELSE calls[i]]

\* useRuns marks every entry of the call: it may have been announced twice.
ResultShown(calls, c, ok) == Settled(calls, c, ok)

\* applyEventToRun
Applied(run, e) ==
  CASE e.type = "tool_call"   -> [run EXCEPT !.calls = Append(@, Started(e.call))]
    [] e.type = "tool_result" -> [run EXCEPT !.calls = ResultShown(@, e.call, e.ok)]
    [] e.type = "text_delta"  -> [run EXCEPT !.output = Append(@, e.text)]
    [] e.type = "metadata"    -> [run EXCEPT !.status = "completed", !.output = e.output]
    [] e.type = "error"       -> [run EXCEPT !.status = "error"]
    [] e.type = "run_end" /\ run.status \notin {"error", "cancelled"} ->
         [run EXCEPT !.status = "completed"]
    [] OTHER -> run

\* appendStreamingText and finalizeAssistantMessage.  An error is written by
\* the event callback and again by the error callback.
Written(text, e) ==
  CASE e.type = "text_delta" -> Append(text, e.text)
    [] e.type = "error"      -> text \o <<0, 0>>
    [] e.type = "metadata"   -> e.output
    [] OTHER                 -> text

Read ==
  /\ seen < Len(bus)
  /\ seen' = seen + 1
  /\ LET e == bus[seen']
     IN  /\ shown' = Applied(IF shown = NoRun THEN NewRun ELSE shown, e)
         /\ bubble' = Written(bubble, e)
  /\ UNCHANGED <<agent, streamVars, collected, tracker, queue, bus, reloads, storeVars>>

\* The page is loaded again while the run waits: its view is made anew, from
\* the first event.
ReloadPage ==
  /\ agent = "waiting" /\ reloads < MaxReloads
  /\ reloads' = reloads + 1
  /\ seen' = 0 /\ shown' = NoRun /\ bubble' = <<>>
  /\ UNCHANGED <<agent, streamVars, collected, tracker, queue, bus, storeVars>>

-----------------------------------------------------------------------------

TraceNext ==
  \/ Writes \/ ConnectionLost \/ AgentReturns
  \/ \E c \in Calls : \/ CallTool(c) \/ DeferCall(c) \/ ResumeCall(c)
                      \/ \E ok \in BOOLEAN : ToolEnds(c, ok)
  \/ Forward
  \/ \E pending \in SUBSET asked : EndDeferred(pending)
  \/ \E no \in SUBSET human : Decide(no)
  \/ EndCompleted \/ EndFailed \/ EndCancelled \/ Persist
  \/ Read \/ ReloadPage

TraceSpec == TraceInit /\ [][TraceNext]_traceVars

-----------------------------------------------------------------------------
(* Properties                                                              *)

Followed == agent = "stored" /\ seen = Len(bus)

\* Who followed the run sees what opening the session again would show: the
\* same text, status, calls and outcomes of calls, completed or not, whatever
\* was deferred, decided, retried or reloaded on the way.
LiveIsStored ==
  Followed /\ stored # NoRun =>
    /\ shown.output = stored.output
    /\ shown.status = stored.status
    /\ Range(shown.calls) = Range(stored.calls)

\* The message in the chat is the one the session keeps.
MessageIsBubble == Followed /\ stored.status = "completed" => bubble = message

\* No call of a completed run is shown as running for ever.
CompletedCallsSettled ==
  Followed /\ tracker.status = "completed" =>
    \A i \in DOMAIN shown.calls : shown.calls[i].status # "running"

\* The messages left to the session's next run pair every call with a result:
\* a model's API refuses others.
HistoryIsPaired == history.calls = history.returns

\* A call whose result is replaced by "Tool execution did not finish" did not.
HistoryTellsTruth ==
  \A i \in DOMAIN stored.calls :
    stored.calls[i].id \in history.invented => stored.calls[i].status = "running"

\* The code as it is does not keep the following two (README, Deviations).

\* A call is one card of the run's view.
CallsShownOnce ==
  \A i, j \in DOMAIN shown.calls : shown.calls[i].id = shown.calls[j].id => i = j

\* A run that was cancelled is not shown as if it went on.
CancelledIsShown == Followed /\ tracker.status = "cancelled" => shown.status # "running"
=============================================================================
