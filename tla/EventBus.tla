------------------------------ MODULE EventBus ------------------------------
(***************************************************************************)
(* RunEventBus: the bounded history of one run's events and its            *)
(* subscribers, each a generator with a cursor that GET /stream and        *)
(* POST /chat turn into an SSE response.                                   *)
(*                                                                         *)
(* publish and close take the condition's lock, but nothing suspends while *)
(* it is held, so each is one step; so is what a subscriber does from its  *)
(* wake-up to the event it yields.  An event is the number of its          *)
(* publication and its kind.                                               *)
(***************************************************************************)
EXTENDS Naturals, Sequences

CONSTANTS Subscribers,
          Kinds,        \* event kinds other than run_end; also new_messages
          MaxEvents,    \* capacity of the history
          MaxPublished, \* bound: events one run publishes
          MaxFrom       \* bound: the largest from_index a client sends

ASSUME EventBusAssumption ==
  /\ MaxEvents \in Nat \ {0}
  /\ MaxPublished \in Nat
  /\ MaxFrom \in Nat
  /\ "run_end" \notin Kinds

VARIABLES
  history,    \* the newest events
  base,       \* _base_index: the absolute index of history[1]
  closed,     \* _closed
  ended,      \* run_end has been published: the owner publishes no more
  stream,     \* where each subscriber's generator is
  cursor,     \* its cursor
  from,       \* the from_index it was opened with
  dropped,    \* dropped_before of the stream_truncated notice it was sent
  got         \* the (index, event) pairs it was sent on this connection

busVars == <<history, base, closed, ended>>
readerVars == <<stream, cursor, from, dropped, got>>
vars == <<busVars, readerVars>>

Larger(a, b) == IF a > b THEN a ELSE b

\* The absolute index of the next event: how many have been published.
LastIndex == base + Len(history)

Events == [number : 1..MaxPublished,
           kind : (Kinds \cup {"run_end"}) \ {"new_messages"}]
Pairs  == [index : Nat, event : Events]

TypeOK ==
  /\ history \in Seq(Events)
  /\ base \in Nat
  /\ closed \in BOOLEAN
  /\ ended \in BOOLEAN
  /\ stream \in [Subscribers -> {"none", "noticed", "waiting", "done"}]
  /\ cursor \in [Subscribers -> Nat]
  /\ from \in [Subscribers -> Nat]
  /\ dropped \in [Subscribers -> Nat]
  /\ got \in [Subscribers -> Seq(Pairs)]

Init ==
  /\ history = <<>>
  /\ base = 0
  /\ closed = FALSE
  /\ ended = FALSE
  /\ stream = [s \in Subscribers |-> "none"]
  /\ cursor = [s \in Subscribers |-> 0]
  /\ from = [s \in Subscribers |-> 0]
  /\ dropped = [s \in Subscribers |-> 0]
  /\ got = [s \in Subscribers |-> <<>>]

-----------------------------------------------------------------------------
(* The publisher                                                           *)

\* _DROPPED_EVENT_TYPES
Carried(kind) == kind # "new_messages"

\* del history[:n]
Without(h, n) == SubSeq(h, n + 1, Len(h))

PublishEvent(event) ==
  LET longer == Append(history, event)
      excess == IF Len(longer) > MaxEvents THEN Len(longer) - MaxEvents ELSE 0
  IN  /\ history' = Without(longer, excess)
      /\ base' = base + excess

\* The orchestrator dispatches an event; run_end is a run's last.
Publish(kind) ==
  /\ ~ended /\ ~closed
  /\ Carried(kind)
  /\ LastIndex < MaxPublished
  /\ PublishEvent([number |-> LastIndex + 1, kind |-> kind])
  /\ ended' = (kind = "run_end")
  /\ UNCHANGED <<closed, readerVars>>

\* execute_run's finally.  A run may have ended without a run_end event.
Close ==
  /\ ~closed
  /\ closed' = TRUE
  /\ UNCHANGED <<history, base, ended, readerVars>>

-----------------------------------------------------------------------------
(* Subscribers                                                             *)

\* The generator's first step: its start, or the notice that history has
\* been truncated before it.
Attach(s, f) ==
  /\ stream[s] = "none"
  /\ stream' = [stream EXCEPT ![s] = IF f < base THEN "noticed" ELSE "waiting"]
  /\ cursor' = [cursor EXCEPT ![s] = Larger(f, base)]
  /\ from' = [from EXCEPT ![s] = f]
  /\ dropped' = [dropped EXCEPT ![s] = IF f < base THEN base ELSE 0]
  /\ got' = [got EXCEPT ![s] = <<>>]
  /\ UNCHANGED busVars

\* After the notice: the bus may have dropped more meanwhile.
Resume(s) ==
  /\ stream[s] = "noticed"
  /\ stream' = [stream EXCEPT ![s] = "waiting"]
  /\ cursor' = [cursor EXCEPT ![s] = base]
  /\ UNCHANGED <<from, dropped, got, busVars>>

AwakeOnClose(s) == stream[s] = "waiting" /\ closed
AwakeAlways(s) == stream[s] = "waiting"
Awake(s) == stream[s] = "waiting" /\ (LastIndex > cursor[s] \/ closed)

\* Where the subscriber reads, past whatever was dropped while it was away.
ReadIndexNewest(s) == IF cursor[s] < base THEN LastIndex - 1 ELSE cursor[s]
ReadIndex(s) == Larger(cursor[s], base)

\* The next event; run_end is the last frame of the response.
Deliver(s) ==
  /\ Awake(s)
  /\ ReadIndex(s) < LastIndex
  /\ LET index == ReadIndex(s)
         event == history[index - base + 1]
     IN  /\ got' = [got EXCEPT ![s] = Append(@, [index |-> index, event |-> event])]
         /\ cursor' = [cursor EXCEPT ![s] = index + 1]
         /\ stream' = IF event.kind = "run_end"
                      THEN [stream EXCEPT ![s] = "done"] ELSE stream
  /\ UNCHANGED <<from, dropped, busVars>>

\* Closed and drained.
Finish(s) ==
  /\ Awake(s)
  /\ ReadIndex(s) >= LastIndex
  /\ cursor' = [cursor EXCEPT ![s] = ReadIndex(s)]
  /\ stream' = [stream EXCEPT ![s] = "done"]
  /\ UNCHANGED <<from, dropped, got, busVars>>

\* The client goes away, or is done with the response.
Detach(s) ==
  /\ stream[s] # "none"
  /\ stream' = [stream EXCEPT ![s] = "none"]
  /\ UNCHANGED <<cursor, from, dropped, got, busVars>>

Serve(s) == Resume(s) \/ Deliver(s) \/ Finish(s)

Next ==
  \/ \E kind \in Kinds \cup {"run_end"} : Publish(kind)
  \/ Close
  \/ \E s \in Subscribers :
       \/ \E f \in 0..MaxFrom : Attach(s, f)
       \/ Serve(s)
       \/ Detach(s)

Spec == Init /\ [][Next]_vars

\* The loop runs the response tasks that are ready, and their clients read.
\* A run need not end: it may wait for a person for ever.
LiveSpec == Spec /\ \A s \in Subscribers : WF_vars(Serve(s))

-----------------------------------------------------------------------------
(* Properties                                                              *)

Open(s) == stream[s] \in {"noticed", "waiting"}

\* The history is the newest events, in the order of their publication, and
\* is as long as its capacity allows.
HistoryIsNewest ==
  /\ Len(history) <= MaxEvents
  /\ base > 0 => Len(history) = MaxEvents
  /\ \A i \in 1..Len(history) : history[i].number = base + i

\* An absolute index names one event, for every subscriber and across the
\* truncation of the history: the cursor a client comes back with is good.
IndexNamesEvent ==
  \A s \in Subscribers : \A i \in 1..Len(got[s]) :
    got[s][i].event.number = got[s][i].index + 1

\* No connection is sent an event twice, or out of order.
InOrder ==
  \A s \in Subscribers : \A i, j \in 1..Len(got[s]) :
    i < j => got[s][i].index < got[s][j].index

\* Between the index a client asked for and the one its subscription is at,
\* it was sent everything but what the bus had no longer.
OnlyDroppedMissed ==
  \A s \in Subscribers : \A k \in from[s]..(cursor[s] - 1) :
    \/ k < base
    \/ \E i \in 1..Len(got[s]) : got[s][i].index = k

\* The bus is a log of unbounded length as far as its promises go.
stage == [s \in Subscribers |-> CASE stream[s] = "none" -> "away"
                                  [] stream[s] = "done" -> "ended"
                                  [] OTHER -> "open"]
Log == INSTANCE EventLog WITH Readers <- Subscribers, Keep <- MaxEvents,
                              length <- LastIndex, sealed <- ended \/ closed,
                              next <- cursor
ImplementsLog == Log!LogSpec

\* An open stream is given what is published, or is at its end, or has left.
EventsReachReaders ==
  \A s \in Subscribers, n \in 1..MaxPublished :
    (Open(s) /\ LastIndex >= n) ~> (~Open(s) \/ cursor[s] >= n)

\* When the run is over, no response stays open.
ClosedDrains ==
  \A s \in Subscribers : (closed /\ Open(s)) ~> ~Open(s)

=============================================================================
