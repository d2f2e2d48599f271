------------------------------ MODULE EventLog ------------------------------
(***************************************************************************)
(* What a run's event bus promises its readers, without the buffer that    *)
(* implements it: an append-only log in which every reader moves forward,  *)
(* is given the event at the position it is at, misses only events that    *)
(* the newest Keep ones have pushed out, and comes to the end of its       *)
(* stream only when the log is complete and read.                          *)
(***************************************************************************)
EXTENDS Naturals

CONSTANTS Readers,
          Keep      \* how many of the newest events are kept, at least one

VARIABLES length,   \* events appended so far; the next one has this position
          sealed,   \* nothing more will be appended
          stage,    \* "away", "open" or "ended", by reader
          next      \* the position each reader is at

logVars == <<length, sealed, stage, next>>

\* The oldest position still kept.
Oldest == IF length > Keep THEN length - Keep ELSE 0

LogInit ==
  /\ length = 0
  /\ sealed = FALSE
  /\ stage = [r \in Readers |-> "away"]
  /\ next = [r \in Readers |-> 0]

\* The last event seals the log as it is appended.
LogAppend ==
  /\ ~sealed
  /\ length' = length + 1
  /\ sealed' \in BOOLEAN
  /\ UNCHANGED <<stage, next>>

LogSeal ==
  /\ sealed' = TRUE
  /\ UNCHANGED <<length, stage, next>>

LogOpen(r) ==
  /\ stage[r] = "away"
  /\ stage' = [stage EXCEPT ![r] = "open"]
  /\ next'[r] \in Nat
  /\ next' = [next EXCEPT ![r] = next'[r]]
  /\ UNCHANGED <<length, sealed>>

\* The reader is handed the event at p: where it is or, when that has been
\* dropped, one that was pushed to the front of the kept ones.
LogRead(r) ==
  /\ stage[r] = "open"
  /\ \E p \in 0..(length - 1) :
       /\ p = next[r] \/ (next[r] < p /\ p <= Oldest)
       /\ next' = [next EXCEPT ![r] = p + 1]
  /\ UNCHANGED <<length, sealed, stage>>

\* The reader is told that events are gone, and moves on past them.
LogSkip(r) ==
  /\ stage[r] = "open"
  /\ \E p \in 0..Oldest : next[r] < p /\ next' = [next EXCEPT ![r] = p]
  /\ UNCHANGED <<length, sealed, stage>>

LogEnd(r) ==
  /\ stage[r] = "open"
  /\ sealed
  /\ next[r] >= length
  /\ stage' = [stage EXCEPT ![r] = "ended"]
  /\ UNCHANGED <<length, sealed, next>>

\* Reading the event that seals the log ends the stream with it.
LogReadLast(r) ==
  /\ stage[r] = "open"
  /\ sealed
  /\ length > 0
  /\ next[r] = length - 1 \/ (next[r] < length - 1 /\ length - 1 <= Oldest)
  /\ next' = [next EXCEPT ![r] = length]
  /\ stage' = [stage EXCEPT ![r] = "ended"]
  /\ UNCHANGED <<length, sealed>>

LogLeave(r) ==
  /\ stage' = [stage EXCEPT ![r] = "away"]
  /\ UNCHANGED <<length, sealed, next>>

LogNext ==
  \/ LogAppend
  \/ LogSeal
  \/ \E r \in Readers :
       \/ LogOpen(r)
       \/ LogRead(r)
       \/ LogSkip(r)
       \/ LogEnd(r)
       \/ LogReadLast(r)
       \/ LogLeave(r)

LogSpec == LogInit /\ [][LogNext]_logVars
=============================================================================
