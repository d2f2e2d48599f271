---------------------------- MODULE StreamProofs ----------------------------
(***************************************************************************)
(* The event bus keeps its index, order and completeness promises for any  *)
(* number of subscribers, any capacity and any sequence of events, and     *)
(* implements EventLog, the log without a buffer.  On top of these, the    *)
(* chat client that follows a run over connections that break and come     *)
(* back shows the run without a gap.                                       *)
(***************************************************************************)
EXTENDS StreamClient, SequenceTheorems, TLAPS

\* run_end is published last.
RunEndIsLast ==
  \A i \in 1..Len(history) :
    history[i].kind = "run_end" => ended /\ i = Len(history)

\* A subscriber that has yielded the notice is not ahead of the history.
NoticedIsBehind == \A s \in Subscribers : stream[s] = "noticed" => cursor[s] <= base

SentIsBehindCursor ==
  \A s \in Subscribers : \A i \in 1..Len(got[s]) : got[s][i].index < cursor[s]

\* What the history looks like, and what was sent.
BusInv == HistoryIsNewest /\ RunEndIsLast /\ LastIndex <= MaxPublished
SentInv == /\ NoticedIsBehind
           /\ SentIsBehindCursor
           /\ IndexNamesEvent
           /\ InOrder
           /\ OnlyDroppedMissed
IInv == TypeOK /\ BusInv /\ SentInv

-----------------------------------------------------------------------------
(* The history                                                             *)

\* del history[:n] leaves the rest in order.
LEMMA WithoutOps ==
  ASSUME NEW S, NEW h \in Seq(S), NEW n \in Nat, n <= Len(h)
  PROVE  /\ Without(h, n) \in Seq(S)
         /\ Len(Without(h, n)) = Len(h) - n
         /\ \A i \in 1..(Len(h) - n) : Without(h, n)[i] = h[n + i]
<1>1. n + 1 \in 1..(Len(h) + 1) /\ Len(h) \in n..Len(h)
  OBVIOUS
<1>2. \A i \in (n + 1)..Len(h) : h[i] \in S
  OBVIOUS
<1>. QED  BY <1>1, <1>2, SubSeqProperties DEF Without

\* publish appends the event, and drops the oldest one when the history was
\* full; base counts what was dropped.
LEMMA PublishOps ==
  ASSUME TypeOK, HistoryIsNewest, NEW event \in Events, PublishEvent(event)
  PROVE  /\ history' \in Seq(Events)
         /\ base' \in Nat
         /\ base' \in {base, base + 1}
         /\ LastIndex' = LastIndex + 1
         /\ Len(history') \in 1..MaxEvents
         /\ history'[Len(history')] = event
         /\ \A i \in 1..(Len(history') - 1) :
              i + (base' - base) \in 1..Len(history) /\ history'[i] = history[i + (base' - base)]
         /\ base' > 0 => Len(history') = MaxEvents
<1>. DEFINE longer == Append(history, event)
            excess == IF Len(longer) > MaxEvents THEN Len(longer) - MaxEvents ELSE 0
<1>1. /\ longer \in Seq(Events) /\ Len(longer) = Len(history) + 1
      /\ longer[Len(history) + 1] = event
      /\ \A i \in 1..Len(history) : longer[i] = history[i]
  BY DEF TypeOK
<1>2. Len(history) \in Nat /\ Len(history) <= MaxEvents /\ base \in Nat /\ MaxEvents \in Nat \ {0}
  BY EventBusAssumption DEF TypeOK, HistoryIsNewest
<1>3. /\ excess \in {0, 1} /\ excess \in Nat /\ excess <= Len(longer)
      /\ excess = 1 => Len(history) = MaxEvents
      /\ excess = 0 => Len(history) < MaxEvents
  BY <1>1, <1>2
<1>4. history' = Without(longer, excess) /\ base' = base + excess
  BY DEF PublishEvent
<1>. HIDE DEF longer, excess
<1>5. /\ history' \in Seq(Events)
      /\ Len(history') = Len(longer) - excess
      /\ \A i \in 1..(Len(longer) - excess) : history'[i] = longer[excess + i]
  <2>1. /\ Without(longer, excess) \in Seq(Events)
        /\ Len(Without(longer, excess)) = Len(longer) - excess
        /\ \A i \in 1..(Len(longer) - excess) : Without(longer, excess)[i] = longer[excess + i]
    <3>1. longer \in Seq(Events) /\ excess \in Nat /\ excess <= Len(longer)
      BY <1>1, <1>3
    <3>. QED  BY <3>1, WithoutOps, Zenon
  <2>. QED  BY <2>1, <1>4, Zenon
<1>6. base' \in Nat /\ base' \in {base, base + 1} /\ Len(history') \in 1..MaxEvents
  BY <1>1, <1>2, <1>3, <1>4, <1>5
<1>7. LastIndex' = LastIndex + 1
  BY <1>1, <1>2, <1>3, <1>4, <1>5 DEF LastIndex
<1>8. history'[Len(history')] = event
  BY <1>1, <1>2, <1>3, <1>5
<1>9. ASSUME NEW i \in 1..(Len(history') - 1)
      PROVE  i + (base' - base) \in 1..Len(history) /\ history'[i] = history[i + (base' - base)]
  <2>1. /\ base' - base = excess /\ i \in 1..(Len(longer) - excess)
        /\ i + excess \in 1..Len(history) /\ excess + i = i + excess
    BY <1>1, <1>2, <1>3, <1>4, <1>5
  <2>2. history'[i] = longer[i + excess]
    BY <2>1, <1>5
  <2>. QED  BY <2>1, <2>2, <1>1
<1>10. base' > 0 => Len(history') = MaxEvents
  BY <1>1, <1>2, <1>3, <1>4, <1>5 DEF HistoryIsNewest
<1>. QED  BY <1>5, <1>6, <1>7, <1>8, <1>9, <1>10

\* What a subscriber reads is the event its index names.
LEMMA ReadOps ==
  ASSUME IInv, NEW s \in Subscribers, ReadIndex(s) < LastIndex
  PROVE  /\ ReadIndex(s) \in Nat
         /\ ReadIndex(s) - base + 1 \in 1..Len(history)
         /\ history[ReadIndex(s) - base + 1] \in Events
         /\ history[ReadIndex(s) - base + 1].number = ReadIndex(s) + 1
         /\ ReadIndex(s) >= cursor[s]
         /\ ReadIndex(s) = cursor[s] \/ ReadIndex(s) = base
<1>1. cursor[s] \in Nat /\ base \in Nat /\ Len(history) \in Nat /\ history \in Seq(Events)
  BY DEF IInv, TypeOK
<1>2. /\ ReadIndex(s) \in Nat /\ ReadIndex(s) >= cursor[s] /\ ReadIndex(s) >= base
      /\ ReadIndex(s) = cursor[s] \/ ReadIndex(s) = base
  BY <1>1 DEF ReadIndex, Larger
<1>3. ReadIndex(s) - base + 1 \in 1..Len(history)
  BY <1>1, <1>2 DEF LastIndex
<1>4. history[ReadIndex(s) - base + 1].number = base + (ReadIndex(s) - base + 1)
  BY <1>3 DEF IInv, BusInv, HistoryIsNewest
<1>. QED  BY <1>1, <1>2, <1>3, <1>4

-----------------------------------------------------------------------------
(* The invariant                                                           *)

LEMMA InitIInv == Init => IInv
<1>. SUFFICES ASSUME Init PROVE IInv
  OBVIOUS
<1>1. TypeOK
  <2>1. <<>> \in Seq(Events) /\ <<>> \in Seq(Pairs)
    OBVIOUS
  <2>2. /\ stream \in [Subscribers -> {"none", "noticed", "waiting", "done"}]
        /\ got \in [Subscribers -> Seq(Pairs)]
    BY <2>1 DEF Init
  <2>3. /\ cursor \in [Subscribers -> Nat] /\ from \in [Subscribers -> Nat]
        /\ dropped \in [Subscribers -> Nat]
    BY DEF Init
  <2>. QED  BY <2>1, <2>2, <2>3 DEF Init, TypeOK
<1>2. BusInv
  BY EventBusAssumption DEF Init, BusInv, HistoryIsNewest, RunEndIsLast, LastIndex
<1>3. SentInv
  BY DEF Init, SentInv, NoticedIsBehind, SentIsBehindCursor, IndexNamesEvent, InOrder, OnlyDroppedMissed
<1>. QED  BY <1>1, <1>2, <1>3 DEF IInv

LEMMA SentTyped ==
  ASSUME TypeOK
  PROVE  /\ \A s \in Subscribers : Len(got[s]) \in Nat
         /\ \A s \in Subscribers : \A i \in 1..Len(got[s]) :
              got[s][i].index \in Nat /\ cursor[s] \in Nat
<1>1. ASSUME NEW s \in Subscribers
      PROVE  got[s] \in Seq(Pairs) /\ cursor[s] \in Nat
  BY DEF TypeOK
<1>2. \A p \in Pairs : p.index \in Nat
  BY DEF Pairs
<1>. QED  BY <1>1, <1>2

LEMMA BusUnchanged ==
  ASSUME IInv, UNCHANGED busVars
  PROVE  BusInv'
BY DEF IInv, BusInv, HistoryIsNewest, RunEndIsLast, LastIndex, busVars

\* What was sent stays in order while no subscriber reads.
LEMMA SentUnchanged ==
  ASSUME SentInv, UNCHANGED <<got, cursor>>
  PROVE  SentIsBehindCursor' /\ IndexNamesEvent' /\ InOrder'
<1>1. got' = got /\ cursor' = cursor
  OBVIOUS
<1>2. SentIsBehindCursor'
  BY <1>1 DEF SentInv, SentIsBehindCursor
<1>3. IndexNamesEvent'
  BY <1>1 DEF SentInv, IndexNamesEvent
<1>4. InOrder'
  BY <1>1 DEF SentInv, InOrder
<1>. QED  BY <1>2, <1>3, <1>4

\* Publishing, whether or not the bus is closed in the same step.
LEMMA PublishPreserves ==
  ASSUME IInv, NEW kind \in Kinds \cup {"run_end"}, Carried(kind),
         ~ended, LastIndex < MaxPublished,
         PublishEvent([number |-> LastIndex + 1, kind |-> kind]),
         ended' = (kind = "run_end"), closed' \in BOOLEAN, UNCHANGED readerVars
  PROVE  IInv'
<1>. DEFINE event == [number |-> LastIndex + 1, kind |-> kind]
<1>1. /\ ~ended /\ PublishEvent(event) /\ LastIndex < MaxPublished
      /\ ended' = (kind = "run_end") /\ closed' \in BOOLEAN /\ kind # "new_messages"
      /\ stream' = stream /\ cursor' = cursor /\ from' = from /\ dropped' = dropped /\ got' = got
  BY DEF Carried, readerVars
<1>2. TypeOK /\ HistoryIsNewest /\ LastIndex \in Nat /\ MaxPublished \in Nat
  BY EventBusAssumption DEF IInv, BusInv, TypeOK, LastIndex
<1>3. event \in Events /\ event.number = LastIndex + 1 /\ event.kind = kind
  BY <1>1, <1>2 DEF Events
<1>. HIDE DEF event
<1>4. /\ history' \in Seq(Events)
      /\ base' \in Nat /\ base' \in {base, base + 1}
      /\ LastIndex' = LastIndex + 1
      /\ Len(history') \in 1..MaxEvents
      /\ history'[Len(history')] = event
      /\ \A i \in 1..(Len(history') - 1) :
           i + (base' - base) \in 1..Len(history) /\ history'[i] = history[i + (base' - base)]
      /\ base' > 0 => Len(history') = MaxEvents
  BY <1>1, <1>2, <1>3, PublishOps
<1>5. base \in Nat /\ Len(history) \in Nat /\ base' + Len(history') = base + Len(history) + 1
  BY <1>2, <1>4 DEF LastIndex, TypeOK
<1>6. TypeOK'
  BY <1>1, <1>2, <1>4 DEF TypeOK
<1>7. HistoryIsNewest'
  <2>1. ASSUME NEW i \in 1..Len(history') PROVE history'[i].number = base' + i
    <3>1. CASE i = Len(history')
      BY <3>1, <1>3, <1>4, <1>5 DEF LastIndex
    <3>2. CASE i < Len(history')
      <4>1. i \in 1..(Len(history') - 1)
        BY <3>2, <1>4
      <4>2. history'[i].number = base + (i + (base' - base))
        BY <4>1, <1>2, <1>4 DEF HistoryIsNewest
      <4>. QED  BY <4>2, <1>4, <1>5
    <3>. QED  BY <3>1, <3>2, <1>4
  <2>2. Len(history') <= MaxEvents /\ (base' > 0 => Len(history') = MaxEvents)
    BY <1>4, EventBusAssumption
  <2>. QED  BY <2>1, <2>2 DEF HistoryIsNewest
<1>8. RunEndIsLast'
  <2>1. ASSUME NEW i \in 1..Len(history'), history'[i].kind = "run_end"
        PROVE  ended' /\ i = Len(history')
    <3>1. CASE i < Len(history')
      <4>1. i \in 1..(Len(history') - 1)
        BY <3>1, <1>4
      <4>2. ended
        BY <4>1, <2>1, <1>4 DEF IInv, BusInv, RunEndIsLast
      <4>. QED  BY <4>2, <1>1
    <3>2. CASE i = Len(history')
      BY <3>2, <2>1, <1>1, <1>3, <1>4
    <3>. QED  BY <3>1, <3>2, <1>4
  <2>. QED  BY <2>1 DEF RunEndIsLast
<1>9. (LastIndex <= MaxPublished)'
  BY <1>1, <1>2, <1>4
<1>10. NoticedIsBehind'
  BY <1>1, <1>4, <1>5 DEF IInv, SentInv, NoticedIsBehind, TypeOK
<1>11. SentIsBehindCursor' /\ IndexNamesEvent' /\ InOrder'
  BY <1>1, SentUnchanged DEF IInv
<1>12. OnlyDroppedMissed'
  <2>1. ASSUME NEW q \in Subscribers, NEW k \in from[q]..(cursor[q] - 1)
        PROVE  k < base' \/ \E i \in 1..Len(got[q]) : got[q][i].index = k
    <3>1. k \in Int /\ (k < base \/ \E i \in 1..Len(got[q]) : got[q][i].index = k)
      BY DEF IInv, SentInv, OnlyDroppedMissed, TypeOK
    <3>2. k < base => k < base'
      BY <1>4, <1>5, <3>1
    <3>. QED  BY <3>1, <3>2
  <2>. QED  BY <2>1, <1>1 DEF OnlyDroppedMissed
<1>. QED  BY <1>6, <1>7, <1>8, <1>9, <1>10, <1>11, <1>12 DEF IInv, BusInv, SentInv

LEMMA ClosePreserves ==
  ASSUME IInv, Close
  PROVE  IInv'
<1>1. TypeOK'
  BY DEF IInv, Close, TypeOK, readerVars
<1>2. BusInv'
  BY DEF Close, IInv, BusInv, HistoryIsNewest, RunEndIsLast, LastIndex
<1>3. SentInv'
  <2>1. UNCHANGED <<got, cursor, from, stream, base>>
    BY DEF Close, readerVars
  <2>2. SentIsBehindCursor' /\ IndexNamesEvent' /\ InOrder'
    BY <2>1, SentUnchanged DEF IInv
  <2>3. NoticedIsBehind' /\ OnlyDroppedMissed'
    BY <2>1 DEF IInv, SentInv, NoticedIsBehind, OnlyDroppedMissed
  <2>. QED  BY <2>2, <2>3 DEF SentInv
<1>. QED  BY <1>1, <1>2, <1>3 DEF IInv

LEMMA AttachPreserves ==
  ASSUME IInv, NEW s \in Subscribers, NEW f \in Nat, Attach(s, f)
  PROVE  IInv'
<1>1. TypeOK'
  <2>1. Larger(f, base) \in Nat /\ <<>> \in Seq(Pairs)
    BY DEF IInv, TypeOK, Larger
  <2>. QED  BY <2>1 DEF IInv, Attach, TypeOK, busVars
<1>2. BusInv'
  BY BusUnchanged DEF Attach
<1>3. NoticedIsBehind'
  BY DEF IInv, SentInv, NoticedIsBehind, Attach, busVars, TypeOK, Larger
<1>4. Len(<<>>) = 0
  OBVIOUS
<1>5. got'[s] = <<>> /\ \A q \in Subscribers \ {s} : got'[q] = got[q] /\ cursor'[q] = cursor[q] /\ from'[q] = from[q]
  BY DEF IInv, TypeOK, Attach
<1>6. SentIsBehindCursor' /\ IndexNamesEvent' /\ InOrder'
  <2>1. ASSUME NEW q \in Subscribers, NEW i \in 1..Len(got'[q])
        PROVE  got'[q] = got[q] /\ cursor'[q] = cursor[q]
    <3>1. q # s
      BY <1>4, <1>5
    <3>. QED  BY <3>1, <1>5
  <2>2. SentIsBehindCursor'
    <3>1. ASSUME NEW q \in Subscribers, NEW i \in 1..Len(got'[q])
          PROVE  got'[q][i].index < cursor'[q]
      BY <2>1 DEF IInv, SentInv, SentIsBehindCursor
    <3>. QED  BY <3>1 DEF SentIsBehindCursor
  <2>3. IndexNamesEvent'
    <3>1. ASSUME NEW q \in Subscribers, NEW i \in 1..Len(got'[q])
          PROVE  got'[q][i].event.number = got'[q][i].index + 1
      BY <2>1 DEF IInv, SentInv, IndexNamesEvent
    <3>. QED  BY <3>1 DEF IndexNamesEvent
  <2>4. InOrder'
    <3>1. ASSUME NEW q \in Subscribers,
                 NEW i \in 1..Len(got'[q]), NEW j \in 1..Len(got'[q]), i < j
          PROVE  got'[q][i].index < got'[q][j].index
      BY <2>1, <3>1 DEF IInv, SentInv, InOrder
    <3>. QED  BY <3>1 DEF InOrder
  <2>. QED  BY <2>2, <2>3, <2>4
<1>7. OnlyDroppedMissed'
  <2>1. \A k \in from'[s]..(cursor'[s] - 1) : k < base
    BY DEF IInv, TypeOK, Attach, Larger
  <2>. QED  BY <2>1, <1>5 DEF IInv, SentInv, OnlyDroppedMissed, Attach, busVars
<1>. QED  BY <1>1, <1>2, <1>3, <1>6, <1>7 DEF IInv, SentInv

LEMMA ResumePreserves ==
  ASSUME IInv, NEW s \in Subscribers, Resume(s)
  PROVE  IInv'
<1>1. TypeOK'
  BY DEF IInv, Resume, TypeOK, busVars
<1>2. BusInv'
  BY BusUnchanged DEF Resume
<1>3. cursor[s] <= base /\ cursor'[s] = base /\ \A q \in Subscribers \ {s} : cursor'[q] = cursor[q]
  BY DEF IInv, SentInv, NoticedIsBehind, Resume, TypeOK
<1>4. NoticedIsBehind'
  BY DEF IInv, SentInv, NoticedIsBehind, Resume, busVars, TypeOK
<1>5. SentIsBehindCursor'
  <2>1. got' = got /\ cursor \in [Subscribers -> Nat] /\ base \in Nat
    BY DEF Resume, IInv, TypeOK
  <2>2. ASSUME NEW q \in Subscribers, NEW i \in 1..Len(got[q])
        PROVE  got[q][i].index < cursor'[q]
    <3>1. got[q][i].index \in Nat /\ got[q][i].index < cursor[q] /\ cursor[q] \in Nat
      <4>1. got[q][i].index < cursor[q]
        BY DEF IInv, SentInv, SentIsBehindCursor
      <4>. QED  BY <4>1, SentTyped DEF IInv
    <3>2. cursor[q] <= cursor'[q] /\ cursor'[q] \in Nat
      BY <1>3, <2>1
    <3>. QED  BY <3>1, <3>2
  <2>. QED  BY <2>1, <2>2 DEF SentIsBehindCursor
<1>6. IndexNamesEvent' /\ InOrder'
  <2>1. got' = got
    BY DEF Resume
  <2>2. IndexNamesEvent'
    BY <2>1 DEF IInv, SentInv, IndexNamesEvent
  <2>3. InOrder'
    BY <2>1 DEF IInv, SentInv, InOrder
  <2>. QED  BY <2>2, <2>3
<1>7. OnlyDroppedMissed'
  <2>1. got' = got /\ from' = from /\ base' = base /\ cursor \in [Subscribers -> Nat] /\ base \in Nat
    BY DEF Resume, busVars, IInv, TypeOK
  <2>2. ASSUME NEW q \in Subscribers, NEW k \in from[q]..(cursor'[q] - 1)
        PROVE  k < base \/ \E i \in 1..Len(got[q]) : got[q][i].index = k
    <3>1. CASE k \in from[q]..(cursor[q] - 1)
      BY <3>1 DEF IInv, SentInv, OnlyDroppedMissed
    <3>2. CASE k \notin from[q]..(cursor[q] - 1)
      <4>1. from[q] \in Nat
        BY DEF IInv, TypeOK
      <4>2. q = s
        BY <3>2, <1>3
      <4>. QED  BY <4>1, <4>2, <1>3, <2>1
    <3>. QED  BY <3>1, <3>2
  <2>. QED  BY <2>1, <2>2 DEF OnlyDroppedMissed
<1>. QED  BY <1>1, <1>2, <1>4, <1>5, <1>6, <1>7 DEF IInv, SentInv

LEMMA DeliverPreserves ==
  ASSUME IInv, NEW s \in Subscribers, Deliver(s)
  PROVE  IInv'
<1>. DEFINE index == ReadIndex(s)
            event == history[index - base + 1]
            pair == [index |-> index, event |-> event]
<1>1. /\ index \in Nat /\ event \in Events /\ event.number = index + 1
      /\ index >= cursor[s] /\ (index = cursor[s] \/ index = base)
  BY ReadOps DEF Deliver
<1>2. /\ got' = [got EXCEPT ![s] = Append(@, pair)]
      /\ cursor' = [cursor EXCEPT ![s] = index + 1]
      /\ stream' = IF event.kind = "run_end" THEN [stream EXCEPT ![s] = "done"] ELSE stream
      /\ from' = from /\ dropped' = dropped /\ UNCHANGED busVars
      /\ stream[s] = "waiting"
  BY DEF Deliver, Awake
<1>3. pair \in Pairs /\ pair.index = index /\ pair.event = event
  BY <1>1 DEF Pairs
<1>. HIDE DEF index, event, pair
<1>4. /\ Len(got'[s]) = Len(got[s]) + 1 /\ Len(got[s]) \in Nat
      /\ got'[s][Len(got[s]) + 1] = pair
      /\ \A i \in 1..Len(got[s]) : got'[s][i] = got[s][i] /\ got[s][i] \in Pairs
      /\ \A q \in Subscribers \ {s} : got'[q] = got[q] /\ cursor'[q] = cursor[q]
      /\ cursor'[s] = index + 1
  BY <1>2, <1>3 DEF IInv, TypeOK
<1>others. \A q \in Subscribers : q # s => got'[q] = got[q] /\ cursor'[q] = cursor[q]
  BY <1>4
<1>5. TypeOK'
  <2>1. got' \in [Subscribers -> Seq(Pairs)]
    BY <1>2, <1>3 DEF IInv, TypeOK
  <2>2. cursor' \in [Subscribers -> Nat]
    BY <1>1, <1>2 DEF IInv, TypeOK
  <2>3. stream' \in [Subscribers -> {"none", "noticed", "waiting", "done"}]
    BY <1>2 DEF IInv, TypeOK
  <2>. QED  BY <1>2, <2>1, <2>2, <2>3 DEF IInv, TypeOK, busVars
<1>6. BusInv'
  BY <1>2, BusUnchanged
<1>7. NoticedIsBehind'
  BY <1>2, <1>4 DEF IInv, TypeOK, SentInv, NoticedIsBehind, busVars
<1>8. SentIsBehindCursor'
  <2>1. \A i \in 1..Len(got'[s]) : got'[s][i].index < cursor'[s]
    <3>1. ASSUME NEW i \in 1..Len(got[s]) PROVE got[s][i].index < index + 1
      BY <1>1, SentTyped DEF IInv, SentInv, SentIsBehindCursor
    <3>. QED  BY <3>1, <1>1, <1>3, <1>4
  <2>2. ASSUME NEW q \in Subscribers, q # s, NEW i \in 1..Len(got'[q])
        PROVE  got'[q][i].index < cursor'[q]
    BY <2>2, <1>others DEF IInv, SentInv, SentIsBehindCursor
  <2>. QED  BY <2>1, <2>2 DEF SentIsBehindCursor
<1>9. IndexNamesEvent'
  <2>1. \A i \in 1..Len(got'[s]) : got'[s][i].event.number = got'[s][i].index + 1
    <3>1. ASSUME NEW i \in 1..Len(got[s])
          PROVE  got'[s][i].event.number = got'[s][i].index + 1
      BY <1>4 DEF IInv, SentInv, IndexNamesEvent
    <3>2. pair.event.number = pair.index + 1
      BY <1>1, <1>3
    <3>. QED  BY <3>1, <3>2, <1>4
  <2>2. ASSUME NEW q \in Subscribers, q # s, NEW i \in 1..Len(got'[q])
        PROVE  got'[q][i].event.number = got'[q][i].index + 1
    BY <2>2, <1>others DEF IInv, SentInv, IndexNamesEvent
  <2>. QED  BY <2>1, <2>2 DEF IndexNamesEvent
<1>10. InOrder'
  <2>1. ASSUME NEW i \in 1..Len(got'[s]), NEW j \in 1..Len(got'[s]), i < j
        PROVE  got'[s][i].index < got'[s][j].index
    <3>1. CASE j \in 1..Len(got[s])
      <4>1. i \in 1..Len(got[s])
        BY <2>1, <3>1, <1>4
      <4>2. got[s][i].index < got[s][j].index
        BY <2>1, <3>1, <4>1 DEF IInv, SentInv, InOrder
      <4>3. got'[s][i] = got[s][i] /\ got'[s][j] = got[s][j]
        BY <3>1, <4>1, <1>4
      <4>. QED  BY <4>2, <4>3, Zenon
    <3>2. CASE j = Len(got[s]) + 1
      <4>1. got[s][i].index < cursor[s] /\ got[s][i].index \in Nat
        BY <2>1, <3>2, <1>4 DEF IInv, SentInv, SentIsBehindCursor, Pairs
      <4>2. got'[s][i] = got[s][i] /\ got'[s][j].index = index
        BY <2>1, <3>2, <1>3, <1>4
      <4>3. cursor[s] \in Nat
        BY DEF IInv, TypeOK
      <4>. QED  BY <4>1, <4>2, <4>3, <1>1
    <3>. QED  BY <3>1, <3>2, <1>4
  <2>2. ASSUME NEW q \in Subscribers, q # s,
               NEW i \in 1..Len(got'[q]), NEW j \in 1..Len(got'[q]), i < j
        PROVE  got'[q][i].index < got'[q][j].index
    BY <2>2, <1>others DEF IInv, SentInv, InOrder
  <2>. QED  BY <2>1, <2>2 DEF InOrder
<1>11. OnlyDroppedMissed'
  <2>1. ASSUME NEW k \in from[s]..index
        PROVE  k < base \/ \E i \in 1..Len(got'[s]) : got'[s][i].index = k
    <3>0. cursor[s] \in Nat /\ from[s] \in Nat /\ base \in Nat
      BY DEF IInv, TypeOK
    <3>1. CASE k = index
      BY <3>1, <1>3, <1>4
    <3>2. CASE k < cursor[s]
      BY <3>0, <3>2, <1>4 DEF IInv, SentInv, OnlyDroppedMissed
    <3>3. CASE k < index /\ k >= cursor[s]
      BY <3>0, <3>3, <1>1
    <3>. QED  BY <3>0, <3>1, <3>2, <3>3, <1>1
  <2>. QED  BY <2>1, <1>1, <1>2, <1>4 DEF IInv, SentInv, OnlyDroppedMissed, busVars
<1>. QED  BY <1>5, <1>6, <1>7, <1>8, <1>9, <1>10, <1>11 DEF IInv, SentInv

\* A subscriber ends where it is: the bus is closed and nothing is left.
LEMMA FinishOps ==
  ASSUME IInv, NEW s \in Subscribers, Finish(s)
  PROVE  closed /\ cursor'[s] = cursor[s] /\ cursor[s] >= LastIndex
<1>1. /\ cursor[s] \in Nat /\ base \in Nat /\ Len(history) \in Nat
      /\ MaxEvents \in Nat \ {0} /\ (base > 0 => Len(history) = MaxEvents)
  BY EventBusAssumption DEF IInv, TypeOK, BusInv, HistoryIsNewest
<1>2. cursor'[s] = ReadIndex(s) /\ ReadIndex(s) >= LastIndex /\ (LastIndex > cursor[s] \/ closed)
  BY DEF Finish, Awake, IInv, TypeOK
<1>3. ReadIndex(s) = cursor[s] /\ cursor[s] >= LastIndex
  BY <1>1, <1>2 DEF ReadIndex, Larger, LastIndex
<1>. QED  BY <1>1, <1>2, <1>3 DEF LastIndex

LEMMA FinishPreserves ==
  ASSUME IInv, NEW s \in Subscribers, Finish(s)
  PROVE  IInv'
<1>1. cursor' = cursor
  <2>1. cursor'[s] = cursor[s]
    BY FinishOps
  <2>. QED  BY <2>1 DEF Finish, IInv, TypeOK
<1>2. TypeOK'
  BY <1>1 DEF IInv, Finish, TypeOK, busVars
<1>3. BusInv'
  BY BusUnchanged DEF Finish
<1>4. SentInv'
  <2>1. got' = got /\ from' = from /\ base' = base
    BY DEF Finish, busVars
  <2>2. NoticedIsBehind'
    BY <1>1, <2>1 DEF Finish, IInv, TypeOK, SentInv, NoticedIsBehind
  <2>3. SentIsBehindCursor' /\ IndexNamesEvent' /\ InOrder'
    BY <1>1, <2>1, SentUnchanged DEF IInv
  <2>4. OnlyDroppedMissed'
    BY <1>1, <2>1 DEF IInv, SentInv, OnlyDroppedMissed
  <2>. QED  BY <2>2, <2>3, <2>4 DEF SentInv
<1>. QED  BY <1>2, <1>3, <1>4 DEF IInv

LEMMA DetachPreserves ==
  ASSUME IInv, NEW s \in Subscribers, Detach(s)
  PROVE  IInv'
<1>1. TypeOK'
  BY DEF IInv, Detach, TypeOK, busVars
<1>2. BusInv'
  BY BusUnchanged DEF Detach
<1>3. SentInv'
  <2>1. cursor' = cursor /\ got' = got /\ from' = from /\ base' = base
    BY DEF Detach, busVars
  <2>2. NoticedIsBehind'
    BY <2>1 DEF Detach, IInv, TypeOK, SentInv, NoticedIsBehind
  <2>3. SentIsBehindCursor' /\ IndexNamesEvent' /\ InOrder'
    BY <2>1, SentUnchanged DEF IInv
  <2>4. OnlyDroppedMissed'
    BY <2>1 DEF IInv, SentInv, OnlyDroppedMissed
  <2>. QED  BY <2>2, <2>3, <2>4 DEF SentInv
<1>. QED  BY <1>1, <1>2, <1>3 DEF IInv

LEMMA NextIInv ==
  ASSUME IInv, [Next]_vars
  PROVE  IInv'
<1>1. CASE UNCHANGED vars
  <2>1. UNCHANGED <<busVars, stream, cursor, from, dropped, got>>
    BY <1>1 DEF vars, readerVars
  <2>2. TypeOK' /\ BusInv'
    BY <2>1, BusUnchanged DEF IInv, TypeOK, busVars
  <2>3. SentIsBehindCursor' /\ IndexNamesEvent' /\ InOrder'
    BY <2>1, SentUnchanged DEF IInv
  <2>4. NoticedIsBehind' /\ OnlyDroppedMissed'
    BY <2>1 DEF IInv, SentInv, NoticedIsBehind, OnlyDroppedMissed, busVars
  <2>. QED  BY <2>2, <2>3, <2>4 DEF IInv, SentInv
<1>2. ASSUME NEW kind \in Kinds \cup {"run_end"}, Publish(kind) PROVE IInv'
  <2>1. closed' \in BOOLEAN
    BY <1>2 DEF Publish, IInv, TypeOK
  <2>. QED  BY <1>2, <2>1, PublishPreserves DEF Publish
<1>3. CASE Close
  BY <1>3, ClosePreserves
<1>4. ASSUME NEW s \in Subscribers, NEW f \in 0..MaxFrom, Attach(s, f) PROVE IInv'
  <2>1. f \in Nat
    BY EventBusAssumption
  <2>. QED  BY <2>1, <1>4, AttachPreserves
<1>5. ASSUME NEW s \in Subscribers, Serve(s) \/ Detach(s) PROVE IInv'
  BY <1>5, ResumePreserves, DeliverPreserves, FinishPreserves, DetachPreserves DEF Serve
<1>. QED  BY <1>1, <1>2, <1>3, <1>4, <1>5 DEF Next

-----------------------------------------------------------------------------
(* Theorems                                                                *)

\* The invariant holds throughout: types, and every conjunct below.
THEOREM InductiveInvariant == Spec => []IInv
BY InitIInv, NextIInv, PTL DEF Spec

\* Type correctness: among others, only forwarded kinds are ever in the history.
THEOREM TypeCorrect == Spec => []TypeOK
BY InductiveInvariant, PTL DEF IInv

\* The history is the newest events, numbered from the base index.
THEOREM HistorySound == Spec => []HistoryIsNewest
<1>1. IInv => HistoryIsNewest
  BY DEF IInv, BusInv
<1>. QED  BY <1>1, InductiveInvariant, PTL

\* Every subscriber is given the same event under the same index.
THEOREM IndexSound == Spec => []IndexNamesEvent
<1>1. IInv => IndexNamesEvent
  BY DEF IInv, SentInv
<1>. QED  BY <1>1, InductiveInvariant, PTL

\* Within a connection no event comes twice or out of order.
THEOREM OrderSound == Spec => []InOrder
<1>1. IInv => InOrder
  BY DEF IInv, SentInv
<1>. QED  BY <1>1, InductiveInvariant, PTL

\* A connection misses only what the capacity of the history has dropped.
THEOREM NothingElseMissed == Spec => []OnlyDroppedMissed
<1>1. IInv => OnlyDroppedMissed
  BY DEF IInv, SentInv
<1>. QED  BY <1>1, InductiveInvariant, PTL

-----------------------------------------------------------------------------
(* Refinement                                                              *)

\* What has been dropped is what the log need not keep.
LEMMA BaseIsOldest ==
  ASSUME IInv
  PROVE  /\ LastIndex \in Nat /\ base <= Log!Oldest /\ Log!Oldest \in Nat
         /\ base \in Nat /\ Log!Oldest <= LastIndex
BY EventBusAssumption DEF IInv, TypeOK, BusInv, HistoryIsNewest, LastIndex, Log!Oldest

LEMMA InitLog == Init => Log!LogInit
BY DEF Init, Log!LogInit, LastIndex, stage

LEMMA AttachLog ==
  ASSUME IInv, NEW s \in Subscribers, NEW f \in Nat, Attach(s, f)
  PROVE  Log!LogOpen(s)
<1>1. stage[s] = "away" /\ stage' = [stage EXCEPT ![s] = "open"]
  BY DEF Attach, stage, IInv, TypeOK
<1>2. cursor'[s] \in Nat /\ cursor' = [cursor EXCEPT ![s] = cursor'[s]]
  BY DEF Attach, IInv, TypeOK, Larger
<1>3. UNCHANGED <<LastIndex, ended \/ closed>>
  BY DEF Attach, busVars, LastIndex
<1>. QED  BY <1>1, <1>2, <1>3 DEF Log!LogOpen

LEMMA ResumeLog ==
  ASSUME IInv, NEW s \in Subscribers, Resume(s)
  PROVE  Log!LogSkip(s) \/ UNCHANGED Log!logVars
<1>1. stage[s] = "open" /\ stage' = stage /\ UNCHANGED <<LastIndex, ended \/ closed>>
  BY DEF Resume, stage, IInv, TypeOK, busVars, LastIndex
<1>2. cursor' = [cursor EXCEPT ![s] = base] /\ cursor[s] <= base /\ cursor[s] \in Nat
  BY DEF Resume, IInv, TypeOK, SentInv, NoticedIsBehind
<1>3. CASE cursor[s] = base
  <2>1. cursor' = cursor
    BY <1>2, <1>3 DEF IInv, TypeOK
  <2>. QED  BY <2>1, <1>1 DEF Log!logVars
<1>4. CASE cursor[s] < base
  <2>1. base \in 0..Log!Oldest
    BY BaseIsOldest
  <2>. QED  BY <2>1, <1>1, <1>2, <1>4 DEF Log!LogSkip
<1>. QED  BY <1>2, <1>3, <1>4, BaseIsOldest

LEMMA DeliverLog ==
  ASSUME IInv, NEW s \in Subscribers, Deliver(s)
  PROVE  Log!LogRead(s) \/ Log!LogReadLast(s)
<1>. DEFINE index == ReadIndex(s)
            kind == history[index - base + 1].kind
<1>1. /\ index \in Nat /\ index < LastIndex /\ LastIndex \in Nat
      /\ index = cursor[s] \/ (cursor[s] < index /\ index <= Log!Oldest)
  <2>1. index \in Nat /\ index < LastIndex /\ index >= cursor[s] /\ (index = cursor[s] \/ index = base)
    BY ReadOps DEF Deliver
  <2>2. cursor[s] \in Nat
    BY DEF IInv, TypeOK
  <2>. QED  BY <2>1, <2>2, BaseIsOldest
<1>2. /\ stage[s] = "open"
      /\ cursor' = [cursor EXCEPT ![s] = index + 1]
      /\ UNCHANGED <<LastIndex, ended \/ closed>>
  BY DEF Deliver, Awake, stage, busVars, LastIndex
<1>3. CASE kind = "run_end"
  <2>1. ended /\ index = LastIndex - 1
    <3>1. index - base + 1 \in 1..Len(history)
      BY ReadOps DEF Deliver
    <3>2. ended /\ index - base + 1 = Len(history)
      BY <1>3, <3>1 DEF IInv, BusInv, RunEndIsLast
    <3>3. Len(history) \in Nat /\ base \in Nat /\ LastIndex = base + Len(history)
      BY DEF LastIndex, IInv, TypeOK
    <3>. HIDE DEF index
    <3>. QED  BY <3>2, <3>3, <1>1
  <2>2. stage' = [stage EXCEPT ![s] = "ended"]
    BY <1>3 DEF Deliver, stage, IInv, TypeOK
  <2>. QED  BY <1>1, <1>2, <2>1, <2>2 DEF Log!LogReadLast
<1>4. CASE kind # "run_end"
  <2>1. stage' = stage
    BY <1>4 DEF Deliver, stage
  <2>2. index \in 0..(LastIndex - 1)
    BY <1>1
  <2>. QED  BY <1>1, <1>2, <2>1, <2>2 DEF Log!LogRead
<1>. QED  BY <1>3, <1>4

LEMMA FinishLog ==
  ASSUME IInv, NEW s \in Subscribers, Finish(s)
  PROVE  Log!LogEnd(s)
<1>1. closed /\ cursor[s] >= LastIndex /\ cursor' = cursor
  <2>1. closed /\ cursor[s] >= LastIndex /\ cursor'[s] = cursor[s]
    BY FinishOps
  <2>. QED  BY <2>1 DEF Finish, IInv, TypeOK
<1>2. stage[s] = "open" /\ stage' = [stage EXCEPT ![s] = "ended"]
  BY DEF Finish, Awake, stage, IInv, TypeOK
<1>. QED  BY <1>1, <1>2 DEF Log!LogEnd, Finish, busVars, LastIndex

\* Every step of the bus is a step of the log, or none.
LEMMA NextLog ==
  ASSUME IInv, [Next]_vars
  PROVE  [Log!LogNext]_(Log!logVars)
<1>1. CASE UNCHANGED vars
  BY <1>1 DEF vars, busVars, readerVars, Log!logVars, LastIndex, stage
<1>2. ASSUME NEW kind \in Kinds \cup {"run_end"}, Publish(kind) PROVE Log!LogAppend
  <2>1. LastIndex' = LastIndex + 1
    <3>1. [number |-> LastIndex + 1, kind |-> kind] \in Events
      BY <1>2, BaseIsOldest, EventBusAssumption DEF Publish, Carried, Events
    <3>2. PublishEvent([number |-> LastIndex + 1, kind |-> kind])
      BY <1>2 DEF Publish
    <3>. QED  BY <3>1, <3>2, PublishOps DEF IInv, BusInv
  <2>. QED  BY <1>2, <2>1 DEF Publish, Log!LogAppend, readerVars, stage
<1>3. CASE Close
  <2>1. closed' = TRUE /\ UNCHANGED <<LastIndex, stage, cursor>>
    BY <1>3 DEF Close, readerVars, stage, LastIndex
  <2>2. (ended \/ closed)' = TRUE
    BY <2>1, Zenon
  <2>3. Log!LogSeal
    BY <2>1, <2>2 DEF Log!LogSeal
  <2>. QED  BY <2>3 DEF Log!LogNext
<1>4. ASSUME NEW s \in Subscribers, NEW f \in 0..MaxFrom, Attach(s, f) PROVE Log!LogOpen(s)
  <2>1. f \in Nat
    BY EventBusAssumption
  <2>. QED  BY <2>1, <1>4, AttachLog
<1>5. ASSUME NEW s \in Subscribers, Serve(s) PROVE [Log!LogNext]_(Log!logVars)
  BY <1>5, ResumeLog, DeliverLog, FinishLog DEF Serve, Log!LogNext
<1>6. ASSUME NEW s \in Subscribers, Detach(s) PROVE Log!LogLeave(s)
  BY <1>6 DEF Detach, Log!LogLeave, stage, busVars, LastIndex, IInv, TypeOK
<1>. QED  BY <1>1, <1>2, <1>3, <1>4, <1>5, <1>6 DEF Next, Log!LogNext

\* The bus, its buffer and its truncation included, implements the log.
THEOREM BusImplementsLog == Spec => ImplementsLog
BY InductiveInvariant, InitLog, NextLog, PTL DEF Spec, ImplementsLog, Log!LogSpec
-----------------------------------------------------------------------------
(* The client                                                              *)

\* A view shows every event up to the n-th, but for the b oldest.
Covered(n, seen, b) == \A k \in 1..n : k \in Range(seen) \/ k <= b

\* A stream is open for the client exactly if it has a response that is served.
OpenIsServed == \A s \in Subscribers : link[s] = "open" <=> stream[s] # "none"

\* What the client has read of a response is in the view.
ReadIsShown ==
  \A s \in Subscribers :
    /\ read[s] <= Len(got[s])
    /\ \A i \in 1..read[s] : got[s][i].event.number \in Range(view)

\* A response starts unread, and nothing is asked before the run is sent.
StartsUnread ==
  /\ run = "unsent" => /\ retry = 0 /\ ~answer
                       /\ \A s \in Subscribers : link[s] = "free" /\ read[s] = 0
  /\ \A s \in Subscribers : link[s] = "requested" => read[s] = 0

\* No cursor that the client asks from, or may come to ask from, is ahead of
\* what it has shown.
CursorsCovered ==
  /\ Covered(cursorRef, view, base)
  /\ \A s \in Subscribers : /\ Covered(lastId[s], view, base)
                             /\ Covered(request[s], view, base)
                             /\ Covered(from[s], view, base)
                             /\ dropped[s] <= base

\* A run that can still end has room for its last event.
RoomForTheEnd == run \in {"suspended", "finishing"} => ~ended /\ LastIndex < MaxPublished

\* Nobody leaves the session, so its runs are not loaded over the view.
Stays == switches = 0 /\ ~load /\ (~hasRun => view = <<>>)

ClientInv == /\ OpenIsServed
             /\ ReadIsShown
             /\ StartsUnread
             /\ CursorsCovered
             /\ RoomForTheEnd
             /\ Stays
             /\ NoGap
StreamInv == IInv /\ ClientTypeOK /\ ClientInv

-----------------------------------------------------------------------------
(* What the view covers                                                    *)

LEMMA CoveredGrows ==
  ASSUME NEW n \in Nat, NEW v, NEW w, NEW b \in Nat, NEW c \in Nat,
         Covered(n, v, b), Range(v) \subseteq Range(w), b <= c
  PROVE  Covered(n, w, c)
BY DEF Covered

LEMMA CoveredDropped ==
  ASSUME NEW n \in Nat, NEW v, NEW b \in Nat, n <= b
  PROVE  Covered(n, v, b)
BY DEF Covered

LEMMA AppendRange ==
  ASSUME NEW S, NEW v \in Seq(S), NEW x \in S
  PROVE  /\ Append(v, x) \in Seq(S)
         /\ Range(Append(v, x)) = Range(v) \cup {x}
<1>1. /\ Append(v, x) \in Seq(S) /\ Len(Append(v, x)) = Len(v) + 1 /\ Len(v) \in Nat
      /\ Append(v, x)[Len(v) + 1] = x
      /\ \A i \in 1..Len(v) : Append(v, x)[i] = v[i]
      /\ DOMAIN v = 1..Len(v) /\ DOMAIN Append(v, x) = 1..(Len(v) + 1)
  OBVIOUS
<1>2. 1..(Len(v) + 1) = (1..Len(v)) \cup {Len(v) + 1}
  BY <1>1
<1>. QED  BY <1>1, <1>2 DEF Range

LEMMA NoGapStays ==
  ASSUME StreamInv, view' = view, base' \in Nat, base <= base'
  PROVE  NoGap'
<1>1. base \in Nat /\ view \in Seq(1..MaxPublished) /\ MaxPublished \in Nat
  BY EventBusAssumption DEF StreamInv, IInv, TypeOK, ClientTypeOK
<1>2. ASSUME NEW i \in 1..Len(view), NEW n \in 1..view[i]
      PROVE  n \in Range(view) \/ n <= base'
  BY <1>1 DEF StreamInv, ClientInv, NoGap
<1>. QED  BY <1>2 DEF NoGap

LEMMA ReadStays ==
  ASSUME StreamInv, view' = view, UNCHANGED <<got, read>>
  PROVE  ReadIsShown'
BY DEF StreamInv, ClientInv, ReadIsShown

LEMMA CursorsStay ==
  ASSUME StreamInv,
         Range(view) \subseteq Range(view'), base' \in Nat, base <= base',
         cursorRef' \in Nat, Covered(cursorRef', view, base),
         \A s \in Subscribers : lastId'[s] \in Nat /\ Covered(lastId'[s], view, base),
         \A s \in Subscribers : request'[s] \in Nat /\ Covered(request'[s], view, base),
         \A s \in Subscribers : from'[s] \in Nat /\ Covered(from'[s], view, base),
         \A s \in Subscribers : dropped'[s] \in Nat /\ dropped'[s] <= base
  PROVE  CursorsCovered'
<1>1. base \in Nat
  BY DEF StreamInv, IInv, TypeOK
<1>2. \A n \in Nat : Covered(n, view, base) => Covered(n, view', base')
  BY <1>1, CoveredGrows
<1>3. \A s \in Subscribers : dropped'[s] <= base'
  BY <1>1
<1>. QED  BY <1>2, <1>3 DEF CursorsCovered

\* The cursors as they are.
LEMMA CursorsAre ==
  ASSUME StreamInv
  PROVE  /\ base \in Nat
         /\ cursorRef \in Nat /\ Covered(cursorRef, view, base)
         /\ \A s \in Subscribers : lastId[s] \in Nat /\ Covered(lastId[s], view, base)
         /\ \A s \in Subscribers : request[s] \in Nat /\ Covered(request[s], view, base)
         /\ \A s \in Subscribers : from[s] \in Nat /\ Covered(from[s], view, base)
         /\ \A s \in Subscribers : dropped[s] \in Nat /\ dropped[s] <= base
         /\ Covered(0, view, base)
<1>1. base \in Nat /\ cursorRef \in Nat
  BY DEF StreamInv, IInv, TypeOK, ClientTypeOK
<1>2. ASSUME NEW s \in Subscribers
      PROVE  lastId[s] \in Nat /\ request[s] \in Nat /\ from[s] \in Nat /\ dropped[s] \in Nat
  BY DEF StreamInv, IInv, TypeOK, ClientTypeOK
<1>3. Covered(0, view, base)
  BY <1>1, CoveredDropped
<1>. QED  BY <1>1, <1>2, <1>3 DEF StreamInv, ClientInv, CursorsCovered

\* A step that leaves the client's view and cursors alone, as most do.
LEMMA ShownStays ==
  ASSUME StreamInv, base' \in Nat, base <= base',
         UNCHANGED <<view, read, got, cursorRef, lastId, request, from, dropped>>
  PROVE  NoGap' /\ ReadIsShown' /\ CursorsCovered'
<1>1. NoGap' /\ ReadIsShown'
  BY NoGapStays, ReadStays
<1>2. /\ cursorRef' = cursorRef /\ lastId' = lastId /\ request' = request
      /\ from' = from /\ dropped' = dropped /\ view' = view
  OBVIOUS
<1>3. CursorsCovered'
  BY <1>2, CursorsAre, CursorsStay
<1>. QED  BY <1>1, <1>3

-----------------------------------------------------------------------------
(* The steps of the run and of the server                                  *)

\* An event of any kind is published, the last one or another.
LEMMA PublishKeeps ==
  ASSUME StreamInv, NEW kind \in Kinds \cup {"run_end"}, Carried(kind),
         ~ended, LastIndex < MaxPublished,
         PublishEvent([number |-> LastIndex + 1, kind |-> kind]),
         ended' = (kind = "run_end"), closed' \in BOOLEAN, UNCHANGED readerVars
  PROVE  /\ IInv' /\ base' \in Nat /\ base <= base'
         /\ LastIndex' = LastIndex + 1 /\ LastIndex \in Nat
<1>1. IInv'
  BY PublishPreserves DEF StreamInv
<1>2. LastIndex \in Nat /\ MaxPublished \in Nat /\ base \in Nat /\ TypeOK /\ HistoryIsNewest
  BY EventBusAssumption DEF StreamInv, IInv, BusInv, TypeOK, LastIndex
<1>3. [number |-> LastIndex + 1, kind |-> kind] \in Events
  BY <1>2 DEF Events, Carried
<1>4. base' \in {base, base + 1} /\ LastIndex' = LastIndex + 1
  BY <1>2, <1>3, PublishOps
<1>. QED  BY <1>1, <1>2, <1>4

LEMMA EmitPreserves == ASSUME StreamInv, Emit PROVE StreamInv'
<1>1. /\ run = "going"
      /\ \/ Room(2) /\ Publish("delta") /\ run' = run
         \/ Room(2) /\ Publish("suspend") /\ run' = "suspended"
         \/ \E kind \in {"metadata", "error"} :
              Room(1) /\ Publish(kind) /\ run' = "finishing"
      /\ UNCHANGED <<clientVars, cancel>>
  BY DEF Emit
<1>2. PICK kind \in {"delta", "suspend", "metadata", "error"} :
        /\ Publish(kind) /\ Room(1)
        /\ run' \in {"going", "suspended", "finishing"}
  <2>1. Room(2) => Room(1)
    BY EventBusAssumption DEF Room, LastIndex, StreamInv, IInv, TypeOK
  <2>. QED  BY <1>1, <2>1
<1>3. kind \in Kinds /\ kind # "run_end"
  BY ClientAssumption
<1>4. /\ IInv' /\ base' \in Nat /\ base <= base'
      /\ LastIndex' = LastIndex + 1 /\ LastIndex \in Nat /\ ~ended' /\ UNCHANGED readerVars
  <2>1. /\ Carried(kind) /\ ~ended /\ LastIndex < MaxPublished
        /\ PublishEvent([number |-> LastIndex + 1, kind |-> kind])
        /\ ended' = (kind = "run_end") /\ closed' \in BOOLEAN /\ UNCHANGED readerVars
    BY <1>2 DEF Publish, StreamInv, IInv, TypeOK
  <2>2. kind \in Kinds \cup {"run_end"}
    BY <1>3
  <2>3. ended' = FALSE
    BY <2>1, <1>3
  <2>. QED  BY <2>1, <2>2, <2>3, PublishKeeps
<1>5. UNCHANGED <<streamState, refs, pendings, shown, bounds, cancel>>
  BY <1>1 DEF clientVars
<1>6. ClientTypeOK'
  BY <1>2, <1>4, <1>5 DEF StreamInv, IInv, ClientTypeOK, streamState, refs, pendings, shown, bounds
<1>7. NoGap' /\ ReadIsShown' /\ CursorsCovered'
  BY <1>4, <1>5, ShownStays DEF streamState, refs, shown, readerVars
<1>8. OpenIsServed' /\ StartsUnread' /\ Stays'
  BY <1>2, <1>4, <1>5 DEF StreamInv, ClientInv, OpenIsServed, StartsUnread, Stays,
     streamState, shown, pendings, bounds, readerVars
<1>9. RoomForTheEnd'
  <2>1. LastIndex + 1 < MaxPublished
    BY <1>2 DEF Room
  <2>. QED  BY <1>4, <2>1 DEF RoomForTheEnd
<1>. QED  BY <1>4, <1>6, <1>7, <1>8, <1>9 DEF StreamInv, ClientInv

\* The run's last event, with which the bus is closed.
LEMMA PublishLastPreserves ==
  ASSUME StreamInv, run \in {"suspended", "finishing"},
         NEW kind \in {"run_end", "takeover_cancelled"}, PublishLast(kind),
         loading' \in BOOLEAN, cancel' \in {"no", "sent"},
         UNCHANGED <<streamState, refs, pendings, hasRun, view, bounds>>
  PROVE  StreamInv'
<1>1. kind \in Kinds \cup {"run_end"} /\ Carried(kind)
  BY ClientAssumption DEF Carried
<1>2. ~ended /\ LastIndex < MaxPublished
  BY DEF StreamInv, ClientInv, RoomForTheEnd
<1>3. /\ PublishEvent([number |-> LastIndex + 1, kind |-> kind])
      /\ ended' = (kind = "run_end") /\ closed' \in BOOLEAN /\ UNCHANGED readerVars
      /\ run' = "over"
  BY DEF PublishLast, readerVars
<1>4. IInv' /\ base' \in Nat /\ base <= base'
  BY <1>1, <1>2, <1>3, PublishKeeps
<1>5. ClientTypeOK'
  BY <1>3, <1>4 DEF StreamInv, IInv, ClientTypeOK, streamState, refs, pendings, bounds
<1>6. NoGap' /\ ReadIsShown' /\ CursorsCovered'
  BY <1>3, <1>4, ShownStays DEF streamState, refs, readerVars
<1>7. OpenIsServed' /\ StartsUnread' /\ Stays' /\ RoomForTheEnd'
  BY <1>3 DEF StreamInv, ClientInv, OpenIsServed, StartsUnread, Stays, RoomForTheEnd,
     streamState, pendings, bounds, readerVars
<1>. QED  BY <1>4, <1>5, <1>6, <1>7 DEF StreamInv, ClientInv

\* A step of the client alone that moves none of its views or cursors.
LEMMA QuietPreserves ==
  ASSUME StreamInv, run' = run \/ run' = "going", ClientTypeOK',
         run' = "unsent" => UNCHANGED <<retry, answer>>,
         UNCHANGED <<vars, link, read, lastId, request, cursorRef, view, hasRun,
                     load, switches>>
  PROVE  StreamInv'
<1>1. /\ history' = history /\ base' = base /\ closed' = closed /\ ended' = ended
      /\ stream' = stream /\ cursor' = cursor /\ from' = from /\ dropped' = dropped /\ got' = got
  BY DEF vars, busVars, readerVars
<1>2. IInv'
  <2>1. [Next]_vars
    OBVIOUS
  <2>. QED  BY <2>1, NextIInv DEF StreamInv
<1>3. NoGap' /\ ReadIsShown' /\ CursorsCovered'
  <2>1. base' \in Nat /\ base <= base'
    BY <1>1 DEF StreamInv, IInv, TypeOK
  <2>. QED  BY <1>1, <2>1, ShownStays
<1>4. OpenIsServed' /\ StartsUnread'
  BY <1>1 DEF StreamInv, ClientInv, OpenIsServed, StartsUnread
<1>5. RoomForTheEnd'
  BY <1>1 DEF StreamInv, ClientInv, RoomForTheEnd, LastIndex
<1>6. Stays'
  BY DEF StreamInv, ClientInv, Stays
<1>. QED  BY <1>2, <1>3, <1>4, <1>5, <1>6 DEF StreamInv, ClientInv

LEMMA ServePreserves ==
  ASSUME StreamInv, NEW s \in Subscribers, ServeStream(s)
  PROVE  StreamInv'
<1>1. Serve(s) /\ UNCHANGED <<run, streamState, refs, pendings, shown, bounds, cancel>>
  BY DEF ServeStream, clientVars
<1>2. IInv'
  BY <1>1, ResumePreserves, DeliverPreserves, FinishPreserves DEF Serve, StreamInv
<1>3. /\ UNCHANGED <<from, dropped, history, base, closed, ended>>
      /\ stream[s] # "none" /\ stream'[s] # "none"
      /\ \A q \in Subscribers \ {s} : stream'[q] = stream[q]
  BY <1>1 DEF Serve, Resume, Deliver, Finish, Awake, busVars, StreamInv, IInv, TypeOK
<1>4. /\ \A q \in Subscribers : Len(got'[q]) >= Len(got[q])
      /\ \A q \in Subscribers : \A i \in 1..Len(got[q]) : got'[q][i] = got[q][i]
      /\ \A q \in Subscribers : Len(got[q]) \in Nat /\ Len(got'[q]) \in Nat
  <2>1. CASE got' = got
    BY <2>1 DEF StreamInv, IInv, TypeOK
  <2>2. CASE Deliver(s)
    <3>1. PICK pair : got' = [got EXCEPT ![s] = Append(@, pair)]
      BY <2>2 DEF Deliver
    <3>2. \A q \in Subscribers : got[q] \in Seq(Pairs) /\ got'[q] \in Seq(Pairs)
      BY <1>2 DEF StreamInv, IInv, TypeOK
    <3>3. ASSUME NEW q \in Subscribers
          PROVE  /\ got'[q] = got[q] \/ got'[q] = Append(got[q], pair)
      BY <3>1 DEF StreamInv, IInv, TypeOK
    <3>. QED  BY <3>2, <3>3
  <2>. QED  BY <1>1, <2>1, <2>2 DEF Serve, Resume, Finish
<1>5. ClientTypeOK'
  BY <1>1, <1>2 DEF StreamInv, IInv, ClientTypeOK, streamState, refs, pendings, shown, bounds
<1>6. base' \in Nat /\ base <= base'
  BY <1>3 DEF StreamInv, IInv, TypeOK
<1>7. NoGap' /\ CursorsCovered'
  <2>1. /\ view' = view /\ cursorRef' = cursorRef /\ lastId' = lastId /\ request' = request
        /\ from' = from /\ dropped' = dropped
    BY <1>1, <1>3 DEF streamState, refs, shown
  <2>. QED  BY <2>1, <1>6, NoGapStays, CursorsAre, CursorsStay
<1>8. ReadIsShown'
  <2>1. read' = read /\ view' = view
    BY <1>1 DEF streamState, shown
  <2>2. ASSUME NEW q \in Subscribers
        PROVE  /\ read[q] <= Len(got'[q])
               /\ \A i \in 1..read[q] : got'[q][i].event.number \in Range(view)
    <3>1. /\ read[q] \in Nat /\ read[q] <= Len(got[q])
          /\ \A i \in 1..read[q] : got[q][i].event.number \in Range(view)
      BY DEF StreamInv, ClientInv, ReadIsShown, ClientTypeOK
    <3>2. \A i \in 1..read[q] : i \in 1..Len(got[q])
      BY <3>1, <1>4
    <3>. QED  BY <3>1, <3>2, <1>4
  <2>. QED  BY <2>1, <2>2 DEF ReadIsShown
<1>9. OpenIsServed'
  BY <1>1, <1>3 DEF StreamInv, ClientInv, OpenIsServed, streamState
<1>10. StartsUnread' /\ Stays' /\ RoomForTheEnd'
  BY <1>1, <1>3 DEF StreamInv, ClientInv, StartsUnread, Stays, RoomForTheEnd, LastIndex,
     streamState, pendings, shown, bounds
<1>. QED  BY <1>2, <1>5, <1>7, <1>8, <1>9, <1>10 DEF StreamInv, ClientInv

\* A connection is lost or over, or the client lets go of it.
LEMMA DetachKeeps ==
  ASSUME StreamInv, NEW s \in Subscribers, link[s] = "open", Detach(s), ClientTypeOK',
         link' = [link EXCEPT ![s] = "free"],
         Covered(cursorRef', view, base),
         UNCHANGED <<run, read, lastId, request, view, hasRun, load, switches>>
  PROVE  StreamInv'
<1>1. IInv'
  BY DetachPreserves DEF StreamInv
<1>2. /\ UNCHANGED <<got, from, dropped, history, base, closed, ended>>
      /\ stream' = [stream EXCEPT ![s] = "none"]
  BY DEF Detach, busVars
<1>3. base' \in Nat /\ base <= base' /\ cursorRef' \in Nat
  BY <1>2 DEF StreamInv, IInv, TypeOK, ClientTypeOK
<1>4. NoGap' /\ ReadIsShown'
  BY <1>2, <1>3, NoGapStays, ReadStays
<1>5. CursorsCovered'
  <2>1. view' = view /\ lastId' = lastId /\ request' = request /\ from' = from /\ dropped' = dropped
    BY <1>2
  <2>. QED  BY <2>1, <1>3, CursorsAre, CursorsStay
<1>6. OpenIsServed'
  <2>1. link'[s] = "free" /\ stream'[s] = "none"
    BY <1>2 DEF StreamInv, IInv, TypeOK, ClientTypeOK
  <2>2. \A q \in Subscribers : q # s => link'[q] = link[q] /\ stream'[q] = stream[q]
    BY <1>2 DEF StreamInv, IInv, TypeOK, ClientTypeOK
  <2>. QED  BY <2>1, <2>2 DEF StreamInv, ClientInv, OpenIsServed
<1>7. StartsUnread'
  BY DEF StreamInv, ClientInv, StartsUnread, ClientTypeOK
<1>8. Stays' /\ RoomForTheEnd'
  BY <1>2 DEF StreamInv, ClientInv, Stays, RoomForTheEnd, LastIndex
<1>. QED  BY <1>1, <1>4, <1>5, <1>6, <1>7, <1>8 DEF StreamInv, ClientInv

LEMMA EndedPreserves ==
  ASSUME StreamInv, NEW s \in Subscribers, Ended(s), switches' = switches, cuts' \in 0..MaxCuts
  PROVE  StreamInv'
<1>1. /\ link[s] = "open" /\ Detach(s) /\ link' = [link EXCEPT ![s] = "free"]
      /\ UNCHANGED <<run, request, read, lastId, done, current, attached, answer, load,
                     hasRun, view, cancel>>
      /\ IF done[s] THEN UNCHANGED <<cursorRef, attempts, loading, retry>> ELSE Detached(s)
  BY DEF Ended
<1>2. lastId[s] \in Nat /\ Covered(lastId[s], view, base) /\ Covered(cursorRef, view, base)
  BY CursorsAre
<1>3. /\ cursorRef' \in {cursorRef, lastId[s]}
      /\ attempts' \in 0..MaxReattach /\ retry' \in Nat /\ loading' \in BOOLEAN
  <2>1. attempts \in 0..MaxReattach /\ MaxReattach \in Nat /\ retry \in Nat /\ loading \in BOOLEAN
    BY ClientAssumption DEF StreamInv, ClientTypeOK
  <2>2. CASE done[s] \/ attempts >= MaxReattach
    BY <1>1, <2>1, <2>2 DEF Detached
  <2>3. CASE ~done[s] /\ ~(attempts >= MaxReattach)
    <3>1. /\ cursorRef' = lastId[s] /\ attempts' = attempts + 1
          /\ retry' = retry + 1 /\ loading' = loading
      BY <1>1, <2>3 DEF Detached
    <3>2. attempts + 1 \in 0..MaxReattach /\ retry + 1 \in Nat
      BY <2>1, <2>3
    <3>. QED  BY <2>1, <3>1, <3>2
  <2>. QED  BY <2>2, <2>3
<1>4. ClientTypeOK'
  <2>1. TypeOK'
    BY <1>1, DetachPreserves DEF StreamInv, IInv
  <2>2. /\ run \in {"unsent", "going", "suspended", "finishing", "over"}
        /\ link' \in [Subscribers -> {"free", "requested", "open"}]
        /\ cursorRef' \in Nat
    BY <1>1, <1>2, <1>3 DEF StreamInv, ClientTypeOK
  <2>. QED  BY <1>1, <1>3, <2>1, <2>2 DEF StreamInv, ClientTypeOK
<1>5. Covered(cursorRef', view, base)
  BY <1>2, <1>3
<1>. QED  BY <1>1, <1>4, <1>5, DetachKeeps

LEMMA FailsPreserves ==
  ASSUME StreamInv, NEW s \in Subscribers, Fails(s)
  PROVE  StreamInv'
<1>1. /\ link[s] = "open" /\ Detach(s) /\ link' = [link EXCEPT ![s] = "free"]
      /\ cuts < MaxCuts /\ cuts' = cuts + 1 /\ loading' = FALSE
      /\ UNCHANGED <<run, request, read, lastId, done, current, refs, pendings, hasRun, view,
                     cancel, switches>>
  BY DEF Fails
<1>2. ClientTypeOK'
  <2>1. TypeOK'
    BY <1>1, DetachPreserves DEF StreamInv, IInv
  <2>2. cuts' \in 0..MaxCuts /\ link' \in [Subscribers -> {"free", "requested", "open"}]
    BY <1>1, ClientAssumption DEF StreamInv, ClientTypeOK
  <2>. QED  BY <1>1, <2>1, <2>2 DEF StreamInv, ClientTypeOK, refs, pendings
<1>3. Covered(cursorRef', view, base)
  BY <1>1, CursorsAre DEF refs
<1>. QED  BY <1>1, <1>2, <1>3, DetachKeeps DEF pendings

\* The stream opened last is aborted, open or not yet.
LEMMA UserCancelsPreserves == ASSUME StreamInv, UserCancels PROVE StreamInv'
<1>1. /\ current \in Subscribers /\ link' = [link EXCEPT ![current] = "free"]
      /\ IF link[current] = "open" THEN Detach(current) ELSE UNCHANGED vars
      /\ cancel' = "sent"
      /\ UNCHANGED <<run, request, read, lastId, done, current, refs, pendings, shown, bounds>>
  BY DEF UserCancels, StreamInv, ClientTypeOK
<1>2. TypeOK'
  <2>1. CASE link[current] = "open"
    BY <1>1, <2>1, DetachPreserves DEF StreamInv, IInv
  <2>2. CASE link[current] # "open"
    BY <1>1, <2>2 DEF vars, busVars, readerVars, StreamInv, IInv, TypeOK
  <2>. QED  BY <2>1, <2>2
<1>3. ClientTypeOK'
  BY <1>1, <1>2 DEF StreamInv, ClientTypeOK, refs, pendings, shown, bounds
<1>4. CASE link[current] = "open"
  <2>1. Covered(cursorRef', view, base)
    BY <1>1, CursorsAre DEF refs
  <2>. QED  BY <1>1, <1>3, <1>4, <2>1, DetachKeeps DEF pendings, shown, bounds
<1>5. CASE link[current] # "open"
  <2>1. [Next]_vars /\ UNCHANGED vars
    BY <1>1, <1>5
  <2>2. IInv'
    BY <2>1, NextIInv DEF StreamInv
  <2>3. /\ UNCHANGED <<history, base, closed, ended, stream, got, from, dropped>>
        /\ UNCHANGED <<view, hasRun, load, switches, cursorRef>>
    BY <1>1, <2>1 DEF vars, busVars, readerVars, refs, pendings, shown, bounds
  <2>4. NoGap' /\ ReadIsShown' /\ CursorsCovered'
    <3>1. base' \in Nat /\ base <= base'
      BY <2>3 DEF StreamInv, IInv, TypeOK
    <3>. QED  BY <1>1, <2>3, <3>1, ShownStays
  <2>5. OpenIsServed'
    BY <1>1, <1>5, <2>3 DEF StreamInv, ClientInv, OpenIsServed, ClientTypeOK
  <2>6. StartsUnread'
    BY <1>1 DEF UserCancels, StreamInv, ClientInv, StartsUnread, ClientTypeOK
  <2>7. Stays' /\ RoomForTheEnd'
    BY <1>1, <2>3 DEF StreamInv, ClientInv, Stays, RoomForTheEnd, LastIndex
  <2>. QED  BY <1>3, <2>2, <2>4, <2>5, <2>6, <2>7 DEF StreamInv, ClientInv
<1>. QED  BY <1>4, <1>5

\* A stream begins to be served, from a cursor that is covered.
LEMMA AttachKeeps ==
  ASSUME StreamInv, NEW s \in Subscribers, NEW f \in Nat, Attach(s, f),
         Covered(f, view, base), read[s] = 0, ClientTypeOK',
         link' = [link EXCEPT ![s] = "open"],
         request' \in {request, [request EXCEPT ![s] = 0]},
         cursorRef' \in {0, cursorRef}, run' # "unsent", run' = run \/ run' = "going",
         UNCHANGED <<read, lastId, view, hasRun, load, switches>>
  PROVE  StreamInv'
<1>1. IInv'
  BY AttachPreserves DEF StreamInv
<1>2. /\ history' = history /\ base' = base /\ closed' = closed /\ ended' = ended
      /\ from' = [from EXCEPT ![s] = f]
      /\ dropped' = [dropped EXCEPT ![s] = IF f < base THEN base ELSE 0]
      /\ got' = [got EXCEPT ![s] = <<>>]
      /\ stream' = [stream EXCEPT ![s] = IF f < base THEN "noticed" ELSE "waiting"]
  BY DEF Attach, busVars
<1>3. base' \in Nat /\ base <= base' /\ base \in Nat
  BY <1>2 DEF StreamInv, IInv, TypeOK
<1>4. NoGap'
  BY <1>3, NoGapStays
<1>5. ReadIsShown'
  <2>1. got'[s] = <<>> /\ \A q \in Subscribers : q # s => got'[q] = got[q]
    BY <1>2 DEF StreamInv, IInv, TypeOK
  <2>2. read[s] <= Len(got'[s]) /\ \A i \in 1..read[s] : got'[s][i].event.number \in Range(view)
    <3>1. Len(<<>>) = 0 /\ 1..0 = {}
      OBVIOUS
    <3>. QED  BY <2>1, <3>1
  <2>3. ASSUME NEW q \in Subscribers, q # s
        PROVE  /\ read[q] <= Len(got'[q])
               /\ \A i \in 1..read[q] : got'[q][i].event.number \in Range(view)
    BY <2>1, <2>3 DEF StreamInv, ClientInv, ReadIsShown
  <2>. QED  BY <2>2, <2>3 DEF ReadIsShown
<1>6. CursorsCovered'
  <2>1. cursorRef' \in Nat /\ Covered(cursorRef', view, base)
    BY CursorsAre
  <2>2. \A q \in Subscribers : request'[q] \in Nat /\ Covered(request'[q], view, base)
    <3>1. ASSUME NEW q \in Subscribers PROVE request'[q] \in {0, request[q]}
      BY DEF StreamInv, ClientTypeOK
    <3>. QED  BY <3>1, CursorsAre
  <2>3. \A q \in Subscribers : from'[q] \in Nat /\ Covered(from'[q], view, base)
    <3>1. ASSUME NEW q \in Subscribers PROVE from'[q] \in {f, from[q]}
      BY <1>2 DEF StreamInv, IInv, TypeOK
    <3>. QED  BY <3>1, CursorsAre
  <2>4. \A q \in Subscribers : dropped'[q] \in Nat /\ dropped'[q] <= base
    <3>1. ASSUME NEW q \in Subscribers PROVE dropped'[q] \in {0, base, dropped[q]}
      BY <1>2 DEF StreamInv, IInv, TypeOK
    <3>. QED  BY <3>1, <1>3, CursorsAre
  <2>5. lastId' = lastId /\ view' = view
    OBVIOUS
  <2>. QED  BY <2>1, <2>2, <2>3, <2>4, <2>5, <1>3, CursorsAre, CursorsStay
<1>7. OpenIsServed'
  <2>1. link'[s] = "open" /\ stream'[s] # "none"
    BY <1>2 DEF StreamInv, IInv, TypeOK, ClientTypeOK
  <2>2. \A q \in Subscribers : q # s => link'[q] = link[q] /\ stream'[q] = stream[q]
    BY <1>2 DEF StreamInv, IInv, TypeOK, ClientTypeOK
  <2>. QED  BY <2>1, <2>2 DEF StreamInv, ClientInv, OpenIsServed
<1>8. StartsUnread'
  BY DEF StreamInv, ClientInv, StartsUnread, ClientTypeOK
<1>9. Stays' /\ RoomForTheEnd'
  BY <1>2 DEF StreamInv, ClientInv, Stays, RoomForTheEnd, LastIndex
<1>. QED  BY <1>1, <1>4, <1>5, <1>6, <1>7, <1>8, <1>9 DEF StreamInv, ClientInv

LEMMA SendPreserves ==
  ASSUME StreamInv, NEW s \in Subscribers, Send(s)
  PROVE  StreamInv'
<1>1. /\ run = "unsent" /\ run' = "going" /\ Attach(s, 0)
      /\ link' = [link EXCEPT ![s] = "open"] /\ current' = s /\ loading' = TRUE
      /\ cursorRef' = 0 /\ attached' = FALSE /\ attempts' = 0
      /\ UNCHANGED <<request, read, lastId, done, pendings, hasRun, view, cancel, bounds>>
  BY DEF Send
<1>2. read[s] = 0 /\ Covered(0, view, base) /\ 0 \in Nat
  BY <1>1, CursorsAre DEF StreamInv, ClientInv, StartsUnread
<1>3. ClientTypeOK'
  <2>1. TypeOK'
    BY <1>1, <1>2, AttachPreserves DEF StreamInv, IInv
  <2>2. /\ run' \in {"unsent", "going", "suspended", "finishing", "over"}
        /\ link' \in [Subscribers -> {"free", "requested", "open"}]
        /\ current' \in Subscribers \cup {NoStream}
    BY <1>1 DEF StreamInv, ClientTypeOK
  <2>3. loading' \in BOOLEAN /\ cursorRef' \in Nat /\ attached' \in BOOLEAN
    BY <1>1
  <2>4. attempts' \in 0..MaxReattach
    BY <1>1, ClientAssumption
  <2>5. UNCHANGED <<request, read, lastId, done, retry, answer, load, hasRun, view, cancel,
                    cuts, switches>>
    BY <1>1 DEF pendings, bounds
  <2>. QED  BY <2>1, <2>2, <2>3, <2>4, <2>5 DEF StreamInv, ClientTypeOK
<1>4. UNCHANGED <<load, switches>> /\ run' # "unsent"
  BY <1>1 DEF pendings, bounds
<1>. QED  BY <1>1, <1>2, <1>3, <1>4, AttachKeeps

LEMMA ConnectPreserves ==
  ASSUME StreamInv, NEW s \in Subscribers, Connect(s)
  PROVE  StreamInv'
<1>1. /\ link[s] = "requested" /\ request' = [request EXCEPT ![s] = 0]
      /\ UNCHANGED <<run, read, lastId, done, current, refs, pendings, hasRun, view,
                     cancel, bounds>>
  BY DEF Connect
<1>2. read[s] = 0 /\ request[s] \in Nat /\ Covered(request[s], view, base) /\ Covered(0, view, base)
  BY <1>1, CursorsAre DEF StreamInv, ClientInv, StartsUnread
<1>3. /\ UNCHANGED <<cursorRef, attached, attempts, retry, answer, load, cuts, switches>>
      /\ run' # "unsent"
  BY <1>1 DEF refs, pendings, bounds, StreamInv, ClientInv, StartsUnread
<1>4. CASE ~closed
  <2>1. link' = [link EXCEPT ![s] = "open"] /\ Attach(s, request[s]) /\ loading' = loading
    BY <1>4 DEF Connect
  <2>2. TypeOK'
    BY <1>2, <2>1, AttachPreserves DEF StreamInv, IInv
  <2>3. ClientTypeOK'
    BY <1>1, <1>3, <2>1, <2>2 DEF StreamInv, ClientTypeOK
  <2>. QED  BY <1>1, <1>2, <1>3, <2>1, <2>3, AttachKeeps
<1>5. CASE closed
  <2>1. link' = [link EXCEPT ![s] = "free"] /\ loading' = FALSE /\ UNCHANGED vars
    BY <1>5 DEF Connect
  <2>2. [Next]_vars
    BY <2>1
  <2>3. IInv'
    BY <2>2, NextIInv DEF StreamInv
  <2>4. /\ history' = history /\ base' = base /\ ended' = ended /\ stream' = stream
        /\ got' = got /\ from' = from /\ dropped' = dropped
    BY <2>1 DEF vars, busVars, readerVars
  <2>5. ClientTypeOK'
    BY <1>1, <1>3, <2>1, <2>3 DEF StreamInv, IInv, ClientTypeOK
  <2>6. base' \in Nat /\ base <= base'
    BY <2>4 DEF StreamInv, IInv, TypeOK
  <2>7. NoGap' /\ ReadIsShown'
    BY <1>1, <2>4, <2>6, NoGapStays, ReadStays
  <2>8. CursorsCovered'
    <3>1. \A q \in Subscribers : request'[q] \in Nat /\ Covered(request'[q], view, base)
      <4>1. ASSUME NEW q \in Subscribers PROVE request'[q] \in {0, request[q]}
        BY <1>1 DEF StreamInv, ClientTypeOK
      <4>. QED  BY <4>1, CursorsAre
    <3>2. /\ view' = view /\ cursorRef' = cursorRef /\ lastId' = lastId
          /\ from' = from /\ dropped' = dropped
      BY <1>1, <1>3, <2>4
    <3>. QED  BY <3>1, <3>2, <2>6, CursorsAre, CursorsStay
  <2>9. OpenIsServed' /\ StartsUnread'
    BY <1>1, <2>1, <2>4 DEF StreamInv, ClientInv, OpenIsServed, StartsUnread, ClientTypeOK
  <2>10. Stays' /\ RoomForTheEnd'
    BY <1>1, <1>3, <2>4 DEF StreamInv, ClientInv, Stays, RoomForTheEnd, LastIndex
  <2>. QED  BY <2>3, <2>5, <2>7, <2>8, <2>9, <2>10 DEF StreamInv, ClientInv
<1>. QED  BY <1>4, <1>5

LEMMA ReattachPreserves == ASSUME StreamInv, Reattach PROVE StreamInv'
<1>1. /\ answer' = FALSE /\ UNCHANGED <<run, retry, load, cancel, cuts, switches>>
      /\ run' # "unsent"
  BY DEF Reattach, bounds, StreamInv, ClientInv, StartsUnread
<1>2. CASE AlreadyAttached
  <2>1. UNCHANGED <<vars, streamState, refs, shown>>
    BY <1>2 DEF Reattach
  <2>2. [Next]_vars
    BY <2>1
  <2>3. TypeOK'
    BY <2>2, NextIInv DEF StreamInv, IInv
  <2>4. ClientTypeOK'
    BY <1>1, <2>1, <2>3 DEF StreamInv, ClientTypeOK, streamState, refs, shown
  <2>. QED  BY <1>1, <2>1, <2>4, QuietPreserves DEF streamState, refs, shown
<1>3. CASE ~AlreadyAttached
  <2>1. PICK s \in Subscribers :
          /\ link[s] = "free"
          /\ link' = [link EXCEPT ![s] = "requested"]
          /\ request' = [request EXCEPT ![s] = FromIndex]
          /\ read' = [read EXCEPT ![s] = 0]
          /\ lastId' = [lastId EXCEPT ![s] = 0]
          /\ done' = [done EXCEPT ![s] = FALSE]
          /\ current' = s
          /\ loading' = TRUE
          /\ attached' = TRUE
          /\ cursorRef' = IF hasRun THEN cursorRef ELSE 0
          /\ view' = IF hasRun THEN view ELSE <<>>
          /\ UNCHANGED <<vars, attempts, hasRun>>
    BY <1>3 DEF Reattach
  <2>2. view' = view
    BY <2>1 DEF StreamInv, ClientInv, Stays
  <2>3. [Next]_vars
    BY <2>1
  <2>4. IInv'
    BY <2>3, NextIInv DEF StreamInv
  <2>5. /\ history' = history /\ base' = base /\ ended' = ended /\ stream' = stream
        /\ got' = got /\ from' = from /\ dropped' = dropped
    BY <2>1 DEF vars, busVars, readerVars
  <2>6. /\ FromIndex \in Nat /\ Covered(FromIndex, view, base)
        /\ cursorRef' \in Nat /\ Covered(cursorRef', view, base)
    BY <2>1, CursorsAre DEF FromIndex
  <2>7. ClientTypeOK'
    <3>1. /\ link' \in [Subscribers -> {"free", "requested", "open"}]
          /\ request' \in [Subscribers -> Nat]
          /\ read' \in [Subscribers -> Nat]
          /\ lastId' \in [Subscribers -> Nat]
          /\ done' \in [Subscribers -> BOOLEAN]
      BY <2>1, <2>6 DEF StreamInv, ClientTypeOK
    <3>. QED  BY <1>1, <2>1, <2>2, <2>4, <2>6, <3>1 DEF StreamInv, IInv, ClientTypeOK
  <2>8. base' \in Nat /\ base <= base'
    BY <2>5 DEF StreamInv, IInv, TypeOK
  <2>9. NoGap'
    BY <2>2, <2>8, NoGapStays
  <2>10. ReadIsShown'
    <3>1. ASSUME NEW q \in Subscribers
          PROVE  /\ read'[q] <= Len(got[q])
                 /\ \A i \in 1..read'[q] : got[q][i].event.number \in Range(view)
      <4>1. CASE q = s
        <5>1. read'[q] = 0 /\ Len(got[q]) \in Nat
          BY <2>1, <4>1, SentTyped DEF StreamInv, ClientTypeOK, IInv
        <5>. QED  BY <5>1
      <4>2. CASE q # s
        <5>1. read'[q] = read[q]
          BY <2>1, <4>2 DEF StreamInv, ClientTypeOK
        <5>. QED  BY <5>1 DEF StreamInv, ClientInv, ReadIsShown
      <4>. QED  BY <4>1, <4>2
    <3>. QED  BY <2>2, <2>5, <3>1 DEF ReadIsShown
  <2>11. CursorsCovered'
    <3>1. ASSUME NEW q \in Subscribers
          PROVE  request'[q] \in {FromIndex, request[q]} /\ lastId'[q] \in {0, lastId[q]}
      BY <2>1 DEF StreamInv, ClientTypeOK
    <3>2. \A q \in Subscribers : request'[q] \in Nat /\ Covered(request'[q], view, base)
      BY <3>1, <2>6, CursorsAre
    <3>3. \A q \in Subscribers : lastId'[q] \in Nat /\ Covered(lastId'[q], view, base)
      BY <3>1, CursorsAre
    <3>. QED  BY <2>2, <2>5, <2>6, <2>8, <3>2, <3>3, CursorsAre, CursorsStay
  <2>12. OpenIsServed'
    BY <2>1, <2>5 DEF StreamInv, ClientInv, OpenIsServed, ClientTypeOK
  <2>13. StartsUnread'
    BY <1>1, <2>1 DEF StreamInv, ClientInv, StartsUnread, ClientTypeOK
  <2>14. Stays' /\ RoomForTheEnd'
    BY <1>1, <2>1, <2>2, <2>5 DEF StreamInv, ClientInv, Stays, RoomForTheEnd, LastIndex
  <2>. QED  BY <2>4, <2>7, <2>9, <2>10, <2>11, <2>12, <2>13, <2>14 DEF StreamInv, ClientInv
<1>. QED  BY <1>2, <1>3

\* The notice of a truncation moves the cursor over what is lost for good.
LEMMA ReadNoticePreserves ==
  ASSUME StreamInv, NEW s \in Subscribers, ReadNotice(s)
  PROVE  StreamInv'
<1>1. /\ lastId' = [lastId EXCEPT ![s] = dropped[s]] /\ hasRun' = TRUE
      /\ UNCHANGED <<vars, run, link, request, read, done, current, refs, pendings,
                     loading, view, cancel, bounds>>
  BY DEF ReadNotice
<1>2. [Next]_vars
  BY <1>1
<1>3. IInv'
  BY <1>2, NextIInv DEF StreamInv
<1>4. /\ history' = history /\ base' = base /\ ended' = ended /\ stream' = stream
      /\ got' = got /\ from' = from /\ dropped' = dropped
  BY <1>1 DEF vars, busVars, readerVars
<1>5. UNCHANGED <<cursorRef, attached, attempts, retry, answer, load, cuts, switches>>
  BY <1>1 DEF refs, pendings, bounds
<1>6. base' \in Nat /\ base <= base'
  BY <1>4 DEF StreamInv, IInv, TypeOK
<1>7. \A q \in Subscribers : lastId'[q] \in Nat /\ Covered(lastId'[q], view, base)
  <2>1. ASSUME NEW q \in Subscribers PROVE lastId'[q] \in {dropped[s], lastId[q]}
    BY <1>1 DEF StreamInv, ClientTypeOK
  <2>2. dropped[s] \in Nat /\ Covered(dropped[s], view, base)
    BY CursorsAre, CoveredDropped
  <2>. QED  BY <2>1, <2>2, CursorsAre
<1>8. ClientTypeOK'
  <2>1. lastId' \in [Subscribers -> Nat]
    BY <1>1, CursorsAre DEF StreamInv, ClientTypeOK
  <2>. QED  BY <1>1, <1>3, <1>5, <2>1 DEF StreamInv, IInv, ClientTypeOK
<1>9. NoGap' /\ ReadIsShown'
  BY <1>1, <1>4, <1>6, NoGapStays, ReadStays
<1>10. CursorsCovered'
  BY <1>1, <1>4, <1>5, <1>6, <1>7, CursorsAre, CursorsStay
<1>11. OpenIsServed' /\ StartsUnread' /\ RoomForTheEnd'
  BY <1>1, <1>4, <1>5 DEF StreamInv, ClientInv, OpenIsServed, StartsUnread, RoomForTheEnd, LastIndex
<1>12. Stays'
  BY <1>1, <1>5 DEF StreamInv, ClientInv, Stays
<1>. QED  BY <1>3, <1>8, <1>9, <1>10, <1>11, <1>12 DEF StreamInv, ClientInv

\* Everything before the next frame of a response is in the view, or was
\* dropped by the server, or precedes the cursor the response was asked from.
LEMMA NextFrameFollows ==
  ASSUME StreamInv, NEW s \in Subscribers, read[s] < Len(got[s])
  PROVE  /\ read[s] + 1 \in 1..Len(got[s])
         /\ got[s][read[s] + 1] \in Pairs
         /\ got[s][read[s] + 1].event.number = got[s][read[s] + 1].index + 1
         /\ Covered(got[s][read[s] + 1].index, view, base)
<1>1. /\ read[s] \in Nat /\ got[s] \in Seq(Pairs) /\ Len(got[s]) \in Nat
      /\ base \in Nat /\ cursor[s] \in Nat /\ from[s] \in Nat
  BY DEF StreamInv, IInv, TypeOK, ClientTypeOK
<1>2. PICK next \in Nat : next = read[s] + 1
  BY <1>1
<1>3. next \in 1..Len(got[s]) /\ got[s][next] \in Pairs
  BY <1>1, <1>2
<1>4. PICK index : index = got[s][next].index
  OBVIOUS
<1>5. index \in Nat /\ index < cursor[s] /\ got[s][next].event.number = index + 1
  BY <1>3, <1>4 DEF StreamInv, IInv, SentInv, SentIsBehindCursor, IndexNamesEvent, Pairs
<1>6. ASSUME NEW n \in 1..index
      PROVE  n \in Range(view) \/ n <= base
  <2>1. n \in Nat /\ n - 1 \in Nat /\ n - 1 < index /\ n - 1 < cursor[s]
    BY <1>1, <1>5
  <2>2. CASE n <= from[s]
    <3>1. Covered(from[s], view, base) /\ n \in 1..from[s]
      BY <1>1, <2>1, <2>2, CursorsAre
    <3>. QED  BY <3>1 DEF Covered
  <2>3. CASE n > from[s]
    <3>1. n - 1 \in from[s]..(cursor[s] - 1)
      BY <1>1, <2>1, <2>3
    <3>2. n - 1 < base \/ \E i \in 1..Len(got[s]) : got[s][i].index = n - 1
      BY <3>1 DEF StreamInv, IInv, SentInv, OnlyDroppedMissed
    <3>3. CASE n - 1 < base
      BY <1>1, <2>1, <3>3
    <3>4. ASSUME NEW i \in 1..Len(got[s]), got[s][i].index = n - 1
          PROVE  n \in Range(view)
      <4>1. ~(next < i)
        <5>1. next < i => index < n - 1
          BY <1>3, <1>4, <3>4 DEF StreamInv, IInv, SentInv, InOrder
        <5>. QED  BY <5>1, <2>1, <1>5
      <4>2. i # next
        BY <3>4, <1>4, <1>5, <2>1
      <4>3. i \in 1..read[s]
        BY <4>1, <4>2, <1>1, <1>2
      <4>4. got[s][i].event.number \in Range(view)
        BY <4>3 DEF StreamInv, ClientInv, ReadIsShown
      <4>5. got[s][i].event.number = (n - 1) + 1
        BY <3>4 DEF StreamInv, IInv, SentInv, IndexNamesEvent
      <4>. QED  BY <4>4, <4>5, <2>1
    <3>. QED  BY <3>2, <3>3, <3>4
  <2>. QED  BY <1>1, <2>1, <2>2, <2>3
<1>7. Covered(index, view, base)
  BY <1>6 DEF Covered
<1>. QED  BY <1>2, <1>3, <1>4, <1>5, <1>7

LEMMA ReadFramePreserves ==
  ASSUME StreamInv, NEW s \in Subscribers, ReadFrame(s)
  PROVE  StreamInv'
<1>1. PICK frame : frame = got[s][read[s] + 1]
  OBVIOUS
<1>2. /\ read[s] < Len(got[s])
      /\ lastId' = [lastId EXCEPT ![s] = frame.index]
      /\ view' = Shown(frame)
      /\ done' = [done EXCEPT ![s] = @ \/ Terminal(frame.event.kind)]
      /\ loading' = (loading /\ ~Terminal(frame.event.kind))
      /\ IF frame.event.kind = "metadata"
         THEN attempts' = 0 /\ attached' = FALSE /\ cursorRef' = 0
         ELSE UNCHANGED refs
      /\ hasRun' = TRUE
      /\ read' = [read EXCEPT ![s] = @ + 1]
      /\ UNCHANGED <<vars, run, link, request, current, pendings, cancel, bounds>>
      /\ link[s] = "open"
  BY <1>1 DEF ReadFrame
<1>3. PICK number : number = frame.event.number
  OBVIOUS
<1>4. /\ read[s] + 1 \in 1..Len(got[s])
      /\ frame \in Pairs /\ number = frame.index + 1 /\ frame.index \in Nat
      /\ Covered(frame.index, view, base)
      /\ number \in 1..MaxPublished
  <2>1. /\ read[s] + 1 \in 1..Len(got[s]) /\ frame \in Pairs /\ number = frame.index + 1
        /\ Covered(frame.index, view, base)
    BY <1>1, <1>2, <1>3, NextFrameFollows
  <2>. QED  BY <2>1, <1>3 DEF Pairs, Events
<1>5. /\ view \in Seq(1..MaxPublished) /\ MaxPublished \in Nat
      /\ base \in Nat /\ Len(view) \in Nat
  BY EventBusAssumption DEF StreamInv, IInv, TypeOK, ClientTypeOK
<1>6. \/ view' = view /\ number \in Range(view)
      \/ view' = Append(view, number)
  BY <1>2, <1>3 DEF Shown
<1>7. /\ view' \in Seq(1..MaxPublished)
      /\ Range(view') = Range(view) \cup {number}
  <2>1. CASE view' = view /\ number \in Range(view)
    BY <2>1, <1>5
  <2>2. CASE view' = Append(view, number)
    BY <2>2, <1>4, <1>5, AppendRange
  <2>. QED  BY <2>1, <2>2, <1>6
<1>8. /\ history' = history /\ base' = base /\ ended' = ended /\ stream' = stream
      /\ got' = got /\ from' = from /\ dropped' = dropped
  BY <1>2 DEF vars, busVars, readerVars
<1>9. IInv'
  <2>1. [Next]_vars
    BY <1>2
  <2>. QED  BY <2>1, NextIInv DEF StreamInv
<1>10. UNCHANGED <<retry, answer, load, cuts, switches>>
  BY <1>2 DEF pendings, bounds
<1>11. /\ attempts' \in 0..MaxReattach /\ attached' \in BOOLEAN
       /\ cursorRef' \in {0, cursorRef}
  <2>1. attempts \in 0..MaxReattach /\ attached \in BOOLEAN /\ 0 \in 0..MaxReattach
    BY ClientAssumption DEF StreamInv, ClientTypeOK
  <2>2. \/ attempts' = 0 /\ attached' = FALSE /\ cursorRef' = 0
        \/ attempts' = attempts /\ attached' = attached /\ cursorRef' = cursorRef
    BY <1>2 DEF refs
  <2>. QED  BY <2>1, <2>2
<1>12. \A q \in Subscribers : lastId'[q] \in Nat /\ Covered(lastId'[q], view, base)
  <2>1. ASSUME NEW q \in Subscribers PROVE lastId'[q] \in {frame.index, lastId[q]}
    BY <1>2 DEF StreamInv, ClientTypeOK
  <2>. QED  BY <2>1, <1>4, CursorsAre
<1>13. ClientTypeOK'
  <2>1. lastId' \in [Subscribers -> Nat] /\ read' \in [Subscribers -> Nat]
    BY <1>2, <1>4 DEF StreamInv, ClientTypeOK
  <2>2. done' \in [Subscribers -> BOOLEAN] /\ loading' \in BOOLEAN
    <3>0. Terminal(frame.event.kind) \in BOOLEAN
      BY DEF Terminal
    <3>1. PICK last \in BOOLEAN : last = Terminal(frame.event.kind)
      BY <3>0, Zenon
    <3>2. (done[s] \/ last) \in BOOLEAN /\ done \in [Subscribers -> BOOLEAN]
      BY DEF StreamInv, ClientTypeOK
    <3>3. done' = [done EXCEPT ![s] = (done[s] \/ last)] /\ loading' = (loading /\ ~last)
      BY <1>2, <3>1, Zenon
    <3>. QED  BY <3>2, <3>3
  <2>3. cursorRef' \in Nat
    BY <1>11, CursorsAre
  <2>4. /\ run' \in {"unsent", "going", "suspended", "finishing", "over"}
        /\ link' \in [Subscribers -> {"free", "requested", "open"}]
        /\ request' \in [Subscribers -> Nat]
        /\ current' \in Subscribers \cup {NoStream}
        /\ retry' \in Nat /\ answer' \in BOOLEAN /\ load' \in BOOLEAN
        /\ hasRun' \in BOOLEAN /\ cancel' \in {"no", "sent"}
        /\ cuts' \in 0..MaxCuts /\ switches' \in 0..MaxSwitches
    BY <1>2, <1>10 DEF StreamInv, ClientTypeOK
  <2>. QED  BY <1>7, <1>9, <1>11, <2>1, <2>2, <2>3, <2>4 DEF IInv, ClientTypeOK
<1>14. NoGap'
  <2>1. Covered(number, view', base)
    BY <1>4, <1>7 DEF Covered
  <2>2. ASSUME NEW i \in 1..Len(view) PROVE Covered(view[i], view', base)
    BY <1>5, <1>7 DEF Covered, StreamInv, ClientInv, NoGap
  <2>3. ASSUME NEW i \in 1..Len(view') PROVE Covered(view'[i], view', base)
    <3>1. CASE view' = view
      BY <2>2, <3>1
    <3>2. CASE view' = Append(view, number)
      <4>1. \/ i \in 1..Len(view) /\ view'[i] = view[i]
            \/ view'[i] = number
        BY <3>2, <1>4, <1>5
      <4>. QED  BY <4>1, <2>1, <2>2
    <3>. QED  BY <3>1, <3>2, <1>6
  <2>. QED  BY <2>3, <1>8 DEF NoGap, Covered
<1>15. ReadIsShown'
  <2>1. ASSUME NEW q \in Subscribers
        PROVE  /\ read'[q] <= Len(got[q])
               /\ \A i \in 1..read'[q] : got[q][i].event.number \in Range(view')
    <3>1. /\ read[q] \in Nat /\ read[q] <= Len(got[q])
          /\ \A i \in 1..read[q] : got[q][i].event.number \in Range(view')
      BY <1>7 DEF StreamInv, ClientInv, ReadIsShown, ClientTypeOK
    <3>2. CASE q = s
      <4>1. read'[q] = read[s] + 1 /\ got[s][read[s] + 1].event.number \in Range(view')
        BY <1>1, <1>2, <1>3, <1>7, <3>2 DEF StreamInv, ClientTypeOK
      <4>. QED  BY <3>1, <3>2, <4>1, <1>4
    <3>3. CASE q # s
      <4>1. read'[q] = read[q]
        BY <1>2, <3>3 DEF StreamInv, ClientTypeOK
      <4>. QED  BY <3>1, <4>1
    <3>. QED  BY <3>2, <3>3
  <2>. QED  BY <2>1, <1>8 DEF ReadIsShown
<1>16. CursorsCovered'
  <2>1. /\ request' = request /\ from' = from /\ dropped' = dropped
        /\ Range(view) \subseteq Range(view') /\ base' \in Nat /\ base <= base'
        /\ cursorRef' \in Nat /\ Covered(cursorRef', view, base)
    BY <1>2, <1>5, <1>7, <1>8, <1>11, CursorsAre
  <2>. QED  BY <2>1, <1>12, CursorsAre, CursorsStay
<1>17. OpenIsServed' /\ RoomForTheEnd'
  BY <1>2, <1>8 DEF StreamInv, ClientInv, OpenIsServed, RoomForTheEnd, LastIndex
<1>18. StartsUnread'
  <2>1. run # "unsent"
    BY <1>2 DEF StreamInv, ClientInv, StartsUnread
  <2>. QED  BY <2>1, <1>2 DEF StreamInv, ClientInv, StartsUnread, ClientTypeOK
<1>19. Stays'
  BY <1>2, <1>10 DEF StreamInv, ClientInv, Stays
<1>. QED  BY <1>9, <1>13, <1>14, <1>15, <1>16, <1>17, <1>18, <1>19 DEF StreamInv, ClientInv

-----------------------------------------------------------------------------
(* The client's theorem                                                    *)

LEMMA ClientInitInv == ClientInit => StreamInv
<1>. SUFFICES ASSUME ClientInit PROVE StreamInv
  OBVIOUS
<1>1. IInv
  BY InitIInv DEF ClientInit
<1>2. view = <<>> /\ base = 0
  BY DEF ClientInit, Init
<1>3. ClientTypeOK
  <2>1. view \in Seq(1..MaxPublished)
    BY <1>2
  <2>2. /\ link \in [Subscribers -> {"free", "requested", "open"}]
        /\ request \in [Subscribers -> Nat] /\ read \in [Subscribers -> Nat]
        /\ lastId \in [Subscribers -> Nat] /\ done \in [Subscribers -> BOOLEAN]
    BY DEF ClientInit
  <2>3. 0 \in 0..MaxReattach /\ 0 \in 0..MaxCuts /\ 0 \in 0..MaxSwitches
    BY ClientAssumption
  <2>. QED  BY <1>1, <2>1, <2>2, <2>3 DEF ClientInit, IInv, ClientTypeOK
<1>4. NoGap
  <2>1. 1..Len(view) = {}
    BY <1>2
  <2>. QED  BY <2>1 DEF NoGap
<1>5. ReadIsShown
  <2>1. ASSUME NEW s \in Subscribers PROVE read[s] = 0 /\ Len(got[s]) \in Nat
    BY <1>1, SentTyped DEF ClientInit, IInv
  <2>2. ASSUME NEW s \in Subscribers
        PROVE  read[s] <= Len(got[s]) /\ 1..read[s] = {}
    BY <2>1
  <2>. QED  BY <2>2 DEF ReadIsShown
<1>6. CursorsCovered
  <2>1. /\ cursorRef = 0 /\ Covered(0, view, base)
        /\ \A s \in Subscribers :
             lastId[s] = 0 /\ request[s] = 0 /\ from[s] = 0 /\ dropped[s] = 0
    BY <1>2, CoveredDropped DEF ClientInit, Init
  <2>. QED  BY <2>1, <1>2 DEF CursorsCovered
<1>7. OpenIsServed /\ StartsUnread /\ RoomForTheEnd /\ Stays
  BY DEF ClientInit, Init, OpenIsServed, StartsUnread, RoomForTheEnd, Stays
<1>. QED  BY <1>1, <1>3, <1>4, <1>5, <1>6, <1>7 DEF StreamInv, ClientInv

LEMMA CancelAnsweredPreserves == ASSUME StreamInv, CancelAnswered PROVE StreamInv'
<1>1. /\ IF run = "suspended" THEN PublishLast("takeover_cancelled") ELSE UNCHANGED <<vars, run>>
      /\ cancel' = "no" /\ loading' = FALSE
      /\ UNCHANGED <<streamState, refs, pendings, hasRun, view, bounds>>
  BY DEF CancelAnswered
<1>2. CASE run = "suspended"
  BY <1>1, <1>2, PublishLastPreserves
<1>3. CASE run # "suspended"
  <2>1. [Next]_vars
    BY <1>1, <1>3
  <2>2. TypeOK'
    BY <2>1, NextIInv DEF StreamInv, IInv
  <2>3. ClientTypeOK'
    BY <1>1, <1>3, <2>2 DEF StreamInv, ClientTypeOK, streamState, refs, pendings, bounds
  <2>. QED  BY <1>1, <1>3, <2>3, QuietPreserves DEF streamState, refs, pendings, bounds
<1>. QED  BY <1>2, <1>3

LEMMA RetryFiresPreserves == ASSUME StreamInv, RetryFires PROVE StreamInv'
<1>1. /\ retry > 0 /\ retry' = retry - 1
      /\ answer' = (answer \/ (~closed /\ (FALSE => run = "suspended")))
      /\ UNCHANGED <<vars, run, streamState, refs, load, shown, cancel, bounds>>
  BY DEF RetryFires, Asked
<1>2. [Next]_vars
  BY <1>1
<1>3. TypeOK'
  BY <1>2, NextIInv DEF StreamInv, IInv
<1>4. retry' \in Nat /\ answer' \in BOOLEAN
  BY <1>1 DEF StreamInv, ClientTypeOK
<1>5. ClientTypeOK'
  BY <1>1, <1>3, <1>4 DEF StreamInv, ClientTypeOK, streamState, refs, shown, bounds
<1>6. run' # "unsent"
  BY <1>1 DEF StreamInv, ClientInv, StartsUnread
<1>. QED  BY <1>1, <1>5, <1>6, QuietPreserves DEF streamState, refs, shown, bounds

LEMMA GoOnPreserves == ASSUME StreamInv, GoOn PROVE StreamInv'
<1>1. run' = "going" /\ UNCHANGED <<vars, clientVars, cancel>>
  BY DEF GoOn
<1>2. [Next]_vars
  BY <1>1
<1>3. TypeOK'
  BY <1>2, NextIInv DEF StreamInv, IInv
<1>4. ClientTypeOK'
  BY <1>1, <1>3 DEF StreamInv, ClientTypeOK, clientVars, streamState, refs, pendings, shown, bounds
<1>. QED  BY <1>1, <1>4, QuietPreserves DEF clientVars, streamState, refs, pendings, shown, bounds

LEMMA ClientNextInv ==
  ASSUME MaxSwitches = 0, StreamInv, [ClientNext]_session
  PROVE  StreamInv'
<1>1. CASE UNCHANGED session
  <2>1. UNCHANGED <<vars, run, streamState, refs, pendings, shown, cancel, bounds>>
    BY <1>1 DEF session
  <2>2. [Next]_vars
    BY <2>1
  <2>3. TypeOK'
    BY <2>2, NextIInv DEF StreamInv, IInv
  <2>4. ClientTypeOK'
    BY <2>1, <2>3 DEF StreamInv, ClientTypeOK, streamState, refs, pendings, shown, bounds
  <2>. QED  BY <2>1, <2>4, QuietPreserves DEF streamState, refs, pendings, shown, bounds
<1>2. CASE Emit \/ GoOn
  BY <1>2, EmitPreserves, GoOnPreserves
<1>3. ASSUME EndRun \/ TakeoverTimesOut PROVE StreamInv'
  <2>1. PICK kind \in {"run_end", "takeover_cancelled"} :
          /\ PublishLast(kind) /\ run \in {"suspended", "finishing"}
          /\ UNCHANGED <<clientVars, cancel>>
    BY <1>3 DEF EndRun, TakeoverTimesOut
  <2>2. loading' \in BOOLEAN /\ cancel' \in {"no", "sent"}
    BY <2>1 DEF clientVars, shown, StreamInv, ClientTypeOK
  <2>3. UNCHANGED <<streamState, refs, pendings, hasRun, view, bounds>>
    BY <2>1 DEF clientVars, shown
  <2>. QED  BY <2>1, <2>2, <2>3, PublishLastPreserves
<1>4. CASE RetryFires \/ Reattach \/ UserCancels \/ CancelAnswered
  BY <1>4, RetryFiresPreserves, ReattachPreserves, UserCancelsPreserves, CancelAnsweredPreserves
<1>5. CASE SwitchBack \/ Loaded
  BY <1>5 DEF SwitchBack, Loaded, StreamInv, ClientInv, Stays
<1>6. ASSUME NEW s \in Subscribers,
             Send(s) \/ ServeStream(s) \/ Connect(s) \/ ReadNotice(s) \/ ReadFrame(s) \/ Fails(s)
      PROVE  StreamInv'
  BY <1>6, SendPreserves, ServePreserves, ConnectPreserves, ReadNoticePreserves,
     ReadFramePreserves, FailsPreserves
<1>7. ASSUME NEW s \in Subscribers, EndOfStream(s) \/ CutOff(s) PROVE StreamInv'
  <2>1. Ended(s) /\ switches' = switches /\ cuts' \in 0..MaxCuts
    BY <1>7, ClientAssumption DEF EndOfStream, CutOff, bounds, StreamInv, ClientTypeOK
  <2>. QED  BY <2>1, EndedPreserves
<1>. QED  BY <1>1, <1>2, <1>3, <1>4, <1>5, <1>6, <1>7 DEF ClientNext, ClientStep

\* What one run's client shows has no gap: with any number of connections that
\* break at any point, any capacity of the bus and any number of attempts to
\* come back, an event is missing from the view only if the server had dropped
\* it.  The user stays in the session; leaving it loads the stored runs over
\* the view.
THEOREM ViewHasNoGap == ASSUME MaxSwitches = 0 PROVE ClientSpec => []NoGap
<1>1. StreamInv => NoGap
  BY DEF StreamInv, ClientInv
<1>2. StreamInv /\ [ClientNext]_session => StreamInv'
  BY ClientNextInv
<1>. QED  BY <1>1, <1>2, ClientInitInv, PTL DEF ClientSpec
=============================================================================
