----------------------------- MODULE InboxProofs -----------------------------
(* Theorems about Inbox, for all replicas, events, feeds, options and fault  *)
(* budgets.                                                                  *)
EXTENDS Inbox, FiniteSetTheorems, TLAPS

Shapes == \A r \in Replicas : Shape(r)

-----------------------------------------------------------------------------
(* The steps change one replica's source and statement.                    *)

LEMMA SetSourceType ==
    ASSUME TypeOK, NEW r \in Replicas, NEW s \in Source, SetSource(r, s)
    PROVE  /\ src' \in [Replicas -> Source]
           /\ src'[r] = s
           /\ \A q \in Replicas \ {r} : src'[q] = src[q]
BY DEF TypeOK, SetSource

LEMMA GotoType ==
    ASSUME TypeOK, NEW r \in Replicas, NEW state \in States, Goto(r, state)
    PROVE  /\ pc' \in [Replicas -> States]
           /\ pc'[r] = state
           /\ \A q \in Replicas \ {r} : pc'[q] = pc[q]
BY DEF TypeOK, Goto

LEMMA CloseAndRetryType ==
    ASSUME TypeOK, NEW r \in Replicas, CloseAndRetry(r)
    PROVE  /\ src' \in [Replicas -> Source] /\ pc' \in [Replicas -> States]
           /\ pc'[r] = "receive" /\ src'[r].session = None
           /\ \A q \in Replicas \ {r} : src'[q] = src[q] /\ pc'[q] = pc[q]
<1>. DEFINE s == [src[r] EXCEPT !.session = None, !.start = None, !.record = None]
<1>1. src[r] \in Source
  BY DEF TypeOK
<1>2. s \in Source /\ s.session = None
  BY <1>1 DEF Source
<1>3. SetSource(r, s) /\ Goto(r, "receive")
  BY DEF CloseAndRetry
<1>4. "receive" \in States
  BY DEF States
<1>5. /\ src' \in [Replicas -> Source] /\ src'[r] = s
      /\ \A q \in Replicas \ {r} : src'[q] = src[q]
  BY <1>2, <1>3, SetSourceType
<1>6. /\ pc' \in [Replicas -> States] /\ pc'[r] = "receive"
      /\ \A q \in Replicas \ {r} : pc'[q] = pc[q]
  BY <1>3, <1>4, GotoType
<1>. QED
  BY <1>2, <1>5, <1>6

\* A record in hand is in the feed, and its event is one.
LEMMA RecordInFeed ==
    ASSUME TypeOK, Shapes, NEW r \in Replicas, pc[r] \in InHand
    PROVE  /\ src[r] \in Source
           /\ src[r].record \in Positions
           /\ src[r].record < Len(feed)
           /\ src[r].session = src[r].record + 1
           /\ Event(r) \in Events
<1>1. src[r].record \in 0..(Len(feed) - 1) /\ src[r].session = src[r].record + 1
  BY DEF Shapes, Shape
<1>2. feed \in Seq(Events) /\ Len(feed) \in Nat /\ Len(feed) <= MaxRecords
  BY DEF TypeOK
<1>3. src[r].record + 1 \in 1..Len(feed)
  BY <1>1, <1>2
<1>4. feed[src[r].record + 1] \in Events
  BY <1>2, <1>3
<1>. QED
  BY <1>1, <1>2, <1>4, BoundsAssumption DEF Positions, Event, EventAt, TypeOK
-----------------------------------------------------------------------------
(* Type correctness.                                                       *)

\* A replica that a step leaves alone keeps its shape: the feed only grows.
LEMMA ShapeKept ==
    ASSUME TypeOK, NEW q \in Replicas, Shape(q), pc'[q] = pc[q], src'[q] = src[q],
           feed' \in Seq(Events), Len(feed) <= Len(feed')
    PROVE  Shape(q)'
<1>1. Len(feed) \in Nat /\ Len(feed') \in Nat
  BY DEF TypeOK
<1>2. 0..(Len(feed) - 1) \subseteq 0..(Len(feed') - 1)
  BY <1>1
<1>. QED
  BY <1>2 DEF Shape

LEMMA TypeInit == Init => TypeOK /\ Shapes
<1>. SUFFICES ASSUME Init PROVE TypeOK /\ Shapes
  OBVIOUS
<1>1. NewSource \in Source
  BY DEF NewSource, Source
<1>2. TypeOK
  BY <1>1, BoundsAssumption DEF Init, TypeOK, States, Positions
<1>3. Shapes
  BY DEF Init, Shapes, Shape, InHand
<1>. QED
  BY <1>2, <1>3

LEMMA TypeStep == TypeOK /\ Shapes /\ [Next]_vars => TypeOK' /\ Shapes'
<1>. SUFFICES ASSUME TypeOK, Shapes, [Next]_vars PROVE TypeOK' /\ Shapes'
  OBVIOUS
<1>. USE BoundsAssumption
<1>a. Len(feed) \in Nat /\ Len(feed) <= MaxRecords /\ feed \in Seq(Events)
  BY DEF TypeOK
<1>b. \A r \in Replicas : src[r] \in Source /\ Shape(r)
  BY DEF TypeOK, Shapes
<1>1. ASSUME NEW e \in Events, AppendRecord(e) PROVE TypeOK' /\ Shapes'
  <2>1. feed' \in Seq(Events) /\ Len(feed') = Len(feed) + 1
    BY <1>1, <1>a DEF AppendRecord
  <2>2. TypeOK'
    BY <1>1, <2>1, <1>a DEF AppendRecord, TypeOK, outcome
  <2>3. \A q \in Replicas : Shape(q)'
    BY <1>1, <1>a, <1>b, <2>1, ShapeKept DEF AppendRecord
  <2>. QED
    BY <2>2, <2>3 DEF Shapes
<1>2. ASSUME NEW r \in Replicas, \/ Step(r) \/ PingFails(r) \/ SeenFails(r)
                                 \/ ReceiveFails(r) \/ Crash(r) \/ Restart(r)
      PROVE  TypeOK' /\ Shapes'
  <2>. SUFFICES ASSUME feed' = feed
                PROVE  /\ TypeOK' /\ Shape(r)'
                       /\ \A q \in Replicas \ {r} : pc'[q] = pc[q] /\ src'[q] = src[q]
    <3>1. feed' = feed
      BY <1>2 DEF Step, PingFails, SeenFails, ReceiveFails, Crash, Restart, Acquire,
         StillLeading, Load, Open, Cancelled, ReadRecord, NextLost, Decode, HandlerOk,
         HandlerFails, Mark, Ack, AckFails
    <3>. QED
      BY <3>1, <1>a, <1>b, ShapeKept DEF Shapes
  <2>1. CASE Acquire(r)
    <3>. DEFINE s == [src[r] EXCEPT !.session = None]
    <3>1. s \in Source
      BY <1>b DEF Source
    <3>2. SetSource(r, s) /\ Goto(r, "load") /\ "load" \in States
      BY <2>1 DEF Acquire, States
    <3>3. Shape(r)'
      BY <3>2, GotoType DEF Shape, InHand
    <3>4. TypeOK'
      BY <2>1, <3>1, <3>2, SetSourceType, GotoType DEF Acquire, TypeOK, outcome
    <3>. QED
      BY <3>1, <3>2, <3>3, <3>4, SetSourceType, GotoType
  <2>2. CASE StillLeading(r)
    <3>1. /\ Goto(r, IF src[r].session = None THEN "load" ELSE "next")
          /\ {"load", "next"} \subseteq States
      BY <2>2 DEF StillLeading, States
    <3>2. /\ pc' \in [Replicas -> States]
          /\ pc'[r] = IF src[r].session = None THEN "load" ELSE "next"
          /\ \A q \in Replicas \ {r} : pc'[q] = pc[q]
      BY <3>1, GotoType
    <3>3. src' = src
      BY <2>2 DEF StillLeading
    <3>. QED
      BY <2>2, <3>2, <3>3 DEF StillLeading, TypeOK, Shape, InHand, outcome
  <2>3. CASE Load(r)
    <3>. DEFINE s == [src[r] EXCEPT !.start = ReopenAt(r)]
    <3>1. /\ ReopenAt(r) \in Positions \cup {FeedTail, MaxRecords}
          /\ ReopenAt(r) = FeedTail => FromTail
      BY <1>b, <1>a DEF ReopenAt, TypeOK, Source, Positions, None, FeedTail
    <3>2. s \in Source /\ s.start = ReopenAt(r)
      BY <1>b, <3>1 DEF Source
    <3>3. SetSource(r, s) /\ Goto(r, "open") /\ "open" \in States
      BY <2>3 DEF Load, States
    <3>3a. ReopenAt(r) # None
      BY <3>1 DEF Positions, None, FeedTail
    <3>3b. pc'[r] = "open" /\ src'[r] = s
      BY <3>2, <3>3, SetSourceType, GotoType
    <3>4. Shape(r)'
      BY <3>1, <3>2, <3>3a, <3>3b DEF Shape, InHand
    <3>5. TypeOK'
      BY <2>3, <3>2, <3>3, SetSourceType, GotoType DEF Load, TypeOK, outcome
    <3>. QED
      BY <3>2, <3>3, <3>4, <3>5, SetSourceType, GotoType
  <2>4. CASE Open(r)
    <3>. DEFINE at == IF src[r].start = FeedTail THEN Len(feed) ELSE src[r].start
                s == [src[r] EXCEPT !.session = at, !.start = None]
    <3>1. pc[r] = "open" /\ src[r].start # None
      BY <2>4, <1>b DEF Open, Shape
    <3>2. at \in Positions \cup {MaxRecords} /\ at # None
      BY <1>a, <1>b, <3>1 DEF Source, Positions, None
    <3>3. s \in Source /\ s.session = at
      BY <1>b, <3>2 DEF Source
    <3>4. SetSource(r, s) /\ Goto(r, "next") /\ "next" \in States
      BY <2>4 DEF Open, States
    <3>4a. src'[r] = s /\ pc'[r] = "next"
      BY <3>3, <3>4, SetSourceType, GotoType
    <3>5. Shape(r)'
      BY <3>2, <3>3, <3>4a DEF Shape, InHand
    <3>6. TypeOK'
      BY <2>4, <3>3, <3>4, SetSourceType, GotoType DEF Open, TypeOK, outcome
    <3>. QED
      BY <3>3, <3>4, <3>5, <3>6, SetSourceType, GotoType
  <2>5. CASE Cancelled(r)
    <3>1. Goto(r, "stopped") /\ "stopped" \in States
      BY <2>5 DEF Cancelled, States
    <3>. QED
      BY <2>5, <3>1, GotoType DEF Cancelled, TypeOK, Shape, InHand, outcome
  <2>6. CASE ReadRecord(r)
    <3>. DEFINE s == [src[r] EXCEPT !.record = src[r].session, !.tail = src[r].session,
                                    !.session = @ + 1]
    <3>1. src[r].session # None /\ src[r].session < Len(feed)
      BY <2>6, <1>b DEF ReadRecord, Shape
    <3>2. /\ src[r].session \in 0..(Len(feed) - 1) /\ src[r].session \in Positions
          /\ src[r].session + 1 \in Positions \cup {MaxRecords}
      BY <3>1, <1>a, <1>b DEF Source, Positions, None
    <3>3. s \in Source /\ s.record = src[r].session /\ s.session = src[r].session + 1
      BY <1>b, <3>2 DEF Source
    <3>4. SetSource(r, s) /\ Goto(r, "decode") /\ "decode" \in States
      BY <2>6 DEF ReadRecord, States
    <3>4a. src'[r] = s /\ pc'[r] = "decode"
      BY <3>3, <3>4, SetSourceType, GotoType
    <3>4b. feed' = feed
      BY <2>6 DEF ReadRecord
    <3>5. Shape(r)'
      BY <3>2, <3>3, <3>4a, <3>4b DEF Shape, InHand
    <3>6. TypeOK'
      BY <2>6, <3>2, <3>3, <3>4, SetSourceType, GotoType DEF ReadRecord, TypeOK
    <3>. QED
      BY <3>3, <3>4, <3>5, <3>6, SetSourceType, GotoType
  <2>7. CASE CloseAndRetry(r) /\ (NextLost(r) \/ AckFails(r) \/ ReceiveFails(r))
    <3>1. TypeOK'
      BY <2>7, CloseAndRetryType DEF NextLost, AckFails, ReceiveFails, Fault, TypeOK, outcome
    <3>2. Shape(r)'
      BY <2>7, CloseAndRetryType DEF Shape, InHand
    <3>. QED
      BY <2>7, <3>1, <3>2, CloseAndRetryType
  <2>. DEFINE inHand == /\ src[r].record \in Positions
                        /\ Event(r) \in Events
                        /\ \A st \in InHand : /\ Goto(r, st) => pc'[r] = st /\ pc' \in [Replicas -> States]
                                              /\ src' = src /\ Goto(r, st) => Shape(r)'
  <2>8. ASSUME pc[r] \in InHand PROVE inHand
    <3>1. src[r].record \in Positions /\ Event(r) \in Events
      BY <2>8, RecordInFeed
    <3>2. InHand \subseteq States
      BY DEF InHand, States
    <3>3. \A st \in InHand : Goto(r, st) => pc'[r] = st /\ pc' \in [Replicas -> States]
      BY <3>2, GotoType
    <3>4. \A st \in InHand : src' = src /\ Goto(r, st) => Shape(r)'
      BY <2>8, <1>b, <3>3 DEF Shape, InHand
    <3>. QED
      BY <3>1, <3>3, <3>4
  <2>9. ASSUME pc[r] \in InHand, Dispose(r)
        PROVE  /\ src' \in [Replicas -> Source] /\ pc' \in [Replicas -> States]
               /\ skipped' \in SUBSET Positions /\ Shape(r)'
               /\ \A q \in Replicas \ {r} : pc'[q] = pc[q] /\ src'[q] = src[q]
    <3>1. CASE SkipOnError
      <4>1. Goto(r, "ack") /\ src' = src /\ skipped' = skipped \cup {src[r].record}
        BY <2>9, <3>1 DEF Dispose
      <4>2. "ack" \in InHand /\ "ack" \in States
        BY DEF InHand, States
      <4>. QED
        BY <4>1, <4>2, <2>8, <2>9, GotoType DEF TypeOK
    <3>2. CASE ~SkipOnError
      <4>1. CloseAndRetry(r) /\ skipped' = skipped
        BY <2>9, <3>2 DEF Dispose
      <4>2. Shape(r)'
        BY <4>1, CloseAndRetryType DEF Shape, InHand
      <4>. QED
        BY <4>1, <4>2, CloseAndRetryType DEF TypeOK
    <3>. QED
      BY <3>1, <3>2
  <2>10. CASE Dispose(r) /\ (Decode(r) \/ HandlerFails(r) \/ SeenFails(r))
    <3>1. pc[r] \in InHand
      BY <2>10 DEF Decode, HandlerFails, SeenFails, InHand
    <3>. QED
      BY <2>10, <3>1, <2>9 DEF Decode, HandlerFails, SeenFails, Fault, TypeOK, outcome
  <2>11. CASE Decode(r) /\ ~Dispose(r)
    <3>1. PICK st \in {"ack", "handle"} : Goto(r, st)
      BY <2>11 DEF Decode
    <3>2. pc[r] \in InHand /\ st \in InHand /\ st \in States /\ src' = src
      BY <2>11, <3>1 DEF Decode, InHand, States
    <3>. QED
      BY <2>11, <3>1, <3>2, <2>8, GotoType DEF Decode, TypeOK
  <2>12. CASE HandlerOk(r)
    <3>1. PICK st \in {"mark", "ack"} : Goto(r, st)
      BY <2>12 DEF HandlerOk
    <3>2. pc[r] \in InHand /\ st \in InHand /\ st \in States /\ src' = src
      BY <2>12, <3>1 DEF HandlerOk, InHand, States
    <3>3. reruns' \in Nat
      BY <2>12 DEF HandlerOk, TypeOK
    <3>. QED
      BY <2>12, <3>1, <3>2, <3>3, <2>8, GotoType DEF HandlerOk, TypeOK
  <2>13. CASE Mark(r)
    <3>1. Goto(r, "ack") /\ pc[r] \in InHand /\ "ack" \in InHand /\ "ack" \in States /\ src' = src
      BY <2>13 DEF Mark, InHand, States
    <3>2. processed' \subseteq Events /\ faults' \in 0..MaxFaults
      BY <2>13, <3>1, <2>8 DEF Mark, Fault, TypeOK
    <3>. QED
      BY <2>13, <3>1, <3>2, <2>8, GotoType DEF Mark, TypeOK, outcome
  <2>14. CASE Ack(r)
    <3>. DEFINE s == [src[r] EXCEPT !.record = None, !.tail = None]
    <3>1. pc[r] \in InHand
      BY <2>14 DEF Ack, InHand
    <3>2. cursor' \in 0..MaxRecords
      BY <2>14, <3>1, <2>8 DEF Ack, Positions
    <3>3. s \in Source
      BY <1>b DEF Source
    <3>4. SetSource(r, s) /\ Goto(r, "receive") /\ "receive" \in States
      BY <2>14 DEF Ack, States
    <3>5. Shape(r)'
      BY <3>4, GotoType DEF Shape, InHand
    <3>6. TypeOK'
      BY <2>14, <3>2, <3>3, <3>4, SetSourceType, GotoType DEF Ack, TypeOK, outcome
    <3>. QED
      BY <3>3, <3>4, <3>5, <3>6, SetSourceType, GotoType
  <2>15. CASE PingFails(r)
    <3>1. TypeOK'
      BY <2>15 DEF PingFails, Fault, TypeOK, outcome
    <3>. QED
      BY <2>15, <3>1, <1>b DEF PingFails, Shape
  <2>16. CASE Crash(r)
    <3>1. NewSource \in Source /\ "down" \in States
      BY DEF NewSource, Source, States
    <3>2. SetSource(r, NewSource) /\ Goto(r, "down")
      BY <2>16 DEF Crash
    <3>3. Shape(r)'
      BY <3>1, <3>2, SetSourceType, GotoType DEF Shape, InHand, NewSource
    <3>4. TypeOK'
      BY <2>16, <3>1, <3>2, SetSourceType, GotoType DEF Crash, Fault, TypeOK, outcome
    <3>. QED
      BY <3>1, <3>2, <3>3, <3>4, SetSourceType, GotoType
  <2>17. CASE Restart(r)
    <3>1. Goto(r, "receive") /\ "receive" \in States
      BY <2>17 DEF Restart, States
    <3>2. TypeOK' /\ Shape(r)'
      BY <2>17, <3>1, GotoType DEF Restart, TypeOK, Shape, InHand, outcome
    <3>. QED
      BY <2>17, <3>1, <3>2, GotoType DEF Restart
  <2>18. /\ NextLost(r) \/ AckFails(r) \/ ReceiveFails(r) => CloseAndRetry(r)
         /\ HandlerFails(r) \/ SeenFails(r) => Dispose(r)
    BY DEF NextLost, AckFails, ReceiveFails, HandlerFails, SeenFails
  <2>. QED
    BY <1>2, <2>1, <2>2, <2>3, <2>4, <2>5, <2>6, <2>7, <2>10, <2>11, <2>12, <2>13,
       <2>14, <2>15, <2>16, <2>17, <2>18 DEF Step
<1>3. CASE LoseSession
  <2>1. TypeOK'
    BY <1>3 DEF LoseSession, Fault, TypeOK, outcome
  <2>2. \A q \in Replicas : Shape(q)'
    BY <1>3, <1>b DEF LoseSession, Shape
  <2>. QED
    BY <2>1, <2>2 DEF Shapes
<1>4. CASE UNCHANGED vars
  BY <1>4 DEF vars, TypeOK, Shapes, Shape
<1>. QED
  BY <1>1, <1>2, <1>3, <1>4 DEF Next

\* Every variable keeps its type: positions, in particular, stay within the feed.
THEOREM TypeCorrect == Spec => []TypeOK
<1>1. Spec => [](TypeOK /\ Shapes)
  BY TypeInit, TypeStep, PTL DEF Spec
<1>. QED
  BY <1>1, PTL
-----------------------------------------------------------------------------
(* The cursor and the handlers.                                            *)

\* What is settled stays settled: records are appended and results added.
LEMMA SettledStays ==
    ASSUME TypeOK, HandledMarks, handled \subseteq handled', skipped \subseteq skipped',
           \/ feed' = feed
           \/ \E e \in Events : feed' = Append(feed, e),
           NEW i \in Positions, Settled(i)
    PROVE  Settled(i)'
<1>1. feed \in Seq(Events) /\ Len(feed) \in Nat
  BY DEF TypeOK
<1>2. /\ Len(feed) <= Len(feed')
      /\ \A j \in Positions : j < Len(feed) => EventAt(j)' = EventAt(j)
  BY <1>1, BoundsAssumption DEF EventAt, Positions
<1>3. HandledEvents \subseteq HandledEvents'
  BY <1>2 DEF HandledEvents, HandledMarks, TypeOK
<1>4. i \in Int /\ Len(feed') \in Nat
  BY <1>1, BoundsAssumption DEF Positions
<1>. QED
  BY <1>1, <1>2, <1>3, <1>4 DEF Settled

\* A replica that a step leaves alone keeps its order.
LEMMA OrderKept ==
    ASSUME NEW q \in Replicas, Order(q), pc'[q] = pc[q], src'[q] = src[q],
           TypeOK, Shapes, \A i \in Positions : Settled(i) => Settled(i)'
    PROVE  Order(q)'
<1>1. pc[q] \in InHand => src[q].record \in Positions
  BY RecordInFeed
<1>. QED
  BY <1>1 DEF Order, SettledBelow, InHand

LEMMA ConsumerInit == Init => ConsumerInv
<1>. SUFFICES ASSUME Init PROVE ConsumerInv
  OBVIOUS
<1>1. Shapes
  BY TypeInit
<1>2. HandledMarks
  BY DEF Init, HandledMarks
<1>3. \A i \in Positions : ~(i < None)
  BY BoundsAssumption DEF Positions, None
<1>4. CursorNeverLeads /\ HandledInOrder
  BY <1>3 DEF Init, CursorNeverLeads, HandledInOrder, SettledBelow
<1>5. \A r \in Replicas : Order(r)
  BY <1>3 DEF Init, Order, SettledBelow, NewSource, InHand
<1>. QED
  BY <1>1, <1>2, <1>4, <1>5 DEF ConsumerInv, Shapes

LEMMA HandledMarksStep ==
    TypeOK /\ Shapes /\ HandledMarks /\ [Next]_vars => HandledMarks'
<1>. SUFFICES ASSUME TypeOK, Shapes, HandledMarks, [Next]_vars PROVE HandledMarks'
  OBVIOUS
<1>. USE BoundsAssumption
<1>a. feed \in Seq(Events) /\ Len(feed) \in Nat /\ handled \subseteq Positions
  BY DEF TypeOK
<1>1. CASE \E e \in Events : AppendRecord(e)
  <2>1. PICK e \in Events : AppendRecord(e)
    BY <1>1
  <2>2. /\ Len(feed') = Len(feed) + 1
        /\ \A j \in Positions : j < Len(feed) => EventAt(j)' = EventAt(j)
    BY <2>1, <1>a DEF AppendRecord, EventAt, Positions
  <2>3. HandledEvents' = HandledEvents
    BY <2>1, <2>2, <1>a DEF AppendRecord, outcome, HandledEvents, HandledMarks
  <2>4. \A i \in handled : i < Len(feed')
    BY <2>2, <1>a DEF HandledMarks, Positions
  <2>. QED
    BY <2>1, <2>3, <2>4 DEF AppendRecord, outcome, HandledMarks
<1>2. ASSUME NEW r \in Replicas, HandlerOk(r) PROVE HandledMarks'
  <2>1. src[r].record \in Positions /\ src[r].record < Len(feed)
    BY <1>2, RecordInFeed DEF HandlerOk, InHand
  <2>2. HandledEvents \subseteq HandledEvents'
    BY <1>2 DEF HandlerOk, HandledEvents, EventAt
  <2>3. \A q \in Replicas : pc'[q] = "mark" => q = r \/ pc[q] = "mark"
    BY <1>2 DEF HandlerOk, Goto, TypeOK
  <2>. QED
    BY <1>2, <2>1, <2>2, <2>3 DEF HandlerOk, HandledMarks
<1>3. ASSUME NEW r \in Replicas, Mark(r) PROVE HandledMarks'
  <2>1. Event(r) \in HandledEvents
    BY <1>3 DEF Mark, HandledMarks, HandledEvents, Event
  <2>2. processed' \subseteq HandledEvents /\ HandledEvents' = HandledEvents
    BY <1>3, <2>1 DEF Mark, HandledMarks, HandledEvents, EventAt, outcome
  <2>3. \A q \in Replicas : pc'[q] = "mark" => pc[q] = "mark"
    BY <1>3 DEF Mark, Goto, TypeOK
  <2>. QED
    BY <1>3, <2>2, <2>3 DEF Mark, HandledMarks, outcome
<1>4. ASSUME handled' = handled, processed' = processed, feed' = feed,
             \A q \in Replicas : pc'[q] = "mark" => pc[q] = "mark" /\ src'[q] = src[q]
      PROVE  HandledMarks'
  <2>1. HandledEvents' = HandledEvents
    BY <1>4 DEF HandledEvents, EventAt
  <2>. QED
    BY <1>4, <2>1 DEF HandledMarks
<1>5. ASSUME NEW r \in Replicas,
             \/ Acquire(r) \/ StillLeading(r) \/ Load(r) \/ Open(r) \/ Cancelled(r)
             \/ ReadRecord(r) \/ NextLost(r) \/ AckFails(r) \/ Ack(r)
             \/ ReceiveFails(r) \/ Crash(r) \/ Restart(r)
      PROVE  HandledMarks'
  <2>1. handled' = handled /\ processed' = processed /\ feed' = feed
    BY <1>5 DEF Acquire, StillLeading, Load, Open, Cancelled, ReadRecord, NextLost,
       AckFails, Ack, ReceiveFails, Crash, Restart, outcome
  <2>2. \E state \in States \ {"mark"} : Goto(r, state)
    BY <1>5 DEF Acquire, StillLeading, Load, Open, Cancelled, ReadRecord, NextLost,
       AckFails, Ack, ReceiveFails, Crash, Restart, CloseAndRetry, States
  <2>3. \A q \in Replicas \ {r} : src'[q] = src[q]
    BY <1>5 DEF Acquire, StillLeading, Load, Open, Cancelled, ReadRecord, NextLost,
       AckFails, Ack, ReceiveFails, Crash, Restart, CloseAndRetry, SetSource, TypeOK
  <2>. QED
    BY <1>4, <2>1, <2>2, <2>3 DEF Goto, TypeOK
<1>6. ASSUME NEW r \in Replicas, Decode(r) \/ HandlerFails(r) \/ SeenFails(r)
      PROVE  HandledMarks'
  <2>1. handled' = handled /\ processed' = processed /\ feed' = feed
    BY <1>6 DEF Decode, HandlerFails, SeenFails
  <2>2. \E state \in {"ack", "handle", "receive"} : Goto(r, state)
    BY <1>6 DEF Decode, HandlerFails, SeenFails, Dispose, CloseAndRetry
  <2>3. \A q \in Replicas \ {r} : src'[q] = src[q]
    BY <1>6 DEF Decode, HandlerFails, SeenFails, Dispose, CloseAndRetry, SetSource, TypeOK
  <2>. QED
    BY <1>4, <2>1, <2>2, <2>3 DEF Goto, TypeOK
<1>7. CASE LoseSession \/ UNCHANGED vars \/ \E r \in Replicas : PingFails(r)
  BY <1>7, <1>4 DEF LoseSession, vars, PingFails, outcome
<1>. QED
  BY <1>1, <1>2, <1>3, <1>5, <1>6, <1>7 DEF Next, Step

\* Who writes the feed, the cursor and the outcome of a record.
FrameFacts ==
    /\ feed' = feed \/ \E e \in Events : feed' = Append(feed, e)
    /\ cursor' = cursor \/ \E r \in Replicas : Ack(r)
    /\ handled' = handled \/ \E r \in Replicas : HandlerOk(r)
    /\ handled \subseteq handled' /\ skipped \subseteq skipped'

LEMMA StepFrame == [Next]_vars => FrameFacts
<1>. SUFFICES ASSUME [Next]_vars PROVE FrameFacts
  OBVIOUS
<1>1. ASSUME NEW e \in Events, AppendRecord(e) PROVE FrameFacts
  BY <1>1 DEF AppendRecord, FrameFacts, outcome
<1>2. ASSUME NEW r \in Replicas, Step(r) PROVE FrameFacts
  <2>1. CASE Acquire(r) \/ StillLeading(r) \/ Load(r) \/ Open(r) \/ Cancelled(r)
    BY <2>1 DEF Acquire, StillLeading, Load, Open, Cancelled, FrameFacts, outcome
  <2>2. CASE ReadRecord(r) \/ NextLost(r) \/ Mark(r) \/ Ack(r) \/ AckFails(r)
    BY <2>2 DEF ReadRecord, NextLost, Mark, Ack, AckFails, FrameFacts, outcome
  <2>3. CASE Decode(r) \/ HandlerFails(r)
    BY <2>3 DEF Decode, HandlerFails, Dispose, FrameFacts
  <2>4. CASE HandlerOk(r)
    BY <2>4 DEF HandlerOk, FrameFacts
  <2>. QED
    BY <1>2, <2>1, <2>2, <2>3, <2>4 DEF Step
<1>3. ASSUME NEW r \in Replicas, SeenFails(r) PROVE FrameFacts
  BY <1>3 DEF SeenFails, Dispose, FrameFacts
<1>4. ASSUME NEW r \in Replicas, PingFails(r) \/ ReceiveFails(r) \/ Crash(r) \/ Restart(r)
      PROVE  FrameFacts
  BY <1>4 DEF PingFails, ReceiveFails, Crash, Restart, FrameFacts, outcome
<1>5. CASE LoseSession \/ UNCHANGED vars
  BY <1>5 DEF LoseSession, vars, FrameFacts, outcome
<1>. QED
  BY <1>1, <1>2, <1>3, <1>4, <1>5 DEF Next

\* The inductive step: the cursor is written by Ack alone, with the position
\* after a record that is settled and has only settled records before it.
LEMMA OrderStep ==
    ASSUME TypeOK, Shapes, ConsumerInv, [Next]_vars, ~FromTail
    PROVE  /\ SettledBelow(cursor)'
           /\ \A i \in handled' : SettledBelow(i)'
           /\ \A r \in Replicas : Order(r)'
<1>. USE BoundsAssumption
<1>a. /\ HandledMarks /\ SettledBelow(cursor)
      /\ \A i \in handled : SettledBelow(i)
      /\ \A r \in Replicas : Order(r) /\ Shape(r) /\ src[r] \in Source
  BY DEF ConsumerInv, CursorNeverLeads, HandledInOrder, TypeOK
<1>b. \A i \in Positions : Settled(i) => Settled(i)'
  <2>1. handled \subseteq handled' /\ skipped \subseteq skipped'
    BY StepFrame DEF FrameFacts
  <2>2. feed' = feed \/ \E e \in Events : feed' = Append(feed, e)
    BY StepFrame DEF FrameFacts
  <2>. QED
    BY <1>a, <2>1, <2>2, SettledStays
<1>c. \A n \in Int : SettledBelow(n) => \A i \in Positions : i < n => Settled(i)'
  BY <1>b DEF SettledBelow
<1>1. SettledBelow(cursor)'
  <2>1. CASE cursor' = cursor
    BY <2>1, <1>a, <1>b DEF SettledBelow
  <2>2. ASSUME NEW r \in Replicas, Ack(r) PROVE SettledBelow(cursor)'
    <3>1. src[r].record \in Positions
      BY <2>2, RecordInFeed DEF Ack, InHand
    <3>2. SettledBelow(src[r].record) /\ Settled(src[r].record)
      BY <2>2, <1>a DEF Ack, Order, InHand
    <3>3. \A i \in Positions : i < src[r].record + 1 => Settled(i)
      BY <3>1, <3>2 DEF SettledBelow, Positions
    <3>. QED
      BY <2>2, <3>3, <1>b DEF Ack, SettledBelow
  <2>3. cursor' = cursor \/ \E r \in Replicas : Ack(r)
    BY StepFrame DEF FrameFacts
  <2>. QED
    BY <2>1, <2>2, <2>3
<1>2. \A i \in handled' : SettledBelow(i)'
  <2>1. CASE handled' = handled
    BY <2>1, <1>a, <1>b DEF SettledBelow
  <2>2. ASSUME NEW r \in Replicas, HandlerOk(r) PROVE \A i \in handled' : SettledBelow(i)'
    <3>1. SettledBelow(src[r].record)
      BY <2>2, <1>a DEF HandlerOk, Order, InHand
    <3>2. handled' = handled \cup {src[r].record}
      BY <2>2 DEF HandlerOk
    <3>3. \A i \in handled' : \A j \in Positions : j < i => Settled(j)
      BY <3>1, <3>2, <1>a DEF SettledBelow
    <3>. QED
      BY <3>3, <1>b DEF SettledBelow
  <2>3. handled' = handled \/ \E r \in Replicas : HandlerOk(r)
    BY StepFrame DEF FrameFacts
  <2>. QED
    BY <2>1, <2>2, <2>3
<1>d. \A q \in Replicas : pc'[q] = pc[q] /\ src'[q] = src[q] => Order(q)'
  BY <1>a, <1>b, OrderKept
<1>3. ASSUME NEW r \in Replicas, \/ Step(r) \/ PingFails(r) \/ SeenFails(r)
                                 \/ ReceiveFails(r) \/ Crash(r) \/ Restart(r)
      PROVE  Order(r)' /\ \A q \in Replicas \ {r} : pc'[q] = pc[q] /\ src'[q] = src[q]
  <2>0. \A q \in Replicas \ {r} : pc'[q] = pc[q] /\ src'[q] = src[q]
    BY <1>3 DEF Step, Acquire, StillLeading, Load, Open, Cancelled, ReadRecord, NextLost,
       Decode, HandlerOk, HandlerFails, Mark, Ack, AckFails, PingFails, SeenFails,
       ReceiveFails, Crash, Restart, Dispose, CloseAndRetry, Goto, SetSource, TypeOK
  <2>. SUFFICES Order(r)'
    BY <2>0
  <2>1. Order(r)
    BY <1>a
  <2>a. ASSUME pc'[r] = "receive", src'[r].session = None PROVE Order(r)'
    <3>1. \A i \in Positions : ~(i < None)
      BY DEF Positions, None
    <3>. QED
      BY <2>a, <3>1 DEF Order, SettledBelow, InHand
  <2>2. CASE CloseAndRetry(r)
    BY <2>2, <2>a, CloseAndRetryType
  <2>3. CASE pc'[r] \in {"load", "stopped", "down"}
    BY <2>3 DEF Order, InHand
  <2>4. CASE StillLeading(r) /\ pc'[r] = "next"
    <3>1. pc[r] = "receive" /\ src' = src
      BY <2>4 DEF StillLeading
    <3>. QED
      BY <2>4, <3>1, <2>1, <1>b DEF Order, SettledBelow, InHand
  <2>5. CASE Load(r)
    <3>. DEFINE s == [src[r] EXCEPT !.start = ReopenAt(r)]
    <3>1. ReopenAt(r) = IF cursor # None THEN cursor ELSE 0
      BY DEF ReopenAt
    <3>2. SettledBelow(ReopenAt(r))
      BY <3>1, <1>a DEF SettledBelow, Positions
    <3>3. ReopenAt(r) \in Positions \cup {MaxRecords}
      BY <3>1, <2>5, <1>a DEF TypeOK, Positions, None
    <3>4. s \in Source /\ s.start = ReopenAt(r)
      BY <1>a, <3>3 DEF Source
    <3>5. pc'[r] = "open" /\ src'[r] = s
      BY <2>5, <3>4, SetSourceType DEF Load, Goto, TypeOK
    <3>. QED
      BY <3>2, <3>4, <3>5, <1>b DEF Order, SettledBelow, InHand
  <2>6. CASE Open(r)
    <3>1. pc[r] = "open" /\ src[r].start # FeedTail
      BY <2>6, <1>a DEF Open, Shape
    <3>2. pc'[r] = "next" /\ src'[r].session = src[r].start
      BY <2>6, <3>1, <1>a DEF Open, Goto, SetSource, TypeOK, Source
    <3>. QED
      BY <3>1, <3>2, <2>1, <1>b DEF Order, SettledBelow, InHand
  <2>7. CASE ReadRecord(r)
    <3>1. pc'[r] = "decode" /\ src'[r].record = src[r].session /\ pc[r] = "next"
      BY <2>7, <1>a DEF ReadRecord, Goto, SetSource, TypeOK, Source
    <3>. QED
      BY <3>1, <2>1, <1>b DEF Order, SettledBelow, InHand
  <2>b. ASSUME pc[r] \in InHand, src' = src, pc'[r] \in InHand,
               pc'[r] = "ack" => Settled(src[r].record)'
        PROVE  Order(r)'
    BY <2>b, <2>1, <1>b DEF Order, SettledBelow, InHand
  <2>c. pc[r] \in InHand => src[r].record \in Positions /\ src[r].record < Len(feed)
    BY RecordInFeed
  <2>8. ASSUME pc[r] \in InHand, Dispose(r), SkipOnError PROVE Order(r)'
    <3>1. pc'[r] = "ack" /\ src' = src /\ src[r].record \in skipped'
      BY <2>8 DEF Dispose, Goto, TypeOK
    <3>. QED
      BY <2>8, <3>1, <2>b DEF Settled, InHand
  <2>9. CASE Dispose(r) /\ (Decode(r) \/ HandlerFails(r) \/ SeenFails(r))
    <3>1. pc[r] \in InHand
      BY <2>9 DEF Decode, HandlerFails, SeenFails, InHand
    <3>2. SkipOnError \/ CloseAndRetry(r)
      BY <2>9 DEF Dispose
    <3>. QED
      BY <2>9, <3>1, <3>2, <2>8, <2>2
  <2>10. CASE Decode(r) /\ ~Dispose(r)
    <3>1. /\ pc[r] = "decode" /\ src' = src
          /\ pc'[r] = IF Dedup /\ Event(r) \in processed THEN "ack" ELSE "handle"
      BY <2>10 DEF Decode, Goto, TypeOK
    <3>2. ASSUME Dedup, Event(r) \in processed PROVE Settled(src[r].record)
      BY <3>1, <3>2, <2>c, <1>a DEF HandledMarks, Settled, Event, InHand
    <3>3. src[r].record \in Positions
      BY <3>1, <2>c DEF InHand
    <3>4. pc'[r] = "ack" => Settled(src[r].record)'
      BY <3>1, <3>2, <3>3, <1>b
    <3>. QED
      BY <3>1, <3>4, <2>b DEF InHand
  <2>11. CASE HandlerOk(r)
    <3>1. /\ pc[r] = "handle" /\ src' = src /\ pc'[r] \in {"mark", "ack"}
          /\ src[r].record \in handled'
      BY <2>11 DEF HandlerOk, Goto, TypeOK
    <3>. QED
      BY <3>1, <2>b DEF Settled, InHand
  <2>12. CASE Mark(r)
    <3>1. pc[r] = "mark" /\ src' = src /\ pc'[r] = "ack" /\ src[r].record \in handled'
      BY <2>12, <1>a DEF Mark, Goto, TypeOK, HandledMarks, outcome
    <3>. QED
      BY <3>1, <2>b DEF Settled, InHand
  <2>13. CASE Ack(r)
    <3>1. /\ pc[r] = "ack" /\ pc'[r] = "receive"
          /\ src'[r].session = src[r].session
      BY <2>13, <1>a DEF Ack, Goto, SetSource, TypeOK, Source
    <3>2. src[r].record \in Positions /\ src[r].session = src[r].record + 1
      BY <3>1, RecordInFeed DEF InHand
    <3>3. SettledBelow(src[r].record) /\ Settled(src[r].record)
      BY <3>1, <2>1 DEF Order, InHand
    <3>4. \A i \in Positions : i < src[r].session => Settled(i)
      BY <3>2, <3>3 DEF SettledBelow, Positions
    <3>. QED
      BY <3>1, <3>4, <1>b DEF Order, SettledBelow, InHand
  <2>14. CASE PingFails(r)
    BY <2>14, <1>d DEF PingFails
  <2>15. CASE Restart(r)
    <3>1. pc'[r] = "receive" /\ src'[r].session = None
      BY <2>15, <1>a DEF Restart, Goto, TypeOK, Shape
    <3>. QED
      BY <3>1, <2>a
  <2>16. CASE Acquire(r) \/ Cancelled(r) \/ Crash(r)
    BY <2>16, <2>3 DEF Acquire, Cancelled, Crash, Goto, TypeOK
  <2>17. CASE StillLeading(r)
    BY <2>17, <2>3, <2>4 DEF StillLeading, Goto, TypeOK
  <2>18. CASE NextLost(r) \/ AckFails(r) \/ ReceiveFails(r)
    BY <2>18, <2>2 DEF NextLost, AckFails, ReceiveFails
  <2>19. CASE HandlerFails(r) \/ SeenFails(r)
    BY <2>19, <2>9 DEF HandlerFails, SeenFails
  <2>. QED
    BY <1>3, <2>5, <2>6, <2>7, <2>9, <2>10, <2>11, <2>12, <2>13, <2>14, <2>15, <2>16,
       <2>17, <2>18, <2>19 DEF Step
<1>4. CASE \E r \in Replicas : \/ Step(r) \/ PingFails(r) \/ SeenFails(r)
                                 \/ ReceiveFails(r) \/ Crash(r) \/ Restart(r)
  <2>1. \A r \in Replicas : Order(r)'
    BY <1>4, <1>3, <1>d
  <2>. QED
    BY <1>1, <1>2, <2>1
<1>5. CASE \/ \E e \in Events : AppendRecord(e)
           \/ LoseSession \/ UNCHANGED vars
  <2>1. pc' = pc /\ src' = src
    BY <1>5 DEF AppendRecord, LoseSession, vars
  <2>2. \A r \in Replicas : Order(r)'
    BY <2>1, <1>d
  <2>. QED
    BY <1>1, <1>2, <2>2
<1>. QED
  BY <1>4, <1>5 DEF Next

LEMMA ConsumerStep ==
    TypeOK /\ Shapes /\ ConsumerInv /\ [Next]_vars => ConsumerInv'
<1>. SUFFICES ASSUME TypeOK, Shapes, ConsumerInv, [Next]_vars PROVE ConsumerInv'
  OBVIOUS
<1>1. HandledMarks'
  BY HandledMarksStep DEF ConsumerInv
<1>2. Shapes'
  BY TypeStep
<1>3. CASE FromTail
  BY <1>1, <1>2, <1>3 DEF ConsumerInv, CursorNeverLeads, HandledInOrder, Shapes
<1>4. CASE ~FromTail
  BY <1>1, <1>2, <1>4, OrderStep DEF ConsumerInv, CursorNeverLeads, HandledInOrder, Shapes
<1>. QED
  BY <1>3, <1>4

\* Shapes is a part of ConsumerInv, which therefore holds with TypeOK.
LEMMA ConsumerAlways == Spec => [](TypeOK /\ Shapes /\ ConsumerInv)
<1>1. Init => TypeOK /\ Shapes /\ ConsumerInv
  BY TypeInit, ConsumerInit
<1>2. TypeOK /\ Shapes /\ ConsumerInv /\ [Next]_vars => (TypeOK /\ Shapes /\ ConsumerInv)'
  BY TypeStep, ConsumerStep
<1>. QED
  BY <1>1, <1>2, PTL DEF Spec

\* The persisted cursor never passes a record that is not settled, whatever
\* happens to leaders, sessions, acks and processes.
THEOREM CursorIsSafe == Spec => []CursorNeverLeads
<1>1. ConsumerInv => CursorNeverLeads
  BY DEF ConsumerInv
<1>. QED
  BY <1>1, ConsumerAlways, PTL

\* No handler succeeds on a record before every earlier one is settled.
THEOREM StreamOrder == Spec => []HandledInOrder
<1>1. ConsumerInv => HandledInOrder
  BY DEF ConsumerInv
<1>. QED
  BY <1>1, ConsumerAlways, PTL

-----------------------------------------------------------------------------
(* One reader.                                                             *)

\* While sessions die only with their holders, a live term holds the lock and its
\* reader is nowhere behind the cursor.
Ahead(r) ==
    live[r] => /\ lock = r
               /\ pc[r] = "open" => src[r].start = FeedTail \/ cursor <= src[r].start
               /\ pc[r] \in {"receive", "next"} =>
                      src[r].session = None \/ cursor <= src[r].session
               /\ pc[r] \in InHand => cursor <= src[r].record

LeaseInv == cursor <= Len(feed) /\ \A r \in Replicas : Ahead(r)

\* The other replicas notice nothing of a step that leaves them, the cursor and their
\* lock alone.
LEMMA AheadKept ==
    ASSUME NEW q \in Replicas, Ahead(q), pc'[q] = pc[q], src'[q] = src[q],
           live'[q] = live[q],
           live[q] => cursor' = cursor /\ (lock = q => lock' = q)
    PROVE  Ahead(q)'
BY DEF Ahead

LEMMA LeaseStep ==
    ASSUME ~SessionLoss
    PROVE  TypeOK /\ Shapes /\ LeaseInv /\ [Next]_vars => LeaseInv' /\ cursor' >= cursor
<1>. SUFFICES ASSUME TypeOK, Shapes, LeaseInv, [Next]_vars
              PROVE  LeaseInv' /\ cursor' >= cursor
  OBVIOUS
<1>. USE BoundsAssumption
<1>a. /\ Len(feed) \in Nat /\ feed \in Seq(Events)
      /\ cursor \in Int /\ cursor <= Len(feed)
      /\ \A r \in Replicas : Ahead(r) /\ src[r] \in Source /\ Shape(r)
  BY DEF TypeOK, LeaseInv, Shapes, None
<1>1. CASE \E e \in Events : AppendRecord(e)
  <2>1. /\ Len(feed') = Len(feed) + 1
        /\ UNCHANGED <<cursor, lock, live, pc, src>>
    BY <1>1, <1>a DEF AppendRecord
  <2>2. \A q \in Replicas : Ahead(q)'
    BY <1>a, <2>1, AheadKept
  <2>. QED
    BY <1>a, <2>1, <2>2 DEF LeaseInv
<1>2. CASE LoseSession \/ UNCHANGED vars
  <2>1. UNCHANGED <<feed, cursor, lock, live, pc, src>>
    BY <1>2 DEF LoseSession, vars
  <2>2. \A q \in Replicas : Ahead(q)'
    BY <1>a, <2>1, AheadKept
  <2>. QED
    BY <1>a, <2>1, <2>2 DEF LeaseInv
<1>3. ASSUME NEW r \in Replicas, \/ Step(r) \/ PingFails(r) \/ SeenFails(r)
                                 \/ ReceiveFails(r) \/ Crash(r) \/ Restart(r)
      PROVE  LeaseInv' /\ cursor' >= cursor
  <2>1. /\ feed' = feed
        /\ \A q \in Replicas \ {r} : pc'[q] = pc[q] /\ src'[q] = src[q] /\ live'[q] = live[q]
    BY <1>3 DEF Step, Acquire, StillLeading, Load, Open, Cancelled, ReadRecord, NextLost,
       Decode, HandlerOk, HandlerFails, Mark, Ack, AckFails, PingFails, SeenFails,
       ReceiveFails, Crash, Restart, Dispose, CloseAndRetry, Goto, SetSource, TypeOK
  <2>2. \/ lock' = lock
        \/ lock = NoReplica
        \/ lock = r
    BY <1>3 DEF Step, Acquire, StillLeading, Load, Open, Cancelled, ReadRecord, NextLost,
       Decode, HandlerOk, HandlerFails, Mark, Ack, AckFails, PingFails, SeenFails,
       ReceiveFails, Crash, Restart
  <2>3. cursor' = cursor \/ Ack(r)
    BY <1>3 DEF Step, Acquire, StillLeading, Load, Open, Cancelled, ReadRecord, NextLost,
       Decode, HandlerOk, HandlerFails, Mark, AckFails, PingFails, SeenFails,
       ReceiveFails, Crash, Restart
  <2>4. \A q \in Replicas \ {r} : Ahead(q)'
    <3>1. ASSUME NEW q \in Replicas \ {r}, live[q]
          PROVE  cursor' = cursor /\ (lock = q => lock' = q)
      <4>1. lock = q
        BY <1>a, <3>1 DEF Ahead
      <4>2. ~Ack(r)
        BY <1>a, <4>1 DEF Ack, Ahead
      <4>. QED
        BY <2>2, <2>3, <4>1, <4>2, ReplicasAssumption
    <3>. QED
      BY <1>a, <2>1, <3>1, AheadKept
  <2>. SUFFICES Ahead(r)' /\ cursor' >= cursor /\ cursor' <= Len(feed)
    BY <2>1, <2>4 DEF LeaseInv
  <2>5. CASE Ack(r)
    <3>1. /\ pc[r] = "ack" /\ pc[r] \in InHand /\ live[r] /\ cursor' = src[r].record + 1
          /\ live'[r] = live[r] /\ lock' = lock
      BY <2>5 DEF Ack, InHand
    <3>2. src[r].record \in Int /\ src[r].record < Len(feed) /\ src[r].session = src[r].record + 1
      BY <3>1, RecordInFeed DEF Positions
    <3>3. cursor <= src[r].record /\ lock = r
      BY <1>a, <3>1 DEF Ahead
    <3>4. pc'[r] = "receive" /\ src'[r].session = src[r].session
      BY <2>5, <1>a DEF Ack, Goto, SetSource, TypeOK, Source
    <3>5. Ahead(r)'
      BY <3>1, <3>2, <3>3, <3>4 DEF Ahead, InHand
    <3>. QED
      BY <1>a, <3>1, <3>2, <3>3, <3>5
  <2>. SUFFICES ASSUME ~Ack(r) PROVE Ahead(r)'
    BY <1>a, <2>3, <2>5
  <2>6. cursor' = cursor
    BY <2>3
  <2>7. CASE Acquire(r)
    <3>1. lock' = r /\ pc'[r] = "load"
      BY <2>7 DEF Acquire, Goto, TypeOK
    <3>. QED
      BY <3>1 DEF Ahead, InHand
  <2>8. CASE PingFails(r) \/ Crash(r)
    <3>1. ~live'[r]
      BY <2>8 DEF PingFails, Crash, TypeOK
    <3>. QED
      BY <3>1 DEF Ahead
  <2>. SUFFICES ASSUME live[r], live' = live, lock' = lock, lock = r,
                       ~Acquire(r), ~PingFails(r), ~Crash(r)
                PROVE  Ahead(r)'
    <3>1. ASSUME ~Acquire(r), ~PingFails(r), ~Crash(r) PROVE live' = live /\ lock' = lock
      BY <1>3, <3>1 DEF Step, StillLeading, Load, Open, Cancelled, ReadRecord, NextLost,
         Decode, HandlerOk, HandlerFails, Mark, Ack, AckFails, SeenFails,
         ReceiveFails, Restart
    <3>2. CASE ~live[r]
      BY <2>7, <2>8, <3>1, <3>2 DEF Ahead
    <3>. QED
      BY <2>7, <2>8, <3>1, <3>2, <1>a DEF Ahead
  <2>9. CASE StillLeading(r)
    <3>1. /\ src' = src /\ pc[r] = "receive"
          /\ pc'[r] = IF src[r].session = None THEN "load" ELSE "next"
      BY <2>9 DEF StillLeading, Goto, TypeOK
    <3>. QED
      BY <1>a, <2>6, <3>1 DEF Ahead, InHand
  <2>10. CASE Load(r)
    <3>1. /\ pc'[r] = "open" /\ src'[r].start = ReopenAt(r)
      BY <2>10, <1>a DEF Load, Goto, SetSource, TypeOK, Source
    <3>2. ReopenAt(r) = FeedTail \/ cursor <= ReopenAt(r)
      <4>1. src[r].tail # None => src[r].tail \in Positions
        BY <1>a DEF Source
      <4>. QED
        BY <1>a, <4>1 DEF ReopenAt, None, Positions
    <3>. QED
      BY <2>6, <3>1, <3>2 DEF Ahead, InHand
  <2>11. CASE Open(r)
    <3>1. /\ pc[r] = "open" /\ pc'[r] = "next"
          /\ src'[r].session = IF src[r].start = FeedTail THEN Len(feed) ELSE src[r].start
      BY <2>11, <1>a DEF Open, Goto, SetSource, TypeOK, Source
    <3>. QED
      BY <1>a, <2>6, <3>1 DEF Ahead, InHand
  <2>12. CASE ReadRecord(r)
    <3>1. /\ pc[r] = "next" /\ pc'[r] = "decode" /\ src'[r].record = src[r].session
          /\ src[r].session # None
      BY <2>12, <1>a DEF ReadRecord, Goto, SetSource, TypeOK, Source, Shape
    <3>. QED
      BY <1>a, <2>6, <3>1 DEF Ahead, InHand
  <2>13. CASE CloseAndRetry(r)
    BY <2>13, CloseAndRetryType DEF Ahead, InHand
  <2>14. ASSUME pc[r] \in InHand, src' = src, pc'[r] \in InHand PROVE Ahead(r)'
    BY <2>14, <1>a, <2>6 DEF Ahead, InHand
  <2>15. CASE Decode(r) \/ HandlerFails(r) \/ SeenFails(r)
    <3>1. CASE ~CloseAndRetry(r)
      <4>1. src' = src /\ pc[r] \in InHand /\ pc'[r] \in InHand
        BY <2>15, <3>1 DEF Decode, HandlerFails, SeenFails, Dispose, Goto, InHand, TypeOK
      <4>. QED
        BY <4>1, <2>14
    <3>. QED
      BY <3>1, <2>13
  <2>16. CASE HandlerOk(r) \/ Mark(r)
    <3>1. src' = src /\ pc[r] \in InHand /\ pc'[r] \in InHand
      BY <2>16 DEF HandlerOk, Mark, Goto, InHand, TypeOK
    <3>. QED
      BY <3>1, <2>14
  <2>17. CASE NextLost(r) \/ AckFails(r) \/ ReceiveFails(r)
    BY <2>17, <2>13 DEF NextLost, AckFails, ReceiveFails
  <2>18. CASE Cancelled(r)
    BY <2>18 DEF Cancelled
  <2>19. CASE Restart(r)
    <3>1. pc'[r] = "receive" /\ src'[r].session = None
      BY <2>19, <1>a DEF Restart, Goto, TypeOK, Shape
    <3>. QED
      BY <3>1 DEF Ahead, InHand
  <2>. QED
    BY <1>3, <2>9, <2>10, <2>11, <2>12, <2>15, <2>16, <2>17, <2>18, <2>19 DEF Step
<1>. QED
  BY <1>1, <1>2, <1>3 DEF Next

\* Without lost sessions the persisted cursor never goes back, through terms that end
\* anywhere, failed acks and crashes.
THEOREM CursorNeverGoesBack ==
    ASSUME ~SessionLoss
    PROVE  Spec => CursorMonotone
<1>1. Init => LeaseInv
  BY DEF Init, LeaseInv, Ahead, None
<1>2. TypeOK /\ Shapes /\ LeaseInv /\ [Next]_vars => LeaseInv' /\ [cursor' >= cursor]_vars
  BY LeaseStep
<1>. QED
  BY <1>1, <1>2, ConsumerAlways, PTL DEF Spec, CursorMonotone
-----------------------------------------------------------------------------
(* The second run of a handler.                                            *)

\* A replica whose term ended with a record in hand, or about to read one: it may
\* run a handler once more before it notices.
Stale == {r \in Replicas : ~live[r] /\ pc[r] \in {"next", "decode", "handle"}}

Marking(e) == \E r \in Replicas : live[r] /\ pc[r] = "mark" /\ Event(r) = e
Handling(e) == \E r \in Replicas : live[r] /\ pc[r] = "handle" /\ Event(r) = e

\* An event whose handler ran and that the leader may run again: its mark is missing
\* and nobody is about to write it, or the leader has asked for it already.
Owing == {e \in HandledEvents : (e \notin processed /\ ~Marking(e)) \/ Handling(e)}

\* Every fault pays for one second run: the one that happened, or the one to come.
RerunInv ==
    /\ IsFiniteSet(Stale) /\ IsFiniteSet(Owing)
    /\ reruns + Cardinality(Stale) + Cardinality(Owing) <= faults

LEMMA CardinalityGrows ==
    ASSUME NEW S, IsFiniteSet(S), NEW x, NEW T, T \subseteq S \cup {x}
    PROVE  /\ IsFiniteSet(T) /\ Cardinality(T) \in Nat /\ Cardinality(S) \in Nat
           /\ Cardinality(T) <= Cardinality(S) + 1
<1>1. /\ IsFiniteSet(S \cup {x}) /\ Cardinality(S) \in Nat
      /\ Cardinality(S \cup {x}) <= Cardinality(S) + 1
  <2>1. Cardinality(S) \in Nat
    BY FS_CardinalityType
  <2>2. /\ IsFiniteSet(S \cup {x})
        /\ Cardinality(S \cup {x}) = IF x \in S THEN Cardinality(S) ELSE Cardinality(S) + 1
    BY FS_AddElement
  <2>. QED
    BY <2>1, <2>2
<1>2. /\ IsFiniteSet(T) /\ Cardinality(T) <= Cardinality(S \cup {x})
  BY <1>1, FS_Subset
<1>3. Cardinality(T) \in Nat /\ Cardinality(S \cup {x}) \in Nat
  BY <1>1, <1>2, FS_CardinalityType
<1>. QED
  BY <1>1, <1>2, <1>3

LEMMA CardinalityShrinks ==
    ASSUME NEW S, IsFiniteSet(S), NEW x, x \in S, NEW T, T \subseteq S \ {x}
    PROVE  /\ IsFiniteSet(T) /\ Cardinality(T) \in Nat /\ Cardinality(S) \in Nat
           /\ Cardinality(T) <= Cardinality(S) - 1
<1>1. /\ IsFiniteSet(S \ {x}) /\ Cardinality(S) \in Nat
      /\ Cardinality(S \ {x}) = Cardinality(S) - 1
  BY FS_RemoveElement, FS_CardinalityType
<1>2. /\ IsFiniteSet(T) /\ Cardinality(T) <= Cardinality(S \ {x})
  BY <1>1, FS_Subset
<1>. QED
  BY <1>1, <1>2, FS_CardinalityType

LEMMA CardinalityStays ==
    ASSUME NEW S, IsFiniteSet(S), NEW T, T \subseteq S
    PROVE  /\ IsFiniteSet(T) /\ Cardinality(T) \in Nat /\ Cardinality(S) \in Nat
           /\ Cardinality(T) <= Cardinality(S)
BY FS_Subset, FS_CardinalityType

\* The four ways a step may move the balance.
LEMMA Balance ==
    ASSUME TypeOK, TypeOK', RerunInv,
           \/ /\ Stale' \subseteq Stale /\ Owing' \subseteq Owing
              /\ reruns' = reruns /\ faults' \in {faults, faults + 1}
           \/ /\ faults' = faults + 1 /\ reruns' = reruns
              /\ \E x : \/ Stale' \subseteq Stale \cup {x} /\ Owing' \subseteq Owing
                        \/ Stale' \subseteq Stale /\ Owing' \subseteq Owing \cup {x}
           \/ /\ faults' = faults /\ reruns' = reruns + 1
              /\ \/ \E x \in Stale : Stale' \subseteq Stale \ {x} /\ Owing' \subseteq Owing
                 \/ \E x \in Owing : Stale' \subseteq Stale /\ Owing' \subseteq Owing \ {x}
           \/ /\ faults' = faults /\ reruns' = reruns
              /\ \E x \in Stale : \E y : Stale' \subseteq Stale \ {x} /\ Owing' \subseteq Owing \cup {y}
    PROVE  RerunInv'
<1>a. reruns \in Nat /\ faults \in Nat /\ reruns' \in Nat /\ faults' \in Nat
  BY BoundsAssumption DEF TypeOK
<1>b. /\ IsFiniteSet(Stale) /\ IsFiniteSet(Owing)
      /\ reruns + Cardinality(Stale) + Cardinality(Owing) <= faults
  BY DEF RerunInv
<1>. DEFINE Kept(S, T) == /\ IsFiniteSet(T) /\ Cardinality(T) \in Nat /\ Cardinality(S) \in Nat
                          /\ Cardinality(T) <= Cardinality(S)
<1>1. CASE /\ Stale' \subseteq Stale /\ Owing' \subseteq Owing
           /\ reruns' = reruns /\ faults' \in {faults, faults + 1}
  <2>1. Kept(Stale, Stale') /\ Kept(Owing, Owing')
    BY <1>1, <1>b, CardinalityStays
  <2>. QED
    BY <1>1, <1>a, <1>b, <2>1 DEF RerunInv
<1>2. ASSUME NEW x, faults' = faults + 1, reruns' = reruns,
             Stale' \subseteq Stale \cup {x}, Owing' \subseteq Owing
      PROVE  RerunInv'
  <2>1. /\ IsFiniteSet(Stale') /\ Cardinality(Stale') \in Nat /\ Cardinality(Stale) \in Nat
        /\ Cardinality(Stale') <= Cardinality(Stale) + 1
    BY <1>2, <1>b, CardinalityGrows
  <2>2. Kept(Owing, Owing')
    BY <1>2, <1>b, CardinalityStays
  <2>. QED
    BY <1>2, <1>a, <1>b, <2>1, <2>2 DEF RerunInv
<1>3. ASSUME NEW x, faults' = faults + 1, reruns' = reruns,
             Stale' \subseteq Stale, Owing' \subseteq Owing \cup {x}
      PROVE  RerunInv'
  <2>1. /\ IsFiniteSet(Owing') /\ Cardinality(Owing') \in Nat /\ Cardinality(Owing) \in Nat
        /\ Cardinality(Owing') <= Cardinality(Owing) + 1
    BY <1>3, <1>b, CardinalityGrows
  <2>2. Kept(Stale, Stale')
    BY <1>3, <1>b, CardinalityStays
  <2>. QED
    BY <1>3, <1>a, <1>b, <2>1, <2>2 DEF RerunInv
<1>4. ASSUME NEW x \in Stale, faults' = faults, reruns' = reruns + 1,
             Stale' \subseteq Stale \ {x}, Owing' \subseteq Owing
      PROVE  RerunInv'
  <2>1. /\ IsFiniteSet(Stale') /\ Cardinality(Stale') \in Nat /\ Cardinality(Stale) \in Nat
        /\ Cardinality(Stale') <= Cardinality(Stale) - 1
    BY <1>4, <1>b, CardinalityShrinks
  <2>2. Kept(Owing, Owing')
    BY <1>4, <1>b, CardinalityStays
  <2>. QED
    BY <1>4, <1>a, <1>b, <2>1, <2>2 DEF RerunInv
<1>5. ASSUME NEW x \in Owing, faults' = faults, reruns' = reruns + 1,
             Stale' \subseteq Stale, Owing' \subseteq Owing \ {x}
      PROVE  RerunInv'
  <2>1. /\ IsFiniteSet(Owing') /\ Cardinality(Owing') \in Nat /\ Cardinality(Owing) \in Nat
        /\ Cardinality(Owing') <= Cardinality(Owing) - 1
    BY <1>5, <1>b, CardinalityShrinks
  <2>2. Kept(Stale, Stale')
    BY <1>5, <1>b, CardinalityStays
  <2>. QED
    BY <1>5, <1>a, <1>b, <2>1, <2>2 DEF RerunInv
<1>6. ASSUME NEW x \in Stale, NEW y, faults' = faults, reruns' = reruns,
             Stale' \subseteq Stale \ {x}, Owing' \subseteq Owing \cup {y}
      PROVE  RerunInv'
  <2>1. /\ IsFiniteSet(Stale') /\ Cardinality(Stale') \in Nat /\ Cardinality(Stale) \in Nat
        /\ Cardinality(Stale') <= Cardinality(Stale) - 1
    BY <1>6, <1>b, CardinalityShrinks
  <2>2. /\ IsFiniteSet(Owing') /\ Cardinality(Owing') \in Nat /\ Cardinality(Owing) \in Nat
        /\ Cardinality(Owing') <= Cardinality(Owing) + 1
    BY <1>6, <1>b, CardinalityGrows
  <2>. QED
    BY <1>6, <1>a, <1>b, <2>1, <2>2 DEF RerunInv
<1>. QED
  BY <1>1, <1>2, <1>3, <1>4, <1>5, <1>6

\* At most one replica leads.
LEMMA OneLeader ==
    ASSUME LeaseInv, NEW q \in Replicas, NEW r \in Replicas, live[q], live[r]
    PROVE  q = r /\ lock = r
BY DEF LeaseInv, Ahead

\* A step of r does not touch the others.
Elsewhere(r) ==
    \A q \in Replicas \ {r} : pc'[q] = pc[q] /\ src'[q] = src[q] /\ live'[q] = live[q]

LEMMA StaleKept ==
    ASSUME NEW r \in Replicas, Elsewhere(r)
    PROVE  /\ Stale' \subseteq Stale \cup {r}
           /\ (r \in Stale' => r \in Stale) => Stale' \subseteq Stale
           /\ r \notin Stale' => Stale' \subseteq Stale \ {r}
BY DEF Elsewhere, Stale

\* What the leader owes stays the same when it is not at its mark and does not come to
\* a handler.
LEMMA OwingKept ==
    ASSUME NEW r \in Replicas, Elsewhere(r), feed' = feed, handled' = handled,
           processed' = processed,
           ~(live'[r] /\ pc'[r] = "handle")
    PROVE  /\ Owing' \subseteq Owing \cup {Event(r)}
           /\ ~(live[r] /\ pc[r] = "mark") => Owing' \subseteq Owing
<1>1. HandledEvents' = HandledEvents
  BY DEF HandledEvents, EventAt
<1>2. \A q \in Replicas \ {r} : Event(q)' = Event(q)
  BY DEF Elsewhere, Event, EventAt
<1>3. ASSUME NEW e, Handling(e)' PROVE Handling(e)
  BY <1>2, <1>3 DEF Handling, Elsewhere
<1>4. ASSUME NEW e, Marking(e), e # Event(r) \/ ~(live[r] /\ pc[r] = "mark")
      PROVE  Marking(e)'
  BY <1>2, <1>4 DEF Marking, Elsewhere
<1>. QED
  BY <1>1, <1>3, <1>4 DEF Owing

LEMMA QuietStep ==
    ASSUME TypeOK, TypeOK', Shapes, RerunInv, NEW r \in Replicas,
           \/ Acquire(r) \/ StillLeading(r) \/ Load(r) \/ Open(r) \/ Cancelled(r)
           \/ ReadRecord(r) \/ NextLost(r) \/ Ack(r) \/ AckFails(r) \/ ReceiveFails(r)
           \/ Restart(r) \/ HandlerFails(r) \/ SeenFails(r)
           \/ Decode(r) /\ pc'[r] # "handle"
    PROVE  RerunInv'
<1>1. /\ feed' = feed /\ handled' = handled /\ processed' = processed /\ reruns' = reruns
      /\ faults' \in {faults, faults + 1}
  BY DEF Acquire, StillLeading, Load, Open, Cancelled, ReadRecord, NextLost, Ack, AckFails,
     ReceiveFails, Restart, HandlerFails, SeenFails, Decode, Fault, outcome
<1>2. Elsewhere(r)
  BY DEF Elsewhere, Acquire, StillLeading, Load, Open, Cancelled, ReadRecord, NextLost, Ack,
     AckFails, ReceiveFails, Restart, HandlerFails, SeenFails, Decode, Dispose, CloseAndRetry,
     Goto, SetSource, TypeOK
<1>3. pc[r] # "mark"
  BY DEF Acquire, StillLeading, Load, Open, Cancelled, ReadRecord, NextLost, Ack, AckFails,
     ReceiveFails, Restart, HandlerFails, SeenFails, Decode
<1>4. /\ pc'[r] # "handle"
      /\ pc'[r] \in {"next", "decode"} =>
             \/ live'[r]
             \/ pc[r] = "next" /\ live'[r] = live[r]
  <2>1. CASE Acquire(r) \/ StillLeading(r) \/ Open(r)
    BY <2>1 DEF Acquire, StillLeading, Open, Goto, TypeOK
  <2>2. CASE ReadRecord(r)
    BY <2>2 DEF ReadRecord, Goto, TypeOK
  <2>3. CASE Load(r) \/ Cancelled(r) \/ NextLost(r) \/ Ack(r) \/ AckFails(r)
             \/ ReceiveFails(r) \/ Restart(r)
    BY <2>3 DEF Load, Cancelled, NextLost, Ack, AckFails, ReceiveFails, Restart,
       CloseAndRetry, Goto, TypeOK
  <2>4. CASE HandlerFails(r) \/ SeenFails(r) \/ (Decode(r) /\ pc'[r] # "handle")
    BY <2>4 DEF HandlerFails, SeenFails, Decode, Dispose, CloseAndRetry, Goto, TypeOK
  <2>. QED
    BY <2>1, <2>2, <2>3, <2>4
<1>5. r \in Stale' => r \in Stale
  BY <1>4 DEF Stale
<1>6. Stale' \subseteq Stale /\ Owing' \subseteq Owing
  BY <1>1, <1>2, <1>3, <1>4, <1>5, StaleKept, OwingKept
<1>. QED
  BY <1>1, <1>6, Balance

LEMMA DecodeStep ==
    ASSUME Dedup, TypeOK, TypeOK', Shapes, LeaseInv, RerunInv, NEW r \in Replicas,
           Decode(r), pc'[r] = "handle"
    PROVE  RerunInv'
<1>1. /\ feed' = feed /\ handled' = handled /\ processed' = processed /\ reruns' = reruns
      /\ faults' = faults /\ live' = live /\ pc[r] = "decode"
      /\ \A q \in Replicas \ {r} : pc'[q] = pc[q]
  BY DEF Decode, Goto, TypeOK, Dispose, CloseAndRetry
<1>2. src' = src /\ Event(r) \notin processed
  BY DEF Decode, Goto, TypeOK, Dispose, CloseAndRetry
<1>3. Stale' \subseteq Stale
  BY <1>1 DEF Stale
<1>4. HandledEvents' = HandledEvents /\ \A q \in Replicas : Event(q)' = Event(q)
  BY <1>1, <1>2 DEF HandledEvents, EventAt, Event
<1>5. ASSUME NEW e \in Owing' PROVE e \in Owing
  <2>1. e \in HandledEvents
    BY <1>4, <1>5 DEF Owing
  <2>2. Marking(e) => Marking(e)'
    BY <1>1, <1>4 DEF Marking
  <2>3. CASE e \notin processed /\ ~Marking(e)'
    BY <2>1, <2>2, <2>3 DEF Owing
  <2>4. CASE Handling(e)'
    <3>1. PICK l \in Replicas : live[l] /\ pc'[l] = "handle" /\ Event(l) = e
      BY <1>1, <1>4, <2>4 DEF Handling
    <3>2. CASE l = r
      <4>1. ~Marking(e)
        BY <3>1, <3>2, <1>1, OneLeader DEF Marking
      <4>. QED
        BY <2>1, <3>1, <3>2, <4>1, <1>2 DEF Owing
    <3>3. CASE l # r
      BY <2>1, <3>1, <3>3, <1>1 DEF Owing, Handling
    <3>. QED
      BY <3>2, <3>3
  <2>. QED
    BY <1>1, <1>5, <2>3, <2>4 DEF Owing
<1>. QED
  BY <1>1, <1>3, <1>5, Balance

LEMMA HandlerOkStep ==
    ASSUME Dedup, TypeOK, TypeOK', Shapes, HandledMarks, LeaseInv, RerunInv,
           NEW r \in Replicas, HandlerOk(r)
    PROVE  RerunInv'
<1>1. /\ feed' = feed /\ handled' = handled \cup {src[r].record} /\ processed' = processed
      /\ reruns' = IF Event(r) \in HandledEvents THEN reruns + 1 ELSE reruns
      /\ faults' = faults /\ live' = live /\ src' = src
      /\ pc[r] = "handle" /\ pc'[r] = "mark"
      /\ \A q \in Replicas \ {r} : pc'[q] = pc[q]
  BY DEF HandlerOk, Goto, TypeOK
<1>2. /\ HandledEvents' = HandledEvents \cup {Event(r)}
      /\ \A q \in Replicas : Event(q)' = Event(q)
  BY <1>1 DEF HandledEvents, EventAt, Event
<1>3. Elsewhere(r) /\ r \notin Stale'
  BY <1>1 DEF Elsewhere, Stale
<1>4. Stale' \subseteq Stale \ {r} /\ Stale' \subseteq Stale
  BY <1>3, StaleKept
<1>5. \A e : /\ Marking(e) => Marking(e)'
             /\ Handling(e)' => Handling(e)
  BY <1>1, <1>2 DEF Marking, Handling
<1>6. Owing' \subseteq Owing \cup {Event(r)}
  BY <1>1, <1>2, <1>5 DEF Owing
<1>7. CASE live[r]
  <2>1. Marking(Event(r))' /\ ~Handling(Event(r))'
    <3>1. Marking(Event(r))'
      BY <1>1, <1>2, <1>7 DEF Marking
    <3>2. ~Handling(Event(r))'
      BY <1>1, <1>7, OneLeader DEF Handling
    <3>. QED
      BY <3>1, <3>2
  <2>2. Event(r) \notin Owing'
    <3>1. ASSUME NEW e, e = Event(r) PROVE e \notin Owing'
      BY <2>1, <3>1, <1>2 DEF Owing
    <3>. QED
      BY <3>1
  <2>3. Owing' \subseteq Owing \ {Event(r)}
    BY <1>6, <2>2
  <2>4. CASE Event(r) \in HandledEvents
    <3>1. Event(r) \in Owing
      BY <1>1, <1>7, <2>4 DEF Owing, Handling
    <3>. QED
      BY <1>1, <1>4, <2>3, <2>4, <3>1, Balance
  <2>5. CASE Event(r) \notin HandledEvents
    BY <1>1, <1>4, <2>3, <2>5, Balance
  <2>. QED
    BY <2>4, <2>5
<1>8. CASE ~live[r]
  <2>1. r \in Stale
    BY <1>1, <1>8 DEF Stale
  <2>2. CASE Event(r) \in HandledEvents
    <3>1. Owing' \subseteq Owing
      BY <1>1, <1>2, <1>5, <2>2 DEF Owing
    <3>. QED
      BY <1>1, <1>4, <2>1, <2>2, <3>1, Balance
  <2>3. CASE Event(r) \notin HandledEvents
    BY <1>1, <1>4, <1>6, <2>1, <2>3, Balance
  <2>. QED
    BY <2>2, <2>3
<1>. QED
  BY <1>7, <1>8

LEMMA MarkStep ==
    ASSUME TypeOK, TypeOK', Shapes, RerunInv, NEW r \in Replicas, Mark(r)
    PROVE  RerunInv'
<1>1. /\ feed' = feed /\ handled' = handled /\ reruns' = reruns
      /\ live' = live /\ src' = src /\ pc[r] = "mark" /\ pc'[r] = "ack"
      /\ \A q \in Replicas \ {r} : pc'[q] = pc[q]
  BY DEF Mark, Goto, TypeOK, outcome
<1>2. Elsewhere(r) /\ r \notin Stale'
  BY <1>1 DEF Elsewhere, Stale
<1>3. Stale' \subseteq Stale
  BY <1>2, StaleKept
<1>4. CASE processed' = processed /\ faults' = faults + 1
  <2>1. Owing' \subseteq Owing \cup {Event(r)}
    BY <1>1, <1>2, <1>4, OwingKept
  <2>. QED
    BY <1>1, <1>3, <1>4, <2>1, Balance
<1>5. CASE processed' = processed \cup {Event(r)} /\ faults' = faults
  <2>1. HandledEvents' = HandledEvents /\ \A q \in Replicas : Event(q)' = Event(q)
    BY <1>1 DEF HandledEvents, EventAt, Event
  <2>2. \A e : Handling(e)' => Handling(e)
    BY <1>1, <2>1 DEF Handling
  <2>3. \A e : e # Event(r) /\ Marking(e) => Marking(e)'
    BY <1>1, <2>1 DEF Marking
  <2>4. Owing' \subseteq Owing
    BY <1>5, <2>1, <2>2, <2>3 DEF Owing
  <2>. QED
    BY <1>1, <1>3, <1>5, <2>4, Balance
<1>. QED
  BY <1>4, <1>5 DEF Mark, Fault

\* A term that ends costs a stale reader, or the mark its leader was about to write.
LEMMA TermEndStep ==
    ASSUME TypeOK, TypeOK', Shapes, LeaseInv, RerunInv, NEW r \in Replicas,
           PingFails(r) \/ Crash(r)
    PROVE  RerunInv'
<1>1. /\ feed' = feed /\ handled' = handled /\ processed' = processed /\ reruns' = reruns
      /\ faults' = faults + 1 /\ ~live'[r] /\ Elsewhere(r)
  <2>1. PingFails(r) => lock = r
    BY DEF PingFails, LeaseInv, Ahead
  <2>. QED
    BY <2>1 DEF PingFails, Crash, Fault, outcome, Elsewhere, Goto, SetSource, TypeOK
<1>2. /\ Owing' \subseteq Owing \cup {Event(r)}
      /\ ~(live[r] /\ pc[r] = "mark") => Owing' \subseteq Owing
  BY <1>1, OwingKept
<1>3. Stale' \subseteq Stale \cup {r} /\ (pc'[r] \notin {"next", "decode", "handle"} => Stale' \subseteq Stale)
  BY <1>1, StaleKept DEF Stale
<1>4. pc[r] = "mark" => pc'[r] \in {"mark", "down"}
  BY DEF PingFails, Crash, Goto, TypeOK
<1>5. CASE pc[r] = "mark"
  BY <1>1, <1>2, <1>3, <1>4, <1>5, Balance
<1>6. CASE pc[r] # "mark"
  BY <1>1, <1>2, <1>3, <1>6, Balance
<1>. QED
  BY <1>5, <1>6

LEMMA AppendStep ==
    ASSUME TypeOK, TypeOK', Shapes, HandledMarks, RerunInv, NEW e \in Events, AppendRecord(e)
    PROVE  RerunInv'
<1>1. /\ UNCHANGED <<processed, live, pc, src, handled, reruns, faults>>
      /\ feed' = Append(feed, e)
  BY DEF AppendRecord, outcome
<1>2. \A i \in Nat : i < Len(feed) => EventAt(i)' = EventAt(i)
  BY <1>1 DEF EventAt, TypeOK
<1>3. HandledEvents' = HandledEvents
  BY <1>1, <1>2, BoundsAssumption DEF HandledEvents, HandledMarks, TypeOK, Positions
<1>4. \A q \in Replicas : pc[q] \in {"handle", "mark"} => Event(q)' = Event(q)
  BY <1>1, <1>2, RecordInFeed, BoundsAssumption DEF Event, InHand, Positions
<1>5. Stale' = Stale
  BY <1>1 DEF Stale
<1>6. \A x : Handling(x)' = Handling(x) /\ Marking(x)' = Marking(x)
  BY <1>1, <1>4 DEF Handling, Marking
<1>7. Owing' = Owing
  BY <1>1, <1>3, <1>6 DEF Owing
<1>. QED
  BY <1>1, <1>5, <1>7, Balance

\* Dedup keeps the second runs of a handler down to the faults: a crash, a failed mark
\* or a term that ends costs one, and nothing else costs any.
THEOREM RerunsBounded ==
    ASSUME Dedup, ~SessionLoss
    PROVE  Spec => []RerunsAreFaults
<1>1. Init => RerunInv
  <2>. SUFFICES ASSUME Init PROVE RerunInv
    OBVIOUS
  <2>1. Stale = {} /\ Owing = {} /\ reruns = 0 /\ faults = 0
    BY DEF Init, Stale, Owing, HandledEvents
  <2>. QED
    BY <2>1, FS_EmptySet DEF RerunInv
<1>2. TypeOK /\ Shapes /\ ConsumerInv /\ LeaseInv /\ RerunInv /\ [Next]_vars => RerunInv'
  <2>. SUFFICES ASSUME TypeOK, Shapes, ConsumerInv, LeaseInv, RerunInv, [Next]_vars
                PROVE  RerunInv'
    OBVIOUS
  <2>a. TypeOK' /\ HandledMarks
    BY TypeStep DEF ConsumerInv
  <2>1. ASSUME NEW e \in Events, AppendRecord(e) PROVE RerunInv'
    BY <2>a, <2>1, AppendStep
  <2>2. ASSUME NEW r \in Replicas, Step(r) PROVE RerunInv'
    BY <2>a, <2>2, QuietStep, DecodeStep, HandlerOkStep, MarkStep DEF Step
  <2>3. ASSUME NEW r \in Replicas,
               PingFails(r) \/ SeenFails(r) \/ ReceiveFails(r) \/ Crash(r) \/ Restart(r)
        PROVE  RerunInv'
    BY <2>a, <2>3, QuietStep, TermEndStep
  <2>4. CASE UNCHANGED vars
    <3>1. Stale' = Stale /\ Owing' = Owing
      BY <2>4 DEF vars, outcome, Stale, Owing, HandledEvents, EventAt, Marking, Handling, Event
    <3>. QED
      BY <2>4, <3>1 DEF vars, outcome, RerunInv
  <2>5. ~LoseSession
    BY DEF LoseSession
  <2>. QED
    BY <2>1, <2>2, <2>3, <2>4, <2>5 DEF Next
<1>3. Init => LeaseInv
  BY DEF Init, LeaseInv, Ahead, None
<1>4. TypeOK /\ Shapes /\ LeaseInv /\ [Next]_vars => LeaseInv'
  BY LeaseStep
<1>5. TypeOK /\ RerunInv => RerunsAreFaults
  BY FS_CardinalityType, BoundsAssumption DEF TypeOK, RerunInv, RerunsAreFaults
<1>. QED
  BY <1>1, <1>2, <1>3, <1>4, <1>5, ConsumerAlways, PTL DEF Spec

-----------------------------------------------------------------------------
(* A replica on its own that starts at the tail of the feed.               *)

\* n is a place to read on from: not behind the cursor, and past nothing that was
\* read and is not settled.
Resumable(n) == cursor <= n /\ \A i \in read : i < n => Settled(i)

\* Wherever the replica is, the place it will read on from is one; before its first
\* ack the first record in hand is kept as that place.
TailOrder(r) ==
    /\ pc[r] = "open" => \/ src[r].start = FeedTail /\ cursor = None /\ read = {}
                         \/ Resumable(src[r].start)
    /\ pc[r] \in {"receive", "next"} => src[r].session = None \/ Resumable(src[r].session)
    /\ pc[r] \in InHand => Resumable(src[r].record)
    /\ pc[r] = "ack" => Settled(src[r].record)
    /\ cursor = None => \/ src[r].tail = None /\ read = {}
                        \/ src[r].tail # None /\ Resumable(src[r].tail)

TailInv == NothingReadIsLost /\ \A r \in Replicas : TailOrder(r)

LEMMA TailStep ==
    ASSUME ~Crashes, \A q, r \in Replicas : q = r,
           TypeOK, TypeOK', Shapes, HandledMarks, TailInv, [Next]_vars
    PROVE  TailInv'
<1>. USE BoundsAssumption
<1>a. /\ cursor \in Int /\ read \subseteq Positions /\ Len(feed) \in Nat
      /\ NothingReadIsLost
      /\ \A r \in Replicas : TailOrder(r) /\ Shape(r) /\ src[r] \in Source
  BY DEF TypeOK, TailInv, Shapes, None
<1>b. \A i \in Positions : Settled(i) => Settled(i)'
  <2>1. handled \subseteq handled' /\ skipped \subseteq skipped'
    BY StepFrame DEF FrameFacts
  <2>2. feed' = feed \/ \E e \in Events : feed' = Append(feed, e)
    BY StepFrame DEF FrameFacts
  <2>. QED
    BY <1>a, <2>1, <2>2, SettledStays
<1>c. ASSUME cursor' = cursor, read' = read
      PROVE  /\ NothingReadIsLost'
             /\ \A n \in Int : Resumable(n) => cursor' <= n /\ \A i \in read' : i < n => Settled(i)'
  BY <1>c, <1>a, <1>b DEF NothingReadIsLost, Resumable
<1>d. ASSUME cursor' = cursor, read' = read, NEW r \in Replicas, pc'[r] = pc[r], src'[r] = src[r]
      PROVE  TailOrder(r)'
  <2>. DEFINE On(n) == cursor' <= n /\ \A i \in read' : i < n => Settled(i)'
  <2>1. /\ src[r].start \in Int /\ src[r].session \in Int /\ src[r].record \in Int
        /\ src[r].tail \in Int
    BY <1>a DEF Source, Positions, None, FeedTail
  <2>2. \A n \in Int : Resumable(n) => On(n)
    BY <1>c, <1>d
  <2>3. pc[r] = "ack" => Settled(src[r].record)'
    <3>1. pc[r] = "ack" => src[r].record \in Positions /\ Settled(src[r].record)
      BY <1>a, RecordInFeed DEF TailOrder, InHand
    <3>. QED
      BY <1>b, <1>d, <3>1
  <2>. QED
    BY <1>a, <1>d, <2>1, <2>2, <2>3 DEF TailOrder, Resumable
<1>1. CASE \/ \E e \in Events : AppendRecord(e)
           \/ LoseSession \/ UNCHANGED vars \/ \E r \in Replicas : PingFails(r)
  <2>1. cursor' = cursor /\ read' = read /\ pc' = pc /\ src' = src
    BY <1>1 DEF AppendRecord, LoseSession, vars, PingFails, outcome
  <2>. QED
    BY <2>1, <1>c, <1>d DEF TailInv
<1>2. ASSUME NEW r \in Replicas, \/ Step(r) \/ SeenFails(r) \/ ReceiveFails(r) \/ Restart(r)
      PROVE  TailInv'
  <2>. SUFFICES NothingReadIsLost' /\ TailOrder(r)'
    BY DEF TailInv
  <2>. DEFINE On(n) == cursor' <= n /\ \A i \in read' : i < n => Settled(i)'
  <2>t. \A n \in Int : On(n) => Resumable(n)'
    BY DEF Resumable
  <2>1. CASE Ack(r)
    <3>1. /\ pc[r] = "ack" /\ pc[r] \in InHand /\ pc'[r] = "receive" /\ read' = read
          /\ cursor' = src[r].record + 1 /\ src'[r].session = src[r].session
      BY <2>1, <1>a DEF Ack, Goto, SetSource, TypeOK, Source, InHand, outcome
    <3>2. src[r].record \in Positions /\ src[r].session = src[r].record + 1
      BY <3>1, RecordInFeed
    <3>3. Resumable(src[r].record) /\ Settled(src[r].record)
      BY <1>a, <3>1 DEF TailOrder
    <3>4. \A i \in read : i < src[r].record + 1 => Settled(i)'
      BY <3>2, <3>3, <1>a, <1>b DEF Resumable, Positions
    <3>5. cursor' # None
      BY <3>1, <3>2 DEF Positions, None
    <3>6. src[r].record + 1 \in Int
      BY <3>2 DEF Positions
    <3>. QED
      BY <3>1, <3>2, <3>4, <3>5, <3>6 DEF NothingReadIsLost, TailOrder, Resumable, InHand
  <2>2. CASE ReadRecord(r)
    <3>1. /\ pc[r] = "next" /\ src[r].session # None /\ cursor' = cursor
          /\ pc'[r] = "decode" /\ src'[r].record = src[r].session
          /\ src'[r].tail = src[r].session /\ read' = read \cup {src[r].session}
      BY <2>2, <1>a DEF ReadRecord, Goto, SetSource, TypeOK, Source, Shape
    <3>2. Resumable(src[r].session) /\ src[r].session \in Int
      BY <1>a, <3>1 DEF TailOrder, Source, Positions, None
    <3>3. On(src[r].session)
      BY <3>1, <3>2, <1>a, <1>b DEF Resumable
    <3>4. NothingReadIsLost'
      BY <3>1, <3>2, <1>a, <1>b DEF NothingReadIsLost, Resumable
    <3>. QED
      BY <3>1, <3>2, <3>3, <3>4 DEF TailOrder, Resumable, InHand
  <2>. SUFFICES ASSUME cursor' = cursor, read' = read
                PROVE  TailOrder(r)'
    <3>1. ASSUME ~Ack(r), ~ReadRecord(r) PROVE cursor' = cursor /\ read' = read
      BY <1>2, <3>1 DEF Step, SeenFails, ReceiveFails, Restart, Acquire, StillLeading, Load, Open,
         Cancelled, NextLost, Decode, HandlerOk, HandlerFails, Mark, AckFails, outcome
    <3>. QED
      BY <2>1, <2>2, <3>1, <1>c
  <2>3. \A n \in Int : Resumable(n) => On(n)
    BY <1>c
  <2>4. /\ src[r].start \in Int /\ src[r].session \in Int /\ src[r].record \in Int
        /\ src[r].tail \in Int
    BY <1>a DEF Source, Positions, None, FeedTail
  <2>5. \/ ~Ack(r) /\ ~ReadRecord(r) /\ src'[r].tail = src[r].tail
        \/ TailOrder(r)'
    <3>1. ASSUME ~Ack(r), ~ReadRecord(r) PROVE src'[r].tail = src[r].tail
      <4>1. CASE Acquire(r) \/ Load(r) \/ Open(r)
        <5>1. Acquire(r) => src'[r].tail = src[r].tail
          BY <1>a DEF Acquire, SetSource, TypeOK, Source
        <5>2. Load(r) => src'[r].tail = src[r].tail
          BY <1>a DEF Load, SetSource, TypeOK, Source
        <5>3. Open(r) => src'[r].tail = src[r].tail
          BY <1>a DEF Open, SetSource, TypeOK, Source
        <5>. QED
          BY <4>1, <5>1, <5>2, <5>3
      <4>2. CASE CloseAndRetry(r)
        BY <4>2, <1>a DEF CloseAndRetry, SetSource, TypeOK, Source
      <4>3. Acquire(r) \/ Load(r) \/ Open(r) \/ CloseAndRetry(r) \/ src' = src
        BY <1>2, <3>1 DEF Step, SeenFails, ReceiveFails, Restart, StillLeading, Cancelled,
           NextLost, Decode, HandlerOk, HandlerFails, Mark, AckFails, Dispose
      <4>. QED
        BY <4>1, <4>2, <4>3
    <3>. QED
      BY <3>1, <2>1, <2>2
  <2>. SUFFICES ASSUME ~Ack(r), ~ReadRecord(r), src'[r].tail = src[r].tail
                PROVE  TailOrder(r)'
    BY <2>5
  <2>6. cursor' = None => \/ src'[r].tail = None /\ read' = {}
                          \/ src'[r].tail # None /\ On(src'[r].tail)
    BY <1>a, <2>3, <2>4 DEF TailOrder
  <2>7. ASSUME pc'[r] \in {"load", "stopped", "down"} PROVE TailOrder(r)'
    BY <2>6, <2>7 DEF TailOrder, Resumable, InHand
  <2>8. ASSUME pc'[r] = "receive", src'[r].session = None PROVE TailOrder(r)'
    BY <2>6, <2>8 DEF TailOrder, Resumable, InHand
  <2>9. CASE CloseAndRetry(r)
    BY <2>8, <2>9, CloseAndRetryType
  <2>10. ASSUME pc[r] \in InHand, pc'[r] \in InHand, src' = src,
                pc'[r] = "ack" => Settled(src[r].record)'
         PROVE  TailOrder(r)'
    <3>1. On(src[r].record)
      BY <2>10, <1>a, <2>3, <2>4 DEF TailOrder
    <3>. QED
      BY <2>6, <2>10, <3>1 DEF TailOrder, Resumable, InHand
  <2>11. CASE Acquire(r) \/ Cancelled(r)
    BY <2>7, <2>11 DEF Acquire, Cancelled, Goto, TypeOK
  <2>12. CASE StillLeading(r)
    <3>1. /\ pc[r] = "receive" /\ src' = src
          /\ pc'[r] = IF src[r].session = None THEN "load" ELSE "next"
      BY <2>12 DEF StillLeading, Goto, TypeOK
    <3>2. src[r].session # None => On(src[r].session)
      BY <3>1, <1>a, <2>3, <2>4 DEF TailOrder
    <3>. QED
      BY <2>6, <2>7, <3>1, <3>2 DEF TailOrder, Resumable, InHand
  <2>13. CASE Load(r)
    <3>1. pc'[r] = "open" /\ src'[r].start = ReopenAt(r)
      BY <2>13, <1>a DEF Load, Goto, SetSource, TypeOK, Source
    <3>2. \/ ReopenAt(r) = FeedTail /\ cursor = None /\ read = {}
          \/ Resumable(ReopenAt(r)) /\ ReopenAt(r) \in Int
      <4>1. CASE cursor # None
        <5>1. Resumable(cursor)
          BY <1>a DEF Resumable, NothingReadIsLost
        <5>. QED
          BY <4>1, <5>1, <1>a DEF ReopenAt
      <4>2. CASE cursor = None /\ ~FromTail
        BY <4>2, <1>a DEF ReopenAt, Resumable, Positions, None
      <4>3. CASE cursor = None /\ FromTail
        BY <4>3, <1>a, <2>4 DEF ReopenAt, TailOrder
      <4>. QED
        BY <4>1, <4>2, <4>3
    <3>3. \/ ReopenAt(r) = FeedTail /\ cursor' = None /\ read' = {}
          \/ On(ReopenAt(r))
      BY <3>2, <2>3
    <3>. QED
      BY <2>6, <3>1, <3>3 DEF TailOrder, Resumable, InHand
  <2>14. CASE Open(r)
    <3>1. /\ pc[r] = "open" /\ pc'[r] = "next"
          /\ src'[r].session = IF src[r].start = FeedTail THEN Len(feed) ELSE src[r].start
      BY <2>14, <1>a DEF Open, Goto, SetSource, TypeOK, Source
    <3>2. Resumable(src'[r].session) /\ src'[r].session \in Int
      <4>1. CASE src[r].start = FeedTail
        <5>1. cursor = None /\ read = {}
          BY <4>1, <3>1, <1>a DEF TailOrder, Resumable, TypeOK, None, FeedTail
        <5>. QED
          BY <3>1, <4>1, <5>1, <1>a DEF Resumable, None
      <4>2. CASE src[r].start # FeedTail
        BY <3>1, <4>2, <1>a, <2>4 DEF TailOrder
      <4>. QED
        BY <4>1, <4>2
    <3>. QED
      BY <2>3, <2>6, <3>1, <3>2 DEF TailOrder, Resumable, InHand
  <2>15. CASE Restart(r)
    <3>1. pc'[r] = "receive" /\ src'[r].session = None
      BY <2>15, <1>a DEF Restart, Goto, TypeOK, Shape
    <3>. QED
      BY <3>1, <2>8
  <2>16. CASE NextLost(r) \/ AckFails(r) \/ ReceiveFails(r)
    BY <2>16, <2>9 DEF NextLost, AckFails, ReceiveFails
  <2>17. CASE Dispose(r) /\ (Decode(r) \/ HandlerFails(r) \/ SeenFails(r))
    <3>1. pc[r] \in InHand
      BY <2>17 DEF Decode, HandlerFails, SeenFails, InHand
    <3>2. CASE SkipOnError
      <4>1. pc'[r] = "ack" /\ src' = src /\ src[r].record \in skipped'
        BY <2>17, <3>2 DEF Dispose, Goto, TypeOK
      <4>. QED
        BY <3>1, <4>1, <2>10 DEF Settled, InHand
    <3>3. CASE ~SkipOnError
      BY <2>17, <3>3, <2>9 DEF Dispose
    <3>. QED
      BY <3>2, <3>3
  <2>18. CASE Decode(r) /\ ~Dispose(r)
    <3>1. /\ pc[r] = "decode" /\ src' = src
          /\ pc'[r] = IF Dedup /\ Event(r) \in processed THEN "ack" ELSE "handle"
      BY <2>18 DEF Decode, Goto, TypeOK
    <3>2. src[r].record \in Positions /\ src[r].record < Len(feed)
      BY <3>1, RecordInFeed DEF InHand
    <3>3. ASSUME Dedup, Event(r) \in processed PROVE Settled(src[r].record)
      BY <3>2, <3>3 DEF HandledMarks, Settled, Event
    <3>. QED
      BY <3>1, <3>2, <3>3, <1>b, <2>10 DEF InHand
  <2>19. CASE HandlerOk(r)
    <3>1. /\ pc[r] = "handle" /\ src' = src /\ pc'[r] \in {"mark", "ack"}
          /\ src[r].record \in handled'
      BY <2>19 DEF HandlerOk, Goto, TypeOK
    <3>. QED
      BY <3>1, <2>10 DEF Settled, InHand
  <2>20. CASE Mark(r)
    <3>1. pc[r] = "mark" /\ src' = src /\ pc'[r] = "ack" /\ src[r].record \in handled'
      BY <2>20 DEF Mark, Goto, TypeOK, HandledMarks, outcome
    <3>. QED
      BY <3>1, <2>10 DEF Settled, InHand
  <2>21. HandlerFails(r) \/ SeenFails(r) => Dispose(r)
    BY DEF HandlerFails, SeenFails
  <2>. QED
    BY <1>2, <2>11, <2>12, <2>13, <2>14, <2>15, <2>16, <2>17, <2>18, <2>19, <2>20, <2>21
       DEF Step
<1>. QED
  BY <1>1, <1>2 DEF Next, Crash

\* A replica alone never loses what it has read to a start at the tail: whatever of
\* its term, its calls and its acks fails before the first ack, it reopens no further
\* than the first record it had in hand.  A crash does forget that place.
THEOREM NothingReadIsPassed ==
    ASSUME ~Crashes, \A q, r \in Replicas : q = r
    PROVE  Spec => []NothingReadIsLost
<1>1. Init => TailInv
  BY DEF Init, TailInv, NothingReadIsLost, TailOrder, NewSource, InHand, None
<1>2. TypeOK /\ Shapes /\ ConsumerInv /\ TailInv /\ [Next]_vars => TailInv'
  BY TypeStep, TailStep DEF ConsumerInv
<1>3. TailInv => NothingReadIsLost
  BY DEF TailInv
<1>. QED
  BY <1>1, <1>2, <1>3, ConsumerAlways, PTL DEF Spec
=============================================================================
