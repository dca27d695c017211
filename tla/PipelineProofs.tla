--------------------------- MODULE PipelineProofs ---------------------------
(* Theorems about the compositions: EventPipeline, for all publishers,       *)
(* consumers, events, streams, bounds and fault budgets, and InboxTail.  The *)
(* facts about the parts come from OutboxProofs and InboxProofs, instantiated *)
(* as the compositions instantiate Outbox and Inbox.                          *)
EXTENDS EventPipeline, InboxTail, TLAPS

OP == INSTANCE OutboxProofs WITH
  Replicas <- PlPublishers, Events <- PlEvents, DestOrder <- PlDestOrder,
  Subjects <- PlSubjects, NoSubject <- PlNoSubject, SubjectOf <- PlSubjectOf,
  Accepts <- DestAccepts, Unroutable <- {}, Rejected <- {}, NoReplica <- PlNoReplica,
  MaxAttempts <- 1, BatchSize <- 2, CleanupBatchSize <- 1, SerialWriters <- TRUE,
  SessionLoss <- PlSessionLoss, LongStall <- PlSessionLoss, MaxFaults <- PlMaxFaults,
  nextId <- plNextId, tx <- plTx, outboxId <- plOutboxId, record <- plRecord,
  delivery <- plDelivery, received <- plReceived, lock <- plOutLock, pc <- plOutPc,
  pass <- plPass, faults <- plFaults

IP == INSTANCE InboxProofs WITH
  Replicas <- PlConsumers, Events <- PlEvents, Malformed <- {}, NoReplica <- PlNoReplica,
  Dedup <- TRUE, SkipOnError <- FALSE, FromTail <- FALSE, SessionLoss <- PlSessionLoss,
  Crashes <- TRUE, MaxRecords <- PlMaxRecords, MaxFaults <- PlMaxFaults,
  feed <- plFeed, cursor <- plCursor, processed <- plProcessed, lock <- plInLock,
  live <- plLive, pc <- plInPc, src <- plSrc, read <- plRead, handled <- plHandled,
  skipped <- plSkipped, reruns <- plReruns, faults <- plFaults

TP == INSTANCE InboxProofs WITH
  Replicas <- {TlReplica}, Events <- TlEvents, Malformed <- {}, NoReplica <- TlNoReplica,
  Dedup <- FALSE, SkipOnError <- FALSE, FromTail <- TRUE, SessionLoss <- FALSE,
  Crashes <- FALSE, MaxRecords <- TlMaxRecords, MaxFaults <- TlMaxFaults,
  feed <- tlFeed, cursor <- tlCursor, processed <- tlProcessed, lock <- tlLock,
  live <- tlLive, pc <- tlPc, src <- tlSrc, read <- tlRead, handled <- tlHandled,
  skipped <- tlSkipped, reruns <- tlReruns, faults <- tlFaults

-----------------------------------------------------------------------------
(* What Outbox and Inbox assume of their constants.                          *)

LEMMA OutReplicas == PlNoReplica \notin PlPublishers
BY ReplicasAssumption

LEMMA OutDests ==
  /\ PlDestOrder \in Seq(OP!Dests)
  /\ Len(PlDestOrder) > 0
  /\ \A i, j \in 1..Len(PlDestOrder) : PlDestOrder[i] = PlDestOrder[j] => i = j
<1>1. CASE PlDestOrder = <<PlS2>>
  BY <1>1 DEF OP!Dests
<1>2. CASE PlDestOrder = <<PlS2, PlNats>>
  BY <1>2, DestsAssumption DEF OP!Dests
<1>3. CASE PlDestOrder = <<PlNats, PlS2>>
  BY <1>3, DestsAssumption DEF OP!Dests
<1> QED
  BY <1>1, <1>2, <1>3, DestsAssumption

LEMMA OutEvents ==
  /\ PlNoSubject \notin PlSubjects
  /\ PlSubjectOf \in [PlEvents -> PlSubjects \cup {PlNoSubject}]
  /\ DestAccepts \in [PlEvents -> SUBSET OP!Dests]
<1>1. DOMAIN PlDestOrder = 1..Len(PlDestOrder)
  BY OutDests
<1> QED
  BY <1>1, EventsAssumption DEF DestAccepts, OP!Dests

LEMMA OutLimits ==
  /\ 1 \in Nat \ {0} /\ 2 \in Nat \ {0} /\ 1 \in Nat \ {0}
  /\ PlMaxFaults \in Nat
BY LimitsAssumption

LEMMA OutSwitches == {TRUE, PlSessionLoss, PlSessionLoss} \subseteq BOOLEAN
BY LimitsAssumption

LEMMA InReplicas == PlNoReplica \notin PlConsumers
BY ReplicasAssumption

LEMMA InEvents == {} \subseteq PlEvents
OBVIOUS

LEMMA InSwitches == {TRUE, FALSE, FALSE, PlSessionLoss, TRUE} \subseteq BOOLEAN
BY LimitsAssumption

LEMMA InBounds == PlMaxRecords \in Nat /\ PlMaxFaults \in Nat
BY LimitsAssumption

\* S2 takes every event.
LEMMA S2Accepts == PlS2 \in OP!Dests /\ \A e \in PlEvents : PlS2 \in DestAccepts[e]
<1>1. \E i \in 1..Len(PlDestOrder) : PlDestOrder[i] = PlS2
  BY DestsAssumption
<1>2. DOMAIN PlDestOrder = 1..Len(PlDestOrder)
  BY OutDests
<1> QED
  BY <1>1, <1>2, DestsAssumption DEF DestAccepts, OP!Dests

-----------------------------------------------------------------------------
(* The invariants of the two parts.                                          *)

OutInv == OP!TypeInv /\ OP!DeliveryInv /\ OP!OrderInv
InInv == IP!TypeOK /\ IP!Shapes /\ IP!ConsumerInv

LEMMA OutInvInit == OP!Init => OutInv
BY OP!TypeInit, OP!DeliveryInit, OP!OrderInit, OutReplicas, OutDests, OutEvents, OutLimits,
   OutSwitches DEF OutInv

LEMMA OutInvNext == OutInv /\ [OP!Next]_(OP!vars) => OutInv'
<1>1. OP!TypeInv /\ [OP!Next]_(OP!vars) => OP!TypeInv'
  BY OP!TypeStep, OutReplicas, OutDests, OutEvents, OutLimits, OutSwitches
<1>2. OP!TypeInv /\ OP!TypeInv' /\ OP!DeliveryInv /\ [OP!Next]_(OP!vars) => OP!DeliveryInv'
  BY OP!DeliveryStep, OutReplicas, OutDests, OutEvents, OutLimits, OutSwitches
<1>3. OP!TypeInv /\ OP!DeliveryInv /\ OP!OrderInv /\ [OP!Next]_(OP!vars) => OP!OrderInv'
  BY OP!OrderStep, OutReplicas, OutDests, OutEvents, OutLimits, OutSwitches
<1> QED
  BY <1>1, <1>2, <1>3 DEF OutInv

LEMMA InInvInit == IP!Init => InInv
BY IP!TypeInit, IP!ConsumerInit, InReplicas, InEvents, InSwitches, InBounds DEF InInv

LEMMA InInvNext == InInv /\ [IP!Next]_(IP!vars) => InInv'
<1>1. IP!TypeOK /\ IP!Shapes /\ [IP!Next]_(IP!vars) => IP!TypeOK' /\ IP!Shapes'
  BY IP!TypeStep, InReplicas, InEvents, InSwitches, InBounds
<1>2. IP!TypeOK /\ IP!Shapes /\ IP!ConsumerInv /\ [IP!Next]_(IP!vars) => IP!ConsumerInv'
  BY IP!ConsumerStep, InReplicas, InEvents, InSwitches, InBounds
<1> QED
  BY <1>1, <1>2 DEF InInv

\* The budget of faults is shared; nothing else of a part changes with the other.
LEMMA OutInvKept ==
  ASSUME OutInv, UNCHANGED outVars, plFaults' \in 0..PlMaxFaults
  PROVE  OutInv'
<1> USE DEF outVars
<1>1. OP!TypeInv'
  BY DEF OutInv, OP!TypeInv, OP!TypeOK, OP!HandlesARow
<1>2. OP!DeliveryInv'
  BY DEF OutInv, OP!DeliveryInv, OP!AtLeastOnce, OP!MarkedMeansReceived, OP!OnlyCommitted,
         OP!RowsOfCommitted, OP!PassInv, OP!Dest, OP!Del, OP!ReceivedEverywhere
<1>3. OP!OrderInv'
  BY DEF OutInv, OP!OrderInv, OP!SerialInv, OP!NoGap, OP!GapPass, OP!Owed, OP!Dealt,
         OP!Trying, OP!InWindow, OP!Dest, OP!Del, OP!Held
<1> QED
  BY <1>1, <1>2, <1>3 DEF OutInv

LEMMA InInvKept ==
  ASSUME InInv, UNCHANGED <<inVars, plFeed>>, plFaults' \in 0..PlMaxFaults
  PROVE  InInv'
<1> USE DEF inVars
<1>1. IP!TypeOK' /\ IP!Shapes'
  BY DEF InInv, IP!TypeOK, IP!Shapes, IP!Shape
<1>2. IP!ConsumerInv'
  BY DEF InInv, IP!ConsumerInv, IP!HandledMarks, IP!CursorNeverLeads, IP!HandledInOrder,
         IP!Shape, IP!Order, IP!SettledBelow, IP!Settled, IP!EventAt, IP!HandledEvents
<1> QED
  BY <1>1, <1>2 DEF InInv

-----------------------------------------------------------------------------
(* The steps of the pipeline, told by what they move.  The operators of the  *)
(* runs' Outbox and Inbox are those of the proofs': O!X and OP!X, I!X and     *)
(* IP!X have the same definition.                                             *)

\* A producer's transaction.
Producing ==
  /\ \E e \in PlEvents : OP!Insert(e) \/ OP!Commit(e) \/ OP!Rollback(e)
  /\ UNCHANGED <<inVars, plFeed, plFaults>>

\* A publish of e, which goes into the consumed stream or elsewhere, or fails.
Sending(e) ==
  /\ e \in PlEvents
  /\ OP!Next
  /\ UNCHANGED <<inVars, plNextId, plTx, plOutboxId, plFaults>>
  /\ \/ /\ StreamID(e) = PlStream
        /\ plReceived' = [plReceived EXCEPT ![PlS2] = @ \cup {e}]
        /\ Len(plFeed) < PlMaxRecords /\ plFeed' = Append(plFeed, e)
     \/ /\ plReceived'[PlS2] = plReceived[PlS2] \/ StreamID(e) # PlStream
        /\ plReceived'[PlS2] \subseteq plReceived[PlS2] \cup {e}
        /\ plReceived[PlS2] \subseteq plReceived'[PlS2]
        /\ plFeed' = plFeed

\* Everything else the outbox does.
Draining ==
  /\ OP!Next
  /\ UNCHANGED <<inVars, plFeed, plNextId, plTx, plOutboxId, plReceived>>

\* The inbox's steps; the handler's result is one of them.
Handling(r) == IP!HandlerOk(r) /\ UNCHANGED <<outVars, plFaults>>

Consuming ==
  /\ IP!Next
  /\ plSkipped' = plSkipped
  /\ UNCHANGED <<outVars, plFeed, plHandled>>

LEMMA CardinalitySame == ASSUME NEW S PROVE O!Cardinality(S) = OP!Cardinality(S)
BY DEF O!Cardinality, OP!Cardinality

LEMMA ProducingSteps ==
  ASSUME NEW e \in PlEvents, PipeProduce(e)
  PROVE  Producing
<1> USE DEF PipeProduce, Producing
<1>1. CASE O!Insert(e)
  <2>1. OP!Insert(e)
    BY <1>1 DEF O!Insert, OP!Insert, O!tables, OP!tables
  <2>2. plFaults' = plFaults
    BY <1>1 DEF O!Insert
  <2> QED
    BY <2>1, <2>2
<1>2. CASE O!Commit(e)
  <2>1. OP!Commit(e)
    BY <1>2 DEF O!Commit, OP!Commit, O!Dests, OP!Dests, O!NewRow, OP!NewRow, O!NoRow, OP!NoRow
  <2>2. plFaults' = plFaults
    BY <1>2 DEF O!Commit
  <2> QED
    BY <2>1, <2>2
<1>3. CASE O!Rollback(e)
  <2>1. OP!Rollback(e)
    BY <1>3 DEF O!Rollback, OP!Rollback, O!tables, OP!tables
  <2>2. plFaults' = plFaults
    BY <1>3 DEF O!Rollback
  <2> QED
    BY <2>1, <2>2
<1> QED
  BY <1>1, <1>2, <1>3

LEMMA DrainingSteps ==
  ASSUME NEW r \in PlPublishers, PipeOutStep(r) \/ PipeOutFault(r)
  PROVE  Draining
<1>a. UNCHANGED <<inVars, plFeed>>
  BY DEF PipeOutStep, PipeOutFault
<1> DEFINE Still == UNCHANGED <<plNextId, plTx, plOutboxId, plReceived>>
<1> USE DEF O!Goto, OP!Goto, O!SetPass, OP!SetPass, O!NewPass, OP!NewPass, O!producers,
            OP!producers, O!tables, OP!tables
<1>s. /\ O!Del(r) = OP!Del(r) /\ O!Dest(r) = OP!Dest(r) /\ O!Rest(r) = OP!Rest(r)
      /\ O!Dests = OP!Dests
  BY DEF O!Del, OP!Del, O!Dest, OP!Dest, O!Rest, OP!Rest, O!Dests, OP!Dests
<1>1. O!TryLock(r) => OP!TryLock(r) /\ Still
  BY DEF O!TryLock, OP!TryLock
<1>2. O!Ping(r) => OP!Ping(r) /\ Still
  BY DEF O!Ping, OP!Ping
<1>3. O!Query(r) => OP!Query(r) /\ Still
  <2>1. O!FirstRows(O!Pending(r), 2) = OP!FirstRows(OP!Pending(r), 2)
    BY CardinalitySame
       DEF O!FirstRows, OP!FirstRows, O!Pending, OP!Pending, O!Dest, OP!Dest, O!Held, OP!Held
  <2> QED
    BY <2>1, CardinalitySame
       DEF O!Query, OP!Query, O!EndDest, OP!EndDest, O!Dest, OP!Dest
<1>4. O!LoadRecords(r) => OP!LoadRecords(r) /\ Still
  BY DEF O!LoadRecords, OP!LoadRecords
<1>5. O!EndWindow(r) => OP!EndWindow(r) /\ Still
  BY DEF O!EndWindow, OP!EndWindow, O!EndDest, OP!EndDest
<1>6. O!SkipHeld(r) => OP!SkipHeld(r) /\ Still
  BY <1>s DEF O!SkipHeld, OP!SkipHeld, O!AtRow, OP!AtRow, O!Held, OP!Held
<1>7. O!MissingRecord(r) => OP!MissingRecord(r) /\ Still
  BY <1>s DEF O!MissingRecord, OP!MissingRecord, O!AtRow, OP!AtRow, O!Held, OP!Held
<1>8. O!Attempt(r) => OP!Attempt(r) /\ Still
  BY <1>s DEF O!Attempt, OP!Attempt, O!AtRow, OP!AtRow, O!Held, OP!Held
<1>9. O!SaveAck(r) => OP!SaveAck(r) /\ Still
  BY <1>s DEF O!SaveAck, OP!SaveAck, O!Save, OP!Save
<1>10. O!SaveFailure(r) => OP!SaveFailure(r) /\ Still
  BY <1>s, Zenon DEF O!SaveFailure, OP!SaveFailure, O!Save, OP!Save, O!Block, OP!Block
<1>11. O!CountOutstanding(r) => OP!CountOutstanding(r) /\ Still
  BY <1>s, Zenon DEF O!CountOutstanding, OP!CountOutstanding
<1>12. O!MarkDelivered(r) => OP!MarkDelivered(r) /\ Still
  BY <1>s DEF O!MarkDelivered, OP!MarkDelivered
<1>13. O!DrainTick(r) => OP!DrainTick(r) /\ Still
  BY DEF O!DrainTick, OP!DrainTick
<1>14. O!SelectExpired(r) => OP!SelectExpired(r) /\ Still
  BY CardinalitySame DEF O!SelectExpired, OP!SelectExpired, O!MayBeExpired, OP!MayBeExpired
<1>15. O!Purge(r) => OP!Purge(r) /\ Still
  BY DEF O!Purge, OP!Purge, O!NoRow, OP!NoRow, O!Dests, OP!Dests
<1>16. O!Restart(r) => OP!Restart(r) /\ Still
  BY DEF O!Restart, OP!Restart
<1>17. O!StatementFails(r) => OP!StatementFails(r) /\ Still
  BY DEF O!StatementFails, OP!StatementFails, O!Fault, OP!Fault
<1>18. O!PurgeFails(r) => OP!PurgeFails(r) /\ Still
  BY DEF O!PurgeFails, OP!PurgeFails, O!Fault, OP!Fault
<1>19. O!Crash(r) => OP!Crash(r) /\ Still
  BY DEF O!Crash, OP!Crash, O!Fault, OP!Fault
<1>20. OP!Next /\ Still
  <2>1. OP!Step(r) \/ OP!StatementFails(r) \/ OP!PurgeFails(r) \/ OP!Crash(r) \/ OP!Restart(r)
    BY <1>1, <1>2, <1>3, <1>4, <1>5, <1>6, <1>7, <1>8, <1>9, <1>10, <1>11, <1>12, <1>13,
       <1>14, <1>15, <1>16, <1>17, <1>18, <1>19
       DEF PipeOutStep, PipeOutFault, OP!Step
  <2>2. Still
    BY <1>1, <1>2, <1>3, <1>4, <1>5, <1>6, <1>7, <1>8, <1>9, <1>10, <1>11, <1>12, <1>13,
       <1>14, <1>15, <1>16, <1>17, <1>18, <1>19
       DEF PipeOutStep, PipeOutFault
  <2> QED
    BY <2>1, <2>2 DEF OP!Next
<1> QED
  BY <1>a, <1>20 DEF Draining

LEMMA SendingSteps ==
  ASSUME OP!TypeInv, NEW r \in PlPublishers, PipePublish(r) \/ PipePublishFails(r)
  PROVE  \E e \in PlEvents : Sending(e)
<1> DEFINE e == OP!Del(r).event
           d == OP!Dest(r)
<1>1. O!Del(r) = OP!Del(r) /\ O!Dest(r) = d
  BY DEF O!Del, OP!Del, O!Dest, OP!Dest
<1>2. plOutPc[r] = "publish"
  BY DEF PipePublish, PipePublishFails, O!PublishAcked, O!PublishFailed
<1>3. e \in PlEvents /\ d \in OP!Dests
  BY <1>2, OP!PassTypes, OP!DelInWindow, OutReplicas, OutDests, OutEvents, OutLimits,
     OutSwitches DEF OP!TypeInv, OP!HandlesARow, OP!HandlingRow
<1>4. plReceived \in [OP!Dests -> SUBSET PlEvents] /\ PlS2 \in OP!Dests
  BY S2Accepts DEF OP!TypeInv, OP!TypeOK
<1>5. /\ OP!PublishAcked(r) \/ OP!PublishFailed(r)
      /\ UNCHANGED <<inVars, plNextId, plTx, plOutboxId, plFaults>>
      /\ plReceived' = plReceived \/ plReceived' = [plReceived EXCEPT ![d] = @ \cup {e}]
      /\ \/ e \in plReceived'[d] /\ Appended(r)
         \/ plReceived' = plReceived /\ plFeed' = plFeed
  <2>1. CASE PipePublish(r)
    <3>1. OP!PublishAcked(r) /\ plReceived' = [plReceived EXCEPT ![d] = @ \cup {e}]
      BY <2>1, <1>1 DEF PipePublish, O!PublishAcked, OP!PublishAcked, O!Receive, OP!Receive,
         O!Goto, OP!Goto, O!producers, OP!producers, O!tables, OP!tables
    <3>2. e \in plReceived'[d]
      BY <3>1, <1>3, <1>4
    <3>3. UNCHANGED <<inVars, plNextId, plTx, plOutboxId, plFaults>> /\ Appended(r)
      BY <2>1 DEF PipePublish, O!PublishAcked, O!producers
    <3> QED
      BY <3>1, <3>2, <3>3
  <2>2. CASE PipePublishFails(r)
    <3>1. OP!PublishFailed(r)
          /\ (plReceived' = plReceived \/ plReceived' = [plReceived EXCEPT ![d] = @ \cup {e}])
      BY <2>2, <1>1 DEF PipePublishFails, O!PublishFailed, OP!PublishFailed, O!Receive,
         OP!Receive, O!Goto, OP!Goto, O!producers, OP!producers, O!tables, OP!tables
    <3>2. UNCHANGED <<inVars, plNextId, plTx, plOutboxId, plFaults>>
      BY <2>2 DEF PipePublishFails, O!PublishFailed, O!producers
    <3>3. \/ e \in plReceived'[d] /\ Appended(r)
          \/ plReceived' = plReceived /\ plFeed' = plFeed
      BY <2>2, <1>1 DEF PipePublishFails
    <3> QED
      BY <3>1, <3>2, <3>3
  <2> QED
    BY <2>1, <2>2
<1>6. OP!Next
  BY <1>5 DEF OP!Next, OP!Step
<1>7. Sending(e)
  <2>1. CASE plReceived' = plReceived /\ plFeed' = plFeed
    BY <2>1, <1>3, <1>5, <1>6 DEF Sending
  <2>2. CASE e \in plReceived'[d] /\ Appended(r) /\ d = PlS2 /\ StreamID(e) = PlStream
    <3>1. Len(plFeed) < PlMaxRecords /\ plFeed' = Append(plFeed, e)
      BY <2>2, <1>1 DEF Appended
    <3>2. plReceived' = [plReceived EXCEPT ![PlS2] = @ \cup {e}]
      BY <2>2, <1>4, <1>5
    <3> QED
      BY <3>1, <3>2, <2>2, <1>3, <1>5, <1>6 DEF Sending
  <2>3. CASE e \in plReceived'[d] /\ Appended(r) /\ ~(d = PlS2 /\ StreamID(e) = PlStream)
    <3>1. plFeed' = plFeed
      BY <2>3, <1>1 DEF Appended
    <3>2. /\ plReceived'[PlS2] \subseteq plReceived[PlS2] \cup {e}
          /\ plReceived[PlS2] \subseteq plReceived'[PlS2]
          /\ d # PlS2 => plReceived'[PlS2] = plReceived[PlS2]
      BY <1>3, <1>4, <1>5
    <3> QED
      BY <3>1, <3>2, <2>3, <1>3, <1>5, <1>6 DEF Sending
  <2> QED
    BY <2>1, <2>2, <2>3, <1>5
<1> QED
  BY <1>3, <1>7

LEMMA ConsumingSteps ==
  ASSUME NEW r \in PlConsumers, PipeInStep(r) \/ PipeInFault(r)
  PROVE  Consuming \/ Handling(r)
<1>a. UNCHANGED outVars
  BY DEF PipeInStep, PipeInFault
<1> DEFINE Still == UNCHANGED <<plFeed, plHandled, plSkipped>>
<1> USE DEF I!Goto, IP!Goto, I!SetSource, IP!SetSource, I!outcome, IP!outcome, I!Fault,
            IP!Fault, I!None, IP!None, I!CloseAndRetry, IP!CloseAndRetry
<1>1. I!Acquire(r) => IP!Acquire(r) /\ Still
  BY DEF I!Acquire, IP!Acquire
<1>2. I!StillLeading(r) => IP!StillLeading(r) /\ Still
  BY DEF I!StillLeading, IP!StillLeading
<1>3. I!Load(r) => IP!Load(r) /\ Still
  BY DEF I!Load, IP!Load, I!ReopenAt, IP!ReopenAt, I!FeedTail, IP!FeedTail
<1>4. I!Open(r) => IP!Open(r) /\ Still
  BY DEF I!Open, IP!Open, I!FeedTail, IP!FeedTail
<1>5. I!Cancelled(r) => IP!Cancelled(r) /\ Still
  BY DEF I!Cancelled, IP!Cancelled
<1>6. I!ReadRecord(r) => IP!ReadRecord(r) /\ Still
  BY DEF I!ReadRecord, IP!ReadRecord
<1>7. I!NextLost(r) => IP!NextLost(r) /\ Still
  BY DEF I!NextLost, IP!NextLost
<1>8. I!Decode(r) => IP!Decode(r) /\ Still
  BY DEF I!Decode, IP!Decode, I!Dispose, IP!Dispose, I!Event, IP!Event, I!EventAt, IP!EventAt
<1>9. I!HandlerOk(r) => IP!HandlerOk(r) /\ plFaults' = plFaults
  BY DEF I!HandlerOk, IP!HandlerOk, I!Event, IP!Event, I!EventAt, IP!EventAt,
         I!HandledEvents, IP!HandledEvents
<1>10. I!HandlerFails(r) => IP!HandlerFails(r) /\ Still
  BY DEF I!HandlerFails, IP!HandlerFails, I!Dispose, IP!Dispose
<1>11. I!Mark(r) => IP!Mark(r) /\ Still
  BY DEF I!Mark, IP!Mark, I!Event, IP!Event, I!EventAt, IP!EventAt
<1>12. I!Ack(r) => IP!Ack(r) /\ Still
  BY DEF I!Ack, IP!Ack
<1>13. I!AckFails(r) => IP!AckFails(r) /\ Still
  BY DEF I!AckFails, IP!AckFails
<1>14. I!Restart(r) => IP!Restart(r) /\ Still
  BY DEF I!Restart, IP!Restart
<1>15. I!PingFails(r) => IP!PingFails(r) /\ Still
  BY DEF I!PingFails, IP!PingFails
<1>16. I!SeenFails(r) => IP!SeenFails(r) /\ Still
  BY DEF I!SeenFails, IP!SeenFails, I!Dispose, IP!Dispose, I!Event, IP!Event,
         I!EventAt, IP!EventAt
<1>17. I!ReceiveFails(r) => IP!ReceiveFails(r) /\ Still
  BY DEF I!ReceiveFails, IP!ReceiveFails
<1>18. I!Crash(r) => IP!Crash(r) /\ Still
  BY DEF I!Crash, IP!Crash, I!NewSource, IP!NewSource
<1> HIDE DEF Still
<1>19. CASE I!HandlerOk(r)
  BY <1>9, <1>19, <1>a DEF Handling
<1>20. CASE ~I!HandlerOk(r)
  <2>1. Still /\ \/ IP!Step(r) \/ IP!PingFails(r) \/ IP!SeenFails(r)
                 \/ IP!ReceiveFails(r) \/ IP!Crash(r) \/ IP!Restart(r)
    BY <1>1, <1>2, <1>3, <1>4, <1>5, <1>6, <1>7, <1>8, <1>10, <1>11, <1>12, <1>13,
       <1>14, <1>15, <1>16, <1>17, <1>18, <1>20
       DEF PipeInStep, PipeInFault, I!Step, IP!Step
  <2>2. IP!Next
    BY <2>1 DEF IP!Next
  <2> QED
    BY <2>1, <2>2, <1>a DEF Consuming, Still
<1> QED
  BY <1>19, <1>20

LEMMA Steps ==
  ASSUME OP!TypeInv, PipeNext
  PROVE  \/ Producing \/ Draining \/ Consuming
         \/ \E e \in PlEvents : Sending(e)
         \/ \E r \in PlConsumers : Handling(r)
<1>1. CASE O!LoseSession /\ UNCHANGED <<inVars, plFeed>>
  <2>1. OP!LoseSession
    BY <1>1 DEF O!LoseSession, OP!LoseSession, O!Fault, OP!Fault, O!producers, OP!producers,
       O!tables, OP!tables
  <2>2. UNCHANGED <<plNextId, plTx, plOutboxId, plReceived>>
    BY <1>1 DEF O!LoseSession, O!producers
  <2> QED
    BY <1>1, <2>1, <2>2 DEF Draining, OP!Next
<1>2. CASE I!LoseSession /\ UNCHANGED outVars
  <2>1. IP!LoseSession
    BY <1>2 DEF I!LoseSession, IP!LoseSession, I!Fault, IP!Fault, I!outcome, IP!outcome
  <2>2. UNCHANGED <<plFeed, plHandled, plSkipped>>
    BY <1>2 DEF I!LoseSession, I!outcome
  <2> QED
    BY <1>2, <2>1, <2>2 DEF Consuming, IP!Next
<1> QED
  BY <1>1, <1>2, ProducingSteps, SendingSteps, DrainingSteps, ConsumingSteps
     DEF PipeNext, PipeLoseSession

-----------------------------------------------------------------------------
(* Where the two parts meet: the stream.                                     *)

InFeed(e) == \E i \in 1..Len(plFeed) : plFeed[i] = e

\* The stream carries what its publishers were told, or not told, they had sent to it.
Carried ==
  \A e \in PlEvents : InFeed(e) <=> e \in plReceived[PlS2] /\ StreamID(e) = PlStream

\* Before every record, a repeated one too, the stream has the earlier events of its
\* subject.
StreamOrdered ==
  \A i \in 1..Len(plFeed) : \A f \in PlEvents :
    /\ plTx[f] = "committed" /\ StreamID(f) = PlStream
    /\ PlSubjectOf[f] = PlSubjectOf[plFeed[i]] /\ PlSubjectOf[f] # PlNoSubject
    /\ plOutboxId[f] < plOutboxId[plFeed[i]]
    => \E j \in 1..(i - 1) : plFeed[j] = f

NoneSkipped == plSkipped = {}

PipeInv == OutInv /\ InInv /\ Carried /\ StreamOrdered /\ NoneSkipped

LEMMA Types ==
  ASSUME PipeInv
  PROVE  /\ plFeed \in Seq(PlEvents) /\ Len(plFeed) \in Nat /\ Len(plFeed) <= PlMaxRecords
         /\ \A i \in 1..Len(plFeed) : plFeed[i] \in PlEvents
         /\ plReceived \in [OP!Dests -> SUBSET PlEvents]
         /\ plTx \in [PlEvents -> {"none", "open", "committed", "rolledback"}]
         /\ plOutboxId \in [PlEvents -> Nat]
         /\ plHandled \subseteq IP!Positions
         /\ plFaults \in 0..PlMaxFaults
         /\ plCursor \in Int
<1>1. plFeed \in Seq(PlEvents) /\ Len(plFeed) <= PlMaxRecords
  BY DEF PipeInv, InInv, IP!TypeOK
<1>2. plCursor \in Int
  BY InBounds DEF PipeInv, InInv, IP!TypeOK, IP!None
<1> QED
  BY <1>1, <1>2 DEF PipeInv, OutInv, InInv, OP!TypeInv, OP!TypeOK, IP!TypeOK

LEMMA PipeInvInit == PipeInit => PipeInv
<1> SUFFICES ASSUME PipeInit PROVE PipeInv
  OBVIOUS
<1>1. OP!Init
  BY DEF PipeInit, O!Init, OP!Init, O!Dests, OP!Dests, O!NoRow, OP!NoRow, O!NewPass, OP!NewPass
<1>2. IP!Init
  BY DEF PipeInit, I!Init, IP!Init, I!None, IP!None, I!NewSource, IP!NewSource
<1>3. plReceived[PlS2] = {} /\ plFeed = <<>> /\ plSkipped = {}
  BY <1>1, <1>2, S2Accepts DEF OP!Init, IP!Init
<1> QED
  BY <1>1, <1>2, <1>3, OutInvInit, InInvInit
     DEF PipeInv, Carried, InFeed, StreamOrdered, NoneSkipped

\* A transaction that commits now has an id beyond those of the stream's events.
LEMMA ProducingKeeps ==
  ASSUME PipeInv, Producing
  PROVE  PipeInv'
<1> PICK e \in PlEvents : OP!Insert(e) \/ OP!Commit(e) \/ OP!Rollback(e)
  BY DEF Producing
<1>a. UNCHANGED <<inVars, plFeed, plFaults, plReceived>>
  BY DEF Producing, OP!Insert, OP!Commit, OP!Rollback
<1>1. OutInv'
  BY OutInvNext DEF PipeInv, OP!Next
<1>2. InInv'
  BY <1>a, Types, InInvKept DEF PipeInv
<1>3. Carried'
  BY <1>a DEF PipeInv, Carried, InFeed
<1>4. \A f \in PlEvents :
        /\ plTx[f] = "committed" => plTx'[f] = "committed" /\ plOutboxId'[f] = plOutboxId[f]
        /\ plTx'[f] = "committed" /\ plTx[f] # "committed"
             => plTx[f] = "open" /\ plOutboxId'[f] = plOutboxId[f]
  BY Types DEF OP!Insert, OP!Commit, OP!Rollback
<1>5. StreamOrdered'
  <2> SUFFICES ASSUME NEW i \in 1..Len(plFeed), NEW f \in PlEvents, plTx'[f] = "committed",
                      StreamID(f) = PlStream, PlSubjectOf[f] = PlSubjectOf[plFeed[i]],
                      PlSubjectOf[f] # PlNoSubject, plOutboxId'[f] < plOutboxId'[plFeed[i]]
               PROVE  \E j \in 1..(i - 1) : plFeed[j] = f
    BY <1>a DEF StreamOrdered
  <2> DEFINE g == plFeed[i]
  <2>1. g \in PlEvents /\ g \in plReceived[PlS2]
    BY Types DEF PipeInv, Carried, InFeed
  <2>2. plTx[g] = "committed"
    BY <2>1, S2Accepts DEF PipeInv, OutInv, OP!DeliveryInv, OP!OnlyCommitted
  <2>3. plOutboxId'[g] = plOutboxId[g] /\ plOutboxId'[f] = plOutboxId[f]
    BY <1>4, <2>1, <2>2
  <2>4. CASE plTx[f] = "committed"
    BY <2>1, <2>3, <2>4 DEF PipeInv, StreamOrdered
  <2>5. CASE plTx[f] # "committed"
    <3>1. plOutboxId[g] < plOutboxId[f]
      BY <1>4, <2>1, <2>2, <2>5 DEF PipeInv, OutInv, OP!OrderInv, OP!SerialInv
    <3> QED
      BY <3>1, <2>1, <2>3, Types
  <2> QED
    BY <2>4, <2>5
<1> QED
  BY <1>1, <1>2, <1>3, <1>5, <1>a DEF PipeInv, NoneSkipped, inVars

\* A publish into the stream comes behind the earlier events of the subject: they are
\* with S2 by then, and so in the stream.
LEMMA SendingKeeps ==
  ASSUME PipeInv, NEW e \in PlEvents, Sending(e)
  PROVE  PipeInv'
<1>a. UNCHANGED <<inVars, plTx, plOutboxId, plFaults>>
  BY DEF Sending
<1>1. OutInv'
  BY OutInvNext DEF PipeInv, Sending
<1>2. CASE /\ StreamID(e) = PlStream
           /\ plReceived' = [plReceived EXCEPT ![PlS2] = @ \cup {e}]
           /\ Len(plFeed) < PlMaxRecords /\ plFeed' = Append(plFeed, e)
  <2> DEFINE n == Len(plFeed)
  <2>1. n \in Nat /\ Len(plFeed') = n + 1 /\ plFeed'[n + 1] = e
        /\ \A i \in 1..n : plFeed'[i] = plFeed[i]
    BY <1>2, Types
  <2>2. InInv'
    <3>1. IP!AppendRecord(e)
      BY <1>2, <1>a DEF IP!AppendRecord, IP!outcome, inVars
    <3> QED
      BY <3>1, InInvNext DEF PipeInv, IP!Next
  <2>3. plReceived'[PlS2] = plReceived[PlS2] \cup {e}
    BY <1>2, Types, S2Accepts
  <2>4. \A f : InFeed(f)' <=> InFeed(f) \/ f = e
    BY <2>1 DEF InFeed
  <2>5. Carried'
    BY <1>2, <2>3, <2>4 DEF PipeInv, Carried
  <2>6. StreamOrdered'
    <3> SUFFICES ASSUME NEW i \in 1..(n + 1), NEW f \in PlEvents, plTx[f] = "committed",
                        StreamID(f) = PlStream, PlSubjectOf[f] = PlSubjectOf[plFeed'[i]],
                        PlSubjectOf[f] # PlNoSubject, plOutboxId[f] < plOutboxId[plFeed'[i]]
                 PROVE  \E j \in 1..(i - 1) : plFeed'[j] = f
      BY <1>a, <2>1 DEF StreamOrdered
    <3>1. CASE i \in 1..n
      <4>1. PICK j \in 1..(i - 1) : plFeed[j] = f
        BY <3>1, <2>1 DEF PipeInv, StreamOrdered
      <4> QED
        BY <4>1, <3>1, <2>1
    <3>2. CASE i = n + 1
      <4>1. e \in plReceived'[PlS2] /\ plOutboxId[f] < plOutboxId[e]
            /\ PlSubjectOf[f] = PlSubjectOf[e]
        BY <3>2, <2>1, <2>3
      <4>2. f \in plReceived'[PlS2]
        BY <1>1, <1>a, <4>1, S2Accepts DEF OutInv, OP!OrderInv, OP!NoGap
      <4>3. f # e
        BY <4>1, Types
      <4>4. InFeed(f)
        BY <2>3, <4>2, <4>3 DEF PipeInv, Carried
      <4> QED
        BY <4>4, <3>2, <2>1 DEF InFeed
    <3> QED
      BY <3>1, <3>2, <2>1
  <2> QED
    BY <1>1, <1>a, <2>2, <2>5, <2>6 DEF PipeInv, NoneSkipped, inVars
<1>3. CASE /\ plReceived'[PlS2] = plReceived[PlS2] \/ StreamID(e) # PlStream
           /\ plReceived'[PlS2] \subseteq plReceived[PlS2] \cup {e}
           /\ plReceived[PlS2] \subseteq plReceived'[PlS2]
           /\ plFeed' = plFeed
  <2>1. InInv'
    BY <1>3, <1>a, Types, InInvKept DEF PipeInv
  <2>2. Carried'
    BY <1>3 DEF PipeInv, Carried, InFeed
  <2>3. StreamOrdered'
    BY <1>3, <1>a DEF PipeInv, StreamOrdered
  <2> QED
    BY <1>1, <1>a, <2>1, <2>2, <2>3 DEF PipeInv, NoneSkipped, inVars
<1> QED
  BY <1>2, <1>3 DEF Sending

LEMMA DrainingKeeps ==
  ASSUME PipeInv, Draining
  PROVE  PipeInv'
<1>1. OutInv'
  BY OutInvNext DEF PipeInv, Draining
<1>2. plFaults' \in 0..PlMaxFaults
  BY <1>1 DEF OutInv, OP!TypeInv, OP!TypeOK
<1>3. InInv'
  BY <1>2, InInvKept DEF PipeInv, Draining
<1> QED
  BY <1>1, <1>3
     DEF PipeInv, Draining, Carried, InFeed, StreamOrdered, NoneSkipped, inVars

LEMMA ConsumingKeeps ==
  ASSUME PipeInv, IP!Next, UNCHANGED <<outVars, plFeed, plSkipped>>
  PROVE  PipeInv'
<1>1. InInv'
  BY InInvNext DEF PipeInv
<1>2. plFaults' \in 0..PlMaxFaults
  BY <1>1 DEF InInv, IP!TypeOK
<1>3. OutInv'
  BY <1>2, OutInvKept DEF PipeInv
<1> QED
  BY <1>1, <1>3 DEF PipeInv, Carried, InFeed, StreamOrdered, NoneSkipped, outVars

LEMMA HandlingIsConsuming ==
  ASSUME NEW r \in PlConsumers, Handling(r)
  PROVE  IP!Next /\ UNCHANGED <<outVars, plFeed, plSkipped>>
BY DEF Handling, IP!HandlerOk, IP!Next, IP!Step

LEMMA PipeInvStep == PipeInv /\ [PipeNext]_pipeVars => PipeInv'
<1> SUFFICES ASSUME PipeInv, [PipeNext]_pipeVars PROVE PipeInv'
  OBVIOUS
<1>1. CASE PipeNext
  <2>1. \/ Producing \/ Draining \/ Consuming
        \/ \E e \in PlEvents : Sending(e)
        \/ \E r \in PlConsumers : Handling(r)
    BY <1>1, Steps DEF PipeInv, OutInv
  <2>2. Consuming => PipeInv'
    BY ConsumingKeeps DEF Consuming
  <2>3. ASSUME NEW r \in PlConsumers, Handling(r) PROVE PipeInv'
    BY <2>3, HandlingIsConsuming, ConsumingKeeps
  <2> QED
    BY <2>1, <2>2, <2>3, ProducingKeeps, SendingKeeps, DrainingKeeps
<1>2. CASE UNCHANGED pipeVars
  <2>1. OutInv'
    BY <1>2, Types, OutInvKept DEF PipeInv, pipeVars
  <2>2. InInv'
    BY <1>2, Types, InInvKept DEF PipeInv, pipeVars
  <2> QED
    BY <1>2, <2>1, <2>2
       DEF PipeInv, Carried, InFeed, StreamOrdered, NoneSkipped, pipeVars, outVars, inVars
<1> QED
  BY <1>1, <1>2

LEMMA PipeInvariant == PipeSpec => []PipeInv
BY PipeInvInit, PipeInvStep, PTL DEF PipeSpec

-----------------------------------------------------------------------------
(* Nothing falls between the parts.                                          *)

\* A committed event of the consumed stream is pending, in the stream at or after the
\* cursor, or with the handler: what the outbox has marked is in the stream, and what
\* the cursor has passed is with the handler, for any number of replicas at both ends.
THEOREM NothingFallsBetween == PipeSpec => []NothingInBetween
<1>1. PipeInv => NothingInBetween
  <2> SUFFICES ASSUME PipeInv, NEW e \in PlEvents, plTx[e] = "committed",
                      StreamID(e) = PlStream, plDelivery[e][PlS2].status # "pending"
               PROVE  \/ \E i \in I!Positions :
                            i < Len(plFeed) /\ I!EventAt(i) = e /\ plCursor <= i
                      \/ e \in HandledEvents
    BY DEF NothingInBetween
  <2>1. e \in plReceived[PlS2]
    BY S2Accepts DEF PipeInv, OutInv, OP!DeliveryInv, OP!AtLeastOnce
  <2>2. PICK k \in 1..Len(plFeed) : plFeed[k] = e
    BY <2>1 DEF PipeInv, Carried, InFeed
  <2> DEFINE i == k - 1
  <2>3. i \in I!Positions /\ i \in IP!Positions /\ i < Len(plFeed)
        /\ I!EventAt(i) = e /\ IP!EventAt(i) = e
    BY <2>2, Types, InBounds DEF I!Positions, IP!Positions, I!EventAt, IP!EventAt
  <2>4. CASE plCursor <= i
    BY <2>3, <2>4
  <2>5. CASE ~(plCursor <= i)
    <3>1. i < plCursor
      BY <2>3, <2>5, Types
    <3>2. IP!Settled(i)
      BY <3>1, <2>3 DEF PipeInv, InInv, IP!ConsumerInv, IP!CursorNeverLeads, IP!SettledBelow
    <3>3. e \in IP!HandledEvents
      BY <3>2, <2>3 DEF PipeInv, NoneSkipped, IP!Settled, IP!HandledEvents
    <3> QED
      BY <3>3 DEF HandledEvents, I!HandledEvents, IP!HandledEvents, I!EventAt, IP!EventAt
  <2> QED
    BY <2>4, <2>5
<1> QED
  BY <1>1, PipeInvariant, PTL

-----------------------------------------------------------------------------
(* The pipeline implements EventDelivery.                                    *)

Rank == [e \in PlEvents |-> IF plTx[e] = "committed" THEN plOutboxId[e] ELSE 0]
Taken == [h \in {"handler"} |-> HandledEvents]

LEMMA SameHandled == HandledEvents = IP!HandledEvents
BY DEF HandledEvents, I!HandledEvents, IP!HandledEvents, I!EventAt, IP!EventAt

\* The handled events are those of handled records: a longer stream changes nothing.
LEMMA HandledKept ==
  ASSUME PipeInv, plHandled' = plHandled,
         plFeed' = plFeed \/ \E e \in PlEvents : plFeed' = Append(plFeed, e)
  PROVE  HandledEvents' = HandledEvents
<1>1. \A i \in plHandled : i + 1 \in 1..Len(plFeed)
  <2>1. IP!HandledMarks
    BY DEF PipeInv, InInv, IP!ConsumerInv
  <2>2. \A i \in plHandled : i \in Nat /\ i < Len(plFeed)
    BY <2>1, Types, InBounds DEF IP!HandledMarks, IP!Positions
  <2> QED
    BY <2>2, Types
<1>2. \A i \in 1..Len(plFeed) : plFeed'[i] = plFeed[i]
  <2>1. ASSUME NEW e \in PlEvents, plFeed' = Append(plFeed, e)
        PROVE  \A i \in 1..Len(plFeed) : plFeed'[i] = plFeed[i]
    <3>1. plFeed \in Seq(PlEvents)
      BY Types
    <3> QED
      BY <2>1, <3>1
  <2> QED
    BY <2>1
<1> QED
  BY <1>1, <1>2 DEF HandledEvents, I!HandledEvents, I!EventAt

LEMMA RankKept == UNCHANGED <<plTx, plOutboxId>> => UNCHANGED Rank
BY DEF Rank

\* The outbox's ids are ranks: a commit gets the highest so far.
LEMMA CommitDelivers ==
  ASSUME PipeInv, NEW e \in PlEvents, OP!Commit(e), HandledEvents' = HandledEvents
  PROVE  Delivery!Commit(e)
<1>1. /\ plTx[e] = "open" /\ plTx' = [plTx EXCEPT ![e] = "committed"]
      /\ plOutboxId' = plOutboxId
  BY DEF OP!Commit
<1>2. /\ Rank[e] = 0 /\ Rank'[e] = plOutboxId[e] /\ Rank' \in [PlEvents -> Nat]
      /\ \A f \in PlEvents \ {e} : Rank'[f] = Rank[f]
  BY <1>1, Types DEF Rank
<1>3. \A f \in PlEvents : Rank[f] < Rank'[e]
  <2>1. 0 < plOutboxId[e]
        /\ \A f \in PlEvents : plTx[f] = "committed" => plOutboxId[f] < plOutboxId[e]
    BY <1>1 DEF PipeInv, OutInv, OP!OrderInv, OP!SerialInv
  <2> QED
    BY <1>2, <2>1 DEF Rank
<1> QED
  BY <1>2, <1>3 DEF Delivery!Commit, Delivery!Committed, Rank

\* A record reaches the handler behind every earlier record, and the earlier events of
\* its subject are among those.
LEMMA HandlerDelivers ==
  ASSUME PipeInv, NEW r \in PlConsumers, Handling(r), HandledEvents' # HandledEvents
  PROVE  \E e \in PlEvents : Delivery!Receive("handler", e)
<1> DEFINE i == plSrc[r].record
           e == IP!Event(r)
<1>a. /\ plInPc[r] = "handle" /\ plFeed' = plFeed /\ plHandled' = plHandled \cup {i}
      /\ UNCHANGED <<plTx, plOutboxId>>
  BY DEF Handling, IP!HandlerOk, outVars
<1>1. /\ i \in IP!Positions /\ i < Len(plFeed) /\ e \in PlEvents
  BY <1>a, IP!RecordInFeed, InReplicas, InEvents, InSwitches, InBounds
     DEF PipeInv, InInv, IP!InHand
<1>2. i \in Nat /\ i + 1 \in 1..Len(plFeed) /\ plFeed[i + 1] = e
  <2>1. i \in Nat /\ Len(plFeed) \in Nat
    BY <1>1, Types, InBounds DEF IP!Positions
  <2>2. plFeed[i + 1] = e
    BY DEF IP!Event, IP!EventAt
  <2> HIDE DEF i, e
  <2> QED
    BY <1>1, <2>1, <2>2
<1>3. HandledEvents' = HandledEvents \cup {e}
  BY <1>a DEF HandledEvents, I!HandledEvents, I!EventAt, IP!Event, IP!EventAt
<1>4. e \notin HandledEvents
  BY <1>3
<1>5. e \in plReceived[PlS2] /\ StreamID(e) = PlStream
  BY <1>1, <1>2 DEF PipeInv, Carried, InFeed
<1>6. plTx[e] = "committed" /\ 0 < plOutboxId[e]
  <2>1. plTx[e] = "committed"
    BY <1>5, S2Accepts DEF PipeInv, OutInv, OP!DeliveryInv, OP!OnlyCommitted
  <2> QED
    BY <2>1, <1>1 DEF PipeInv, OutInv, OP!OrderInv, OP!SerialInv
<1>7. ASSUME NEW f \in PlEvents, plTx[f] = "committed", StreamID(f) = PlStream,
             PlSubjectOf[f] = PlSubjectOf[e], PlSubjectOf[e] # PlNoSubject,
             plOutboxId[f] < plOutboxId[e]
      PROVE  f \in HandledEvents
  <2>1. PICK j \in 1..i : plFeed[j] = f
    BY <1>2, <1>7 DEF PipeInv, StreamOrdered
  <2>2. j - 1 \in IP!Positions /\ j - 1 < i /\ IP!EventAt(j - 1) = f
    BY <2>1, <1>1, <1>2, InBounds DEF IP!Positions, IP!EventAt
  <2>3. IP!SettledBelow(i)
    BY <1>a DEF PipeInv, InInv, IP!ConsumerInv, IP!Order, IP!InHand
  <2>4. IP!Settled(j - 1)
    BY <2>2, <2>3 DEF IP!SettledBelow
  <2>5. f \in IP!HandledEvents
    BY <2>2, <2>4 DEF PipeInv, NoneSkipped, IP!Settled, IP!HandledEvents
  <2> QED
    BY <2>5, SameHandled
<1>8. Rank[e] # 0 /\ UNCHANGED Rank
      /\ \A f \in PlEvents : /\ Rank[f] # 0 => plTx[f] = "committed"
                             /\ Rank[f] # 0 /\ Rank[f] < Rank[e] => plOutboxId[f] < plOutboxId[e]
  BY <1>1, <1>6, <1>a, Types DEF Rank
<1>9. Taken' = [Taken EXCEPT !["handler"] = @ \cup {e}] /\ e \notin Taken["handler"]
  BY <1>3, <1>4 DEF Taken
<1>10. Delivery!Before("handler", e) \subseteq HandledEvents
  BY <1>1, <1>7, <1>8 DEF Delivery!Before, Delivery!Committed, Rank
<1>11. Delivery!Receive("handler", e)
  BY <1>1, <1>5, <1>8, <1>9, <1>10
     DEF Delivery!Receive, Delivery!Committed, Taken, Rank
<1> QED
  BY <1>1, <1>11

LEMMA PipeDelivers ==
  ASSUME PipeInv, [PipeNext]_pipeVars
  PROVE  [Delivery!Next]_(Delivery!vars)
<1> DEFINE Quiet == UNCHANGED <<plTx, plOutboxId>> /\ HandledEvents' = HandledEvents
<1>a. Quiet => UNCHANGED Delivery!vars
  BY RankKept DEF Delivery!vars, Rank
<1> HIDE DEF Quiet
<1>1. CASE Producing
  <2> PICK e \in PlEvents : OP!Insert(e) \/ OP!Commit(e) \/ OP!Rollback(e)
    BY <1>1 DEF Producing
  <2>1. HandledEvents' = HandledEvents
    BY <1>1, HandledKept DEF Producing, inVars
  <2>2. CASE OP!Commit(e)
    BY <2>1, <2>2, CommitDelivers DEF Delivery!Next
  <2>3. CASE OP!Insert(e) \/ OP!Rollback(e)
    <3>1. /\ \A f \in PlEvents : plTx'[f] = "committed" <=> plTx[f] = "committed"
          /\ \A f \in PlEvents : plTx[f] = "committed" => plOutboxId'[f] = plOutboxId[f]
      BY <2>3, Types DEF OP!Insert, OP!Rollback
    <3>2. Rank' = Rank
      BY <3>1 DEF Rank
    <3> QED
      BY <2>1, <3>2 DEF Delivery!vars, Rank
  <2> QED
    BY <2>2, <2>3
<1>2. ASSUME NEW e \in PlEvents, Sending(e) PROVE Quiet
  BY <1>2, HandledKept DEF Sending, Quiet, inVars
<1>3. CASE Draining
  <2>1. UNCHANGED <<plTx, plOutboxId, plHandled, plFeed>>
    BY <1>3 DEF Draining, inVars
  <2>2. HandledEvents' = HandledEvents
    BY <2>1, HandledKept
  <2> QED
    BY <1>a, <2>1, <2>2 DEF Quiet
<1>4. CASE Consuming
  <2>1. UNCHANGED <<plTx, plOutboxId, plHandled, plFeed>>
    BY <1>4 DEF Consuming, outVars
  <2>2. HandledEvents' = HandledEvents
    BY <2>1, HandledKept
  <2> QED
    BY <1>a, <2>1, <2>2 DEF Quiet
<1>5. ASSUME NEW r \in PlConsumers, Handling(r) PROVE [Delivery!Next]_(Delivery!vars)
  <2>1. CASE HandledEvents' # HandledEvents
    BY <1>5, <2>1, HandlerDelivers DEF Delivery!Next
  <2>2. CASE HandledEvents' = HandledEvents
    BY <1>5, <2>2, <1>a DEF Handling, Quiet, outVars
  <2> QED
    BY <2>1, <2>2
<1>6. CASE UNCHANGED pipeVars
  <2>1. UNCHANGED <<plTx, plOutboxId, plHandled, plFeed>>
    BY <1>6 DEF pipeVars, outVars, inVars
  <2>2. HandledEvents' = HandledEvents
    BY <2>1, HandledKept
  <2> QED
    BY <1>a, <2>1, <2>2 DEF Quiet
<1> QED
  BY <1>a, <1>1, <1>2, <1>3, <1>4, <1>5, <1>6, Steps DEF PipeInv, OutInv

\* Any number of publishers and consumers together implement EventDelivery with the
\* handler as its one destination: first receipts come in commit order per subject.
THEOREM PipelineImplementsDelivery == PipeSpec => PipelineDelivers
<1>1. PipeInit => Delivery!Init
  <2> SUFFICES ASSUME PipeInit PROVE Delivery!Init
    OBVIOUS
  <2>1. Rank = [e \in PlEvents |-> 0]
    BY DEF PipeInit, O!Init, Rank
  <2>2. HandledEvents = {}
    BY DEF PipeInit, I!Init, HandledEvents, I!HandledEvents
  <2> QED
    BY <2>1, <2>2 DEF Delivery!Init, Rank
<1>2. PipeInv /\ [PipeNext]_pipeVars => [Delivery!Next]_(Delivery!vars)
  BY PipeDelivers
<1> QED
  BY <1>1, <1>2, PipeInvariant, PTL DEF PipeSpec, PipelineDelivers, Delivery!Spec

-----------------------------------------------------------------------------
(* The replica that starts at the tail.                                      *)

LEMMA TailReplicas == TlNoReplica \notin {TlReplica}
BY TailAssumption

LEMMA TailEvents == {} \subseteq TlEvents
OBVIOUS

LEMMA TailSwitches == {FALSE, FALSE, TRUE, FALSE, FALSE} \subseteq BOOLEAN
OBVIOUS

LEMMA TailBounds == TlMaxRecords \in Nat /\ TlMaxFaults \in Nat
BY TailAssumption

TlInv == TP!TypeOK /\ TP!Shapes /\ TP!ConsumerInv /\ TP!TailInv

LEMMA TailReplicaSteps ==
  ASSUME NEW r \in {TlReplica},
         \/ TailInbox!Step(r) \/ TailInbox!PingFails(r) \/ TailInbox!SeenFails(r)
         \/ TailInbox!ReceiveFails(r) \/ TailInbox!Crash(r) \/ TailInbox!Restart(r)
  PROVE  TP!Next
<1> USE DEF TailInbox!Goto, TP!Goto, TailInbox!SetSource, TP!SetSource, TailInbox!outcome,
            TP!outcome, TailInbox!Fault, TP!Fault, TailInbox!None, TP!None,
            TailInbox!FeedTail, TP!FeedTail, TailInbox!CloseAndRetry, TP!CloseAndRetry
<1>1. TailInbox!Acquire(r) => TP!Acquire(r)
  BY DEF TailInbox!Acquire, TP!Acquire
<1>2. TailInbox!StillLeading(r) => TP!StillLeading(r)
  BY DEF TailInbox!StillLeading, TP!StillLeading
<1>3. TailInbox!Load(r) => TP!Load(r)
  BY DEF TailInbox!Load, TP!Load, TailInbox!ReopenAt, TP!ReopenAt
<1>4. TailInbox!Open(r) => TP!Open(r)
  BY DEF TailInbox!Open, TP!Open
<1>5. TailInbox!Cancelled(r) => TP!Cancelled(r)
  BY DEF TailInbox!Cancelled, TP!Cancelled
<1>6. TailInbox!ReadRecord(r) => TP!ReadRecord(r)
  BY DEF TailInbox!ReadRecord, TP!ReadRecord
<1>7. TailInbox!NextLost(r) => TP!NextLost(r)
  BY DEF TailInbox!NextLost, TP!NextLost
<1>8. TailInbox!Decode(r) => TP!Decode(r)
  BY DEF TailInbox!Decode, TP!Decode, TailInbox!Dispose, TP!Dispose, TailInbox!Event, TP!Event,
         TailInbox!EventAt, TP!EventAt
<1>9. TailInbox!HandlerOk(r) => TP!HandlerOk(r)
  BY DEF TailInbox!HandlerOk, TP!HandlerOk, TailInbox!HandledEvents, TP!HandledEvents, TailInbox!Event, TP!Event,
         TailInbox!EventAt, TP!EventAt
<1>10. TailInbox!HandlerFails(r) => TP!HandlerFails(r)
  BY DEF TailInbox!HandlerFails, TP!HandlerFails, TailInbox!Dispose, TP!Dispose
<1>11. TailInbox!Mark(r) => TP!Mark(r)
  BY DEF TailInbox!Mark, TP!Mark, TailInbox!Event, TP!Event,
         TailInbox!EventAt, TP!EventAt
<1>12. TailInbox!Ack(r) => TP!Ack(r)
  BY DEF TailInbox!Ack, TP!Ack
<1>13. TailInbox!AckFails(r) => TP!AckFails(r)
  BY DEF TailInbox!AckFails, TP!AckFails
<1>14. TailInbox!Restart(r) => TP!Restart(r)
  BY DEF TailInbox!Restart, TP!Restart
<1>15. TailInbox!PingFails(r) => TP!PingFails(r)
  BY DEF TailInbox!PingFails, TP!PingFails
<1>16. TailInbox!SeenFails(r) => TP!SeenFails(r)
  BY DEF TailInbox!SeenFails, TP!SeenFails, TailInbox!Dispose, TP!Dispose, TailInbox!Event, TP!Event,
         TailInbox!EventAt, TP!EventAt
<1>17. TailInbox!ReceiveFails(r) => TP!ReceiveFails(r)
  BY DEF TailInbox!ReceiveFails, TP!ReceiveFails
<1>18. TailInbox!Crash(r) => TP!Crash(r)
  BY DEF TailInbox!Crash, TP!Crash, TailInbox!NewSource, TP!NewSource
<1> QED
  BY <1>1, <1>2, <1>3, <1>4, <1>5, <1>6, <1>7, <1>8, <1>9, <1>10, <1>11, <1>12, <1>13,
     <1>14, <1>15, <1>16, <1>17, <1>18 DEF TailInbox!Step, TP!Step, TP!Next

LEMMA TailSteps == [TailInbox!Next]_(TailInbox!vars) => [TP!Next]_(TP!vars)
<1>1. ASSUME NEW e \in TlEvents, TailInbox!AppendRecord(e) PROVE TP!Next
  BY <1>1 DEF TailInbox!AppendRecord, TP!AppendRecord, TailInbox!outcome, TP!outcome, TP!Next
<1>2. CASE TailInbox!LoseSession
  BY <1>2 DEF TailInbox!LoseSession
<1>3. CASE UNCHANGED TailInbox!vars
  BY <1>3 DEF TailInbox!vars, TP!vars, TailInbox!outcome, TP!outcome
<1> QED
  BY <1>1, <1>2, <1>3, TailReplicaSteps DEF TailInbox!Next

LEMMA TlInvInit == TailInbox!Init => TlInv
<1> SUFFICES ASSUME TailInbox!Init PROVE TlInv
  OBVIOUS
<1>1. TP!Init
  BY DEF TailInbox!Init, TP!Init, TailInbox!None, TP!None, TailInbox!NewSource, TP!NewSource
<1>2. TP!TypeOK /\ TP!Shapes /\ TP!ConsumerInv
  BY <1>1, TP!TypeInit, TP!ConsumerInit, TailReplicas, TailEvents, TailSwitches, TailBounds
<1>3. TP!TailInv
  BY <1>1 DEF TP!Init, TP!TailInv, TP!NothingReadIsLost, TP!TailOrder, TP!NewSource,
         TP!InHand, TP!None
<1> QED
  BY <1>2, <1>3 DEF TlInv

LEMMA TlInvStep == TlInv /\ [TailInbox!Next]_(TailInbox!vars) => TlInv'
<1> SUFFICES ASSUME TlInv, [TP!Next]_(TP!vars) PROVE TlInv'
  BY TailSteps
<1>1. TP!TypeOK' /\ TP!Shapes'
  BY TP!TypeStep, TailReplicas, TailEvents, TailSwitches, TailBounds DEF TlInv
<1>2. TP!ConsumerInv'
  BY TP!ConsumerStep, TailReplicas, TailEvents, TailSwitches, TailBounds DEF TlInv
<1>3. TP!HandledMarks
  BY DEF TlInv, TP!ConsumerInv
<1>4. \A q, r \in {TlReplica} : q = r
  OBVIOUS
<1>5. TP!TailInv'
  BY <1>1, <1>3, <1>4, TP!TailStep, TailReplicas, TailEvents, TailSwitches, TailBounds
     DEF TlInv
<1> QED
  BY <1>1, <1>2, <1>5 DEF TlInv

\* What the replica that starts at the tail has read is not behind its cursor before it
\* is settled, whatever of its term, its calls and its acks fails (s2.go's reopen and
\* tailResolvedPosition).
THEOREM TailIsKept == TailInbox!Spec => []TailNothingReadIsLost
<1>1. TlInv => TailNothingReadIsLost
  BY DEF TlInv, TP!TailInv, TP!NothingReadIsLost, TP!Settled, TP!EventAt,
         TP!HandledEvents, TailNothingReadIsLost, TailInbox!NothingReadIsLost,
         TailInbox!Settled, TailInbox!EventAt, TailInbox!HandledEvents
<1> QED
  BY <1>1, TlInvInit, TlInvStep, PTL DEF TailInbox!Spec
=============================================================================
