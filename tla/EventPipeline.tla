--------------------------- MODULE EventPipeline ---------------------------
(***************************************************************************)
(* From the producer's transaction to the consumer's handler: the outbox    *)
(* (Outbox) publishes into streams through its destinations, S2 and NATS,   *)
(* and the inbox (Inbox) consumes one S2 stream.  The components share the  *)
(* stream and nothing else; Outbox's "the destination has the event" and    *)
(* Inbox's "a publisher appends a record" become one step here.             *)
(***************************************************************************)
EXTENDS Integers, Sequences

CONSTANTS
  PlEvents,        \* emissions
  PlSubjects,      \* subjects
  PlNoSubject,     \* the empty subject
  PlSubjectOf,     \* [PlEvents -> PlSubjects \cup {PlNoSubject}]
  PlFeedOf,        \* [PlEvents -> names of feeds]: Routing.Name of an event
  PlPublic,        \* events of a public feed
  PlTenantOf,      \* [PlEvents -> tenants \cup {PlNoTenant}]: the envelope's tenant
  PlNoTenant,      \* no tenant
  PlS2, PlNats,    \* the destinations; PlDestOrder is Outbox.dests
  PlDestOrder,
  PlStream,        \* the id of the stream the inbox consumes
  PlPublishers,    \* replicas of the outbox
  PlConsumers,     \* replicas of the inbox
  PlNoReplica,     \* no session holds a lock
  PlSessionLoss,   \* TRUE: a lock's session may die under a live leader
  PlLostAnswers,   \* bound: a publish loses its answer in a shorter stream only
  PlMaxRecords,    \* bound on the stream's length
  PlMaxFaults      \* bound on the faults of both

\* An outbox with an S2 destination, and perhaps NATS before or after it.
ASSUME DestsAssumption ==
  /\ PlS2 # PlNats
  /\ PlDestOrder \in {<<PlS2>>, <<PlS2, PlNats>>, <<PlNats, PlS2>>}
ASSUME EventsAssumption ==
  /\ PlNoSubject \notin PlSubjects
  /\ PlSubjectOf \in [PlEvents -> PlSubjects \cup {PlNoSubject}]
ASSUME ReplicasAssumption == PlNoReplica \notin PlPublishers \cup PlConsumers
ASSUME LimitsAssumption ==
  /\ PlSessionLoss \in BOOLEAN
  /\ PlLostAnswers \in Nat /\ PlMaxRecords \in Nat /\ PlMaxFaults \in Nat

VARIABLES
  \* the outbox
  plNextId, plTx, plOutboxId, plRecord, plDelivery, plReceived, plOutLock, plOutPc, plPass,
  \* the stream with id PlStream
  plFeed,
  \* the inbox
  plCursor, plProcessed, plInLock, plLive, plInPc, plSrc, plRead, plHandled, plSkipped, plReruns,
  \* faults of both so far
  plFaults

outVars == <<plNextId, plTx, plOutboxId, plRecord, plDelivery, plReceived, plOutLock, plOutPc, plPass>>
inVars == <<plCursor, plProcessed, plInLock, plLive, plInPc, plSrc,
            plRead, plHandled, plSkipped, plReruns>>
pipeVars == <<outVars, inVars, plFeed, plFaults>>

\* Stream.ID of StreamFor or StreamForWithTenant: exposure and name, behind the tenant
\* when the envelope has one.
StreamID(e) ==
  LET global == <<IF e \in PlPublic THEN "public" ELSE "private", PlFeedOf[e]>>
  IN IF PlTenantOf[e] = PlNoTenant THEN global ELSE <<PlTenantOf[e]>> \o global

\* Destination.Accepts: S2 takes every feed, NATS no public one.
DestAccepts == [e \in PlEvents |->
  {d \in {PlDestOrder[i] : i \in DOMAIN PlDestOrder} : d = PlNats => e \notin PlPublic}]

O == INSTANCE Outbox WITH
  Replicas <- PlPublishers, Events <- PlEvents, DestOrder <- PlDestOrder,
  Subjects <- PlSubjects, NoSubject <- PlNoSubject, SubjectOf <- PlSubjectOf,
  Accepts <- DestAccepts, Unroutable <- {}, Rejected <- {}, NoReplica <- PlNoReplica,
  MaxAttempts <- 1, BatchSize <- 2, CleanupBatchSize <- 1, SerialWriters <- TRUE,
  SessionLoss <- PlSessionLoss, LongStall <- PlSessionLoss, MaxFaults <- PlMaxFaults,
  nextId <- plNextId, tx <- plTx, outboxId <- plOutboxId, record <- plRecord,
  delivery <- plDelivery, received <- plReceived, lock <- plOutLock, pc <- plOutPc,
  pass <- plPass, faults <- plFaults

I == INSTANCE Inbox WITH
  Replicas <- PlConsumers, Events <- PlEvents, Malformed <- {}, NoReplica <- PlNoReplica,
  Dedup <- TRUE, SkipOnError <- FALSE, FromTail <- FALSE, SessionLoss <- PlSessionLoss,
  Crashes <- TRUE, MaxRecords <- PlMaxRecords, MaxFaults <- PlMaxFaults,
  feed <- plFeed, cursor <- plCursor, processed <- plProcessed, lock <- plInLock,
  live <- plLive, pc <- plInPc, src <- plSrc, read <- plRead, handled <- plHandled,
  skipped <- plSkipped, reruns <- plReruns, faults <- plFaults

PipeInit == O!Init /\ I!Init

-----------------------------------------------------------------------------
(* The destinations: what a publish leaves in the consumed stream.           *)

\* S2Destination.Publish appends one record to the stream of the event's id; NATS
\* publishes elsewhere.
Appended(r) ==
  LET e == O!Del(r).event IN
  IF O!Dest(r) = PlS2 /\ StreamID(e) = PlStream
  THEN Len(plFeed) < PlMaxRecords /\ plFeed' = Append(plFeed, e)
  ELSE plFeed' = plFeed

PipePublish(r) == O!PublishAcked(r) /\ Appended(r) /\ UNCHANGED inVars

\* Publish reports an error: of the transport, with the record appended or not.
PipePublishFails(r) ==
  /\ O!PublishFailed(r)
  /\ \/ /\ O!Del(r).event \in plReceived'[O!Dest(r)]
        /\ Len(plFeed) < PlLostAnswers
        /\ Appended(r)
     \/ plReceived' = plReceived /\ UNCHANGED plFeed
  /\ UNCHANGED inVars

\* Every other step of the outbox; those of the environment have no fairness.
PipeOutStep(r) ==
  /\ O!TryLock(r) \/ O!Ping(r) \/ O!Query(r) \/ O!LoadRecords(r) \/ O!EndWindow(r)
     \/ O!SkipHeld(r) \/ O!MissingRecord(r) \/ O!Attempt(r) \/ O!SaveAck(r)
     \/ O!SaveFailure(r) \/ O!CountOutstanding(r) \/ O!MarkDelivered(r)
     \/ O!DrainTick(r) \/ O!SelectExpired(r) \/ O!Purge(r) \/ O!Restart(r)
  /\ UNCHANGED <<inVars, plFeed>>

PipeOutFault(r) ==
  /\ O!StatementFails(r) \/ O!PurgeFails(r) \/ O!Crash(r)
  /\ UNCHANGED <<inVars, plFeed>>

PipeProduce(e) ==
  /\ O!Insert(e) \/ O!Commit(e) \/ O!Rollback(e)
  /\ UNCHANGED <<inVars, plFeed>>

\* The steps of the inbox, and the ping that finds a term's session dead.
PipeHandle(r) == I!HandlerOk(r) /\ UNCHANGED outVars

PipeInStep(r) ==
  /\ I!Step(r) \/ I!Restart(r) \/ (plInLock # r /\ I!PingFails(r))
  /\ UNCHANGED outVars

PipeInFault(r) ==
  /\ I!PingFails(r) \/ I!SeenFails(r) \/ I!ReceiveFails(r) \/ I!Crash(r)
  /\ UNCHANGED outVars

PipeLoseSession ==
  \/ O!LoseSession /\ UNCHANGED <<inVars, plFeed>>
  \/ I!LoseSession /\ UNCHANGED outVars

PipeNext ==
  \/ \E e \in PlEvents : PipeProduce(e)
  \/ \E r \in PlPublishers :
       PipePublish(r) \/ PipePublishFails(r) \/ PipeOutStep(r) \/ PipeOutFault(r)
  \/ \E r \in PlConsumers : PipeInStep(r) \/ PipeInFault(r)
  \/ PipeLoseSession

PipeSpec == PipeInit /\ [][PipeNext]_pipeVars

\* Both loops keep taking steps, dead replicas are restarted and a dead term ends; a
\* destination that is tried for ever accepts, and a handler that is called for ever
\* succeeds, now and then (weaker than what Outbox and Inbox assume of each event).
PipeFairness ==
  /\ \A r \in PlPublishers :
       WF_pipeVars(PipePublish(r) \/ PipePublishFails(r) \/ PipeOutStep(r))
  /\ \A r \in PlConsumers : WF_pipeVars(PipeInStep(r))
  /\ SF_pipeVars(\E r \in PlPublishers : PipePublish(r))
  /\ SF_pipeVars(\E r \in PlConsumers : PipeHandle(r))

-----------------------------------------------------------------------------
(* Properties *)

\* The consumer's handler has taken the event.
HandledEvents == I!HandledEvents

\* A committed event of the consumed stream is always somewhere: pending in the outbox,
\* in the stream at or after the cursor, or with the handler.  No failed publish, crash,
\* takeover, retention or ack at either end drops it in between.
NothingInBetween ==
  \A e \in PlEvents : plTx[e] = "committed" /\ StreamID(e) = PlStream =>
    \/ plDelivery[e][PlS2].status = "pending"
    \/ \E i \in I!Positions : i < Len(plFeed) /\ I!EventAt(i) = e /\ plCursor <= i
    \/ e \in HandledEvents

\* Seen from the two ends the pipeline is a delivery with one destination, the
\* handler, which accepts the events of its stream.
Delivery == INSTANCE EventDelivery WITH
  Events <- PlEvents, Dests <- {"handler"}, NoSubject <- PlNoSubject,
  SubjectOf <- PlSubjectOf,
  Accepts <- [e \in PlEvents |-> IF StreamID(e) = PlStream THEN {"handler"} ELSE {}],
  rank <- [e \in PlEvents |-> IF plTx[e] = "committed" THEN plOutboxId[e] ELSE 0],
  received <- [h \in {"handler"} |-> HandledEvents]

\* The handler first takes a subject's events in the order of their commits, none that
\* was not committed and none of another stream, over failed publishes, duplicates,
\* crashes and takeovers at both ends (outbox.go's and inbox.go's "in order per subject").
PipelineDelivers == Delivery!Spec

\* ... and in the end it has taken every one that was ("at least once").
EventuallyHandled ==
  \A e \in PlEvents :
    plTx[e] = "committed" /\ StreamID(e) = PlStream
      ~> e \in HandledEvents \/ I!AllReturned
=============================================================================
