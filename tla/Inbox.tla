------------------------------- MODULE Inbox -------------------------------
(***************************************************************************)
(* The inbound side of the event pipeline (events/inbox): Consume reads an *)
(* S2 feed through s2Source, whose advisory leader lets one replica read   *)
(* at a time, hands each record to the handler, and advances a cursor kept *)
(* in the consumer's database.  A record is its position in the feed; a    *)
(* record's event is feed[position].                                       *)
(***************************************************************************)
EXTENDS Integers, Sequences, FiniteSets

CONSTANTS
    Replicas,      \* processes that call Consume
    Events,        \* events the feed may carry, an event possibly twice
    Malformed,     \* events that do not decode, or that the handler never takes
    NoReplica,     \* no session holds the feed's advisory lock
    Dedup,         \* TRUE: WithDedup
    SkipOnError,   \* TRUE: the ErrorHandler answers Skip, FALSE: Retry
    FromTail,      \* TRUE: WithBootstrapFromTail
    SessionLoss,   \* TRUE: the lock's session may die under a live leader
    Crashes,       \* TRUE: processes may die
    MaxRecords,    \* bound on the length of the feed
    MaxFaults      \* bound on crashes, lost sessions and failed calls

ASSUME ReplicasAssumption == NoReplica \notin Replicas
ASSUME EventsAssumption == Malformed \subseteq Events
ASSUME SwitchesAssumption == {Dedup, SkipOnError, FromTail, SessionLoss, Crashes} \subseteq BOOLEAN
ASSUME BoundsAssumption == MaxRecords \in Nat /\ MaxFaults \in Nat

VARIABLES
    feed,        \* the S2 stream: a sequence of events; positions start at 0
    cursor,      \* the persisted cursor row, None before the first ack
    processed,   \* Dedup's event_ids
    lock,        \* the replica whose session holds the advisory lock
    live,        \* live[r]: r's leadership term is not cancelled
    pc,          \* pc[r]: where r's Consume loop is
    src,         \* src[r]: the fields of r's s2Source and the record in hand
    read,        \* positions some replica's Receive has returned
    handled,     \* positions whose handler returned nil
    skipped,     \* positions the error policy gave up
    reruns,      \* handler runs that ended well for an event already handled
    faults       \* faults so far

vars == <<feed, cursor, processed, lock, live, pc, src, read, handled, skipped, reruns, faults>>
outcome == <<read, handled, skipped, reruns>>

None == -1
FeedTail == -2

Positions == 0..(MaxRecords - 1)
EventAt(i) == feed[i + 1]
HandledEvents == {EventAt(i) : i \in handled}

Fault == faults < MaxFaults /\ faults' = faults + 1

States == {"receive", "load", "open", "next", "decode", "handle", "mark", "ack",
           "down", "stopped"}

\* session: the position the open read session is at; start: what reopen chose;
\* record: the position in hand; tail: tailResolvedPosition.
Source == [session : Positions \cup {None, MaxRecords},
           start : Positions \cup {None, FeedTail, MaxRecords},
           record : Positions \cup {None}, tail : Positions \cup {None}]

NewSource == [session |-> None, start |-> None, record |-> None, tail |-> None]

Goto(r, state) == pc' = [pc EXCEPT ![r] = state]
SetSource(r, s) == src' = [src EXCEPT ![r] = s]

\* closeSession, and back to the head of the Consume loop.
CloseAndRetry(r) ==
    /\ SetSource(r, [src[r] EXCEPT !.session = None, !.start = None, !.record = None])
    /\ Goto(r, "receive")

Event(r) == EventAt(src[r].record)

Init ==
    /\ feed = <<>>
    /\ cursor = None
    /\ processed = {}
    /\ lock = NoReplica
    /\ live = [r \in Replicas |-> FALSE]
    /\ pc = [r \in Replicas |-> "receive"]
    /\ src = [r \in Replicas |-> NewSource]
    /\ read = {} /\ handled = {} /\ skipped = {} /\ reruns = 0
    /\ faults = 0

\* A publisher appends a record (at least once: an event may come again).
AppendRecord(e) ==
    /\ Len(feed) < MaxRecords
    /\ feed' = Append(feed, e)
    /\ UNCHANGED <<cursor, processed, lock, live, pc, src, outcome, faults>>

-----------------------------------------------------------------------------
(* advisoryLeader.                                                         *)

\* Mutant: the session survives a new term.
AcquireKeepsSession(r) ==
    /\ pc[r] = "receive"
    /\ ~live[r]
    /\ lock = NoReplica
    /\ lock' = r
    /\ live' = [live EXCEPT ![r] = TRUE]
    /\ Goto(r, IF src[r].session = None THEN "load" ELSE "next")
    /\ UNCHANGED <<feed, cursor, processed, src, outcome, faults>>

\* ensureLeading acquires a new term; the source drops its session, for
\* another replica may have advanced the cursor.
Acquire(r) ==
    /\ pc[r] = "receive"
    /\ ~live[r]
    /\ lock = NoReplica
    /\ lock' = r
    /\ live' = [live EXCEPT ![r] = TRUE]
    /\ SetSource(r, [src[r] EXCEPT !.session = None])
    /\ Goto(r, "load")
    /\ UNCHANGED <<feed, cursor, processed, outcome, faults>>

\* ensureLeading finds the term alive.
StillLeading(r) ==
    /\ pc[r] = "receive"
    /\ live[r]
    /\ Goto(r, IF src[r].session = None THEN "load" ELSE "next")
    /\ UNCHANGED <<feed, cursor, processed, lock, live, src, outcome, faults>>

\* Mutant: the connection that holds the lock is never given back.
TermWithoutUnlock(r) ==
    /\ live[r]
    /\ \/ lock # r /\ UNCHANGED faults
       \/ lock = r /\ Fault
    /\ live' = [live EXCEPT ![r] = FALSE]
    /\ UNCHANGED <<feed, cursor, processed, lock, pc, src, outcome>>

\* hold: the ping fails, because the session is gone or for a reason of its own;
\* the term is cancelled and then the lock released.
PingFails(r) ==
    /\ live[r]
    /\ \/ lock # r /\ UNCHANGED <<lock, faults>>
       \/ lock = r /\ lock' = NoReplica /\ Fault
    /\ live' = [live EXCEPT ![r] = FALSE]
    /\ UNCHANGED <<feed, cursor, processed, pc, src, outcome>>

-----------------------------------------------------------------------------
(* s2Source.                                                               *)

\* Mutant: the bootstrap position is forgotten on a reopen.
ReopenForgetsTail(r) ==
    IF cursor # None THEN cursor ELSE IF FromTail THEN FeedTail ELSE 0

\* reopen: where to read from.  A persisted cursor wins.
ReopenAt(r) ==
    IF cursor # None THEN cursor
    ELSE IF ~FromTail THEN 0
    ELSE IF src[r].tail # None THEN src[r].tail
    ELSE FeedTail

\* cursors.Load.
Load(r) ==
    /\ pc[r] = "load"
    /\ live[r]
    /\ SetSource(r, [src[r] EXCEPT !.start = ReopenAt(r)])
    /\ Goto(r, "open")
    /\ UNCHANGED <<feed, cursor, processed, lock, live, outcome, faults>>

\* newSession: the tail is where the feed ends when the session opens.
Open(r) ==
    /\ pc[r] = "open"
    /\ live[r]
    /\ SetSource(r, [src[r] EXCEPT
           !.session = IF src[r].start = FeedTail THEN Len(feed) ELSE src[r].start,
           !.start = None])
    /\ Goto(r, "next")
    /\ UNCHANGED <<feed, cursor, processed, lock, live, outcome, faults>>

\* Load or newSession run under the term's context: once it is cancelled they
\* fail with context.Canceled, Receive returns that as it is, and Consume takes
\* it for its own cancellation and returns.
Cancelled(r) ==
    /\ pc[r] \in {"load", "open"}
    /\ ~live[r]
    /\ Goto(r, "stopped")
    /\ UNCHANGED <<feed, cursor, processed, lock, live, src, outcome, faults>>

\* session.Next returns a record.
ReadRecord(r) ==
    /\ pc[r] = "next"
    /\ src[r].session < Len(feed)
    /\ SetSource(r, [src[r] EXCEPT !.record = src[r].session, !.tail = src[r].session,
                                   !.session = @ + 1])
    /\ read' = read \cup {src[r].session}
    /\ Goto(r, "decode")
    /\ UNCHANGED <<feed, cursor, processed, lock, live, handled, skipped, reruns, faults>>

\* session.Next fails because the term ended: errLeadershipLost, retried.
NextLost(r) ==
    /\ pc[r] = "next"
    /\ ~live[r]
    /\ CloseAndRetry(r)
    /\ UNCHANGED <<feed, cursor, processed, lock, live, outcome, faults>>

-----------------------------------------------------------------------------
(* handleOne.                                                              *)

\* Mutant: a failed record that is to be redelivered leaves the session open.
DisposeKeepsSession(r) ==
    IF SkipOnError
    THEN /\ skipped' = skipped \cup {src[r].record}
         /\ Goto(r, "ack")
         /\ UNCHANGED src
    ELSE /\ SetSource(r, [src[r] EXCEPT !.record = None])
         /\ Goto(r, "receive")
         /\ UNCHANGED skipped

\* dispose: skip past the record, or Nack it by closing the session.
Dispose(r) ==
    IF SkipOnError
    THEN /\ skipped' = skipped \cup {src[r].record}
         /\ Goto(r, "ack")
         /\ UNCHANGED src
    ELSE CloseAndRetry(r) /\ UNCHANGED skipped

\* Mutant: Seen is never asked.
DecodeWithoutSeen(r) ==
    /\ pc[r] = "decode"
    /\ IF Event(r) \in Malformed
       THEN Dispose(r)
       ELSE Goto(r, "handle") /\ UNCHANGED <<src, skipped>>
    /\ UNCHANGED <<feed, cursor, processed, lock, live, read, handled, reruns, faults>>

\* Decode and the dedup check; a duplicate is acked without its handler.
Decode(r) ==
    /\ pc[r] = "decode"
    /\ IF Event(r) \in Malformed
       THEN Dispose(r)
       ELSE /\ Goto(r, IF Dedup /\ Event(r) \in processed THEN "ack" ELSE "handle")
            /\ UNCHANGED <<src, skipped>>
    /\ UNCHANGED <<feed, cursor, processed, lock, live, read, handled, reruns, faults>>

\* The handler returns nil.
HandlerOk(r) ==
    /\ pc[r] = "handle"
    /\ handled' = handled \cup {src[r].record}
    /\ reruns' = IF Event(r) \in HandledEvents THEN reruns + 1 ELSE reruns
    /\ Goto(r, IF Dedup THEN "mark" ELSE "ack")
    /\ UNCHANGED <<feed, cursor, processed, lock, live, src, read, skipped, faults>>

\* The handler returns an error.
HandlerFails(r) ==
    /\ pc[r] = "handle"
    /\ Dispose(r)
    /\ UNCHANGED <<feed, cursor, processed, lock, live, read, handled, reruns, faults>>

\* Dedup.Seen fails.
SeenFails(r) ==
    /\ Fault
    /\ Dedup
    /\ pc[r] = "decode"
    /\ Event(r) \notin Malformed
    /\ Dispose(r)
    /\ UNCHANGED <<feed, cursor, processed, lock, live, read, handled, reruns>>

\* Dedup.Mark is best effort: its failure does not keep the record from being
\* acked.
Mark(r) ==
    /\ pc[r] = "mark"
    /\ \/ processed' = processed \cup {Event(r)} /\ UNCHANGED faults
       \/ Fault /\ UNCHANGED processed
    /\ Goto(r, "ack")
    /\ UNCHANGED <<feed, cursor, lock, live, src, outcome>>

\* Mutant: the cursor is advanced by a former leader too.
AckWithoutTerm(r) ==
    /\ pc[r] = "ack"
    /\ cursor' = src[r].record + 1
    /\ SetSource(r, [src[r] EXCEPT !.record = None, !.tail = None])
    /\ Goto(r, "receive")
    /\ UNCHANGED <<feed, processed, lock, live, outcome, faults>>

\* Mutant: the cursor moves one past the record's Next.
AckSkipsOne(r) ==
    /\ pc[r] = "ack"
    /\ live[r]
    /\ cursor' = src[r].record + 2
    /\ SetSource(r, [src[r] EXCEPT !.record = None, !.tail = None])
    /\ Goto(r, "receive")
    /\ UNCHANGED <<feed, processed, lock, live, outcome, faults>>

\* Ack: cursors.Advance under the term's context.
Ack(r) ==
    /\ pc[r] = "ack"
    /\ live[r]
    /\ cursor' = src[r].record + 1
    /\ SetSource(r, [src[r] EXCEPT !.record = None, !.tail = None])
    /\ Goto(r, "receive")
    /\ UNCHANGED <<feed, processed, lock, live, outcome, faults>>

\* The term is cancelled, or Advance fails: the cursor stays, the session is
\* closed, and the error is only logged.
AckFails(r) ==
    /\ pc[r] = "ack"
    /\ \/ ~live[r] /\ UNCHANGED faults
       \/ live[r] /\ Fault
    /\ CloseAndRetry(r)
    /\ UNCHANGED <<feed, cursor, processed, lock, live, outcome>>

-----------------------------------------------------------------------------
(* Faults.                                                                 *)

\* Receive fails with a transport or database error: Consume waits and calls it
\* again.
ReceiveFails(r) ==
    /\ Fault
    /\ pc[r] \in {"load", "open", "next"}
    /\ CloseAndRetry(r)
    /\ UNCHANGED <<feed, cursor, processed, lock, live, outcome>>

\* The database drops the lock's session; its holder finds out at a ping.
LoseSession ==
    /\ Fault
    /\ SessionLoss
    /\ lock # NoReplica
    /\ lock' = NoReplica
    /\ UNCHANGED <<feed, cursor, processed, live, pc, src, outcome>>

\* The process dies, or its own context is cancelled.
Crash(r) ==
    /\ Fault
    /\ Crashes
    /\ pc[r] # "down"
    /\ Goto(r, "down")
    /\ SetSource(r, NewSource)
    /\ live' = [live EXCEPT ![r] = FALSE]
    /\ lock' = IF lock = r THEN NoReplica ELSE lock
    /\ UNCHANGED <<feed, cursor, processed, outcome>>

Restart(r) ==
    /\ pc[r] = "down"
    /\ Goto(r, "receive")
    /\ UNCHANGED <<feed, cursor, processed, lock, live, src, outcome, faults>>

-----------------------------------------------------------------------------

\* The steps Consume takes on its own.
Step(r) ==
    \/ Acquire(r) \/ StillLeading(r) \/ Load(r) \/ Open(r) \/ Cancelled(r)
    \/ ReadRecord(r) \/ NextLost(r)
    \/ Decode(r) \/ HandlerOk(r) \/ HandlerFails(r) \/ Mark(r) \/ Ack(r)
    \/ AckFails(r)

Next ==
    \/ \E e \in Events : AppendRecord(e)
    \/ \E r \in Replicas : \/ Step(r) \/ PingFails(r) \/ SeenFails(r)
                           \/ ReceiveFails(r) \/ Crash(r) \/ Restart(r)
    \/ LoseSession

Spec == Init /\ [][Next]_vars

\* Consume keeps taking steps, the lock's connection is pinged, a dead replica
\* is restarted, and a handler that is retried for ever succeeds.
Fairness ==
    /\ \A r \in Replicas : /\ WF_vars(Step(r)) /\ WF_vars(Restart(r))
                           /\ WF_vars(lock # r /\ PingFails(r))
    /\ \A i \in Positions :
          SF_vars(\E r \in Replicas : HandlerOk(r) /\ src[r].record = i)

FairSpec == Spec /\ Fairness

-----------------------------------------------------------------------------
(* Properties.                                                             *)

\* Every variable has its type: no session or cursor leaves the feed's positions.
TypeOK ==
    /\ feed \in Seq(Events) /\ Len(feed) <= MaxRecords
    /\ cursor \in 0..MaxRecords \cup {None}
    /\ processed \subseteq Events
    /\ lock \in Replicas \cup {NoReplica}
    /\ live \in [Replicas -> BOOLEAN]
    /\ pc \in [Replicas -> States]
    /\ src \in [Replicas -> Source]
    /\ read \subseteq Positions /\ handled \subseteq Positions /\ skipped \subseteq Positions
    /\ reruns \in Nat
    /\ faults \in 0..MaxFaults

\* Consume is done with a record: its handler succeeded, the error policy gave
\* it up, or it is a duplicate of an event the handler has taken.
Settled(i) ==
    \/ i \in handled \cup skipped
    \/ Dedup /\ i < Len(feed) /\ EventAt(i) \in HandledEvents

SettledBelow(n) == \A i \in Positions : i < n => Settled(i)

\* "The cursor never leads the handler": a record before the persisted cursor
\* is settled, with two readers at once, failed acks and crashes.
CursorNeverLeads == ~FromTail => SettledBelow(cursor)

\* Records are handled in stream order: when a record was handled, every earlier
\* one was settled, whichever replica it was that handled it.
HandledInOrder == ~FromTail => \A i \in handled : SettledBelow(i)

\* What the two need to be inductive.  A record in hand is the one before its
\* session's position; a replica, leader or not, settles everything before the
\* position it is at, the term it reads in notwithstanding.
InHand == {"decode", "handle", "mark", "ack"}

Shape(r) ==
    /\ pc[r] = "open" => src[r].start # None /\ (src[r].start = FeedTail => FromTail)
    /\ pc[r] = "next" => src[r].session # None
    /\ pc[r] = "down" => src[r].session = None
    /\ pc[r] \in InHand => /\ src[r].record \in 0..(Len(feed) - 1)
                            /\ src[r].session = src[r].record + 1

Order(r) ==
    /\ pc[r] = "open" => SettledBelow(src[r].start)
    /\ pc[r] \in {"receive", "next"} => SettledBelow(src[r].session)
    /\ pc[r] \in InHand => SettledBelow(src[r].record)
    /\ pc[r] = "ack" => Settled(src[r].record)

HandledMarks ==
    /\ \A i \in handled : i < Len(feed)
    /\ processed \subseteq HandledEvents
    /\ \A r \in Replicas : pc[r] = "mark" => src[r].record \in handled

ConsumerInv ==
    /\ HandledMarks
    /\ CursorNeverLeads
    /\ HandledInOrder
    /\ \A r \in Replicas : Shape(r) /\ (~FromTail => Order(r))

\* A record that was returned by Receive is never passed over by the cursor
\* before it is settled, from-tail bootstrap included.
NothingReadIsLost == \A i \in read : i < cursor => Settled(i)

\* The cursor never goes back: a former leader does not write over the position
\* of the new one.
CursorMonotone == [][cursor' >= cursor]_vars

\* Dedup suppresses the second run of a handler for an event, up to one run for
\* each crash, failed mark or handover.
RerunsAreFaults == reruns <= faults

\* Consume does not return while its own context lives.
NeverReturns == \A r \in Replicas : pc[r] # "stopped"

\* Record i decodes, and so does every record before it, or is skipped.
Reachable(i) == SkipOnError \/ \A j \in 0..i : EventAt(j) \notin Malformed

\* Every Consume has returned for the end of a term (NeverReturns).
AllReturned == \A r \in Replicas : pc[r] = "stopped"

\* Every record is settled in the end, unless a malformed one that is to be
\* retried blocks the feed or nobody is left to consume it.
EventuallySettled ==
    \A i \in Positions :
        (i < Len(feed) /\ Reachable(i)) ~> Settled(i) \/ AllReturned
=============================================================================
