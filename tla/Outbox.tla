------------------------------- MODULE Outbox -------------------------------
(***************************************************************************)
(* The transactional outbox (events/outbox): producers insert an event and *)
(* one delivery row per eligible destination inside a database             *)
(* transaction; replicas race for a Postgres advisory lock, and the holder *)
(* drains the delivery table into the destinations and purges what has     *)
(* been delivered.  Every database statement is a step of its own, so      *)
(* crashes, failed statements and a lost lock session fall between them.   *)
(*                                                                         *)
(* An event stands for one emission: its row of event_outbox is record[e], *)
(* its rows of event_outbox_delivery are delivery[e][d].  published_at is  *)
(* abstracted to the status "pending" (NULL) or "published" (set).         *)
(***************************************************************************)
EXTENDS Integers, Sequences, FiniteSets

CONSTANTS
    Replicas,          \* processes that call Run
    Events,            \* emissions the producers may make
    DestOrder,         \* Outbox.dests: the destinations, in order
    Subjects,          \* non-empty envelope subjects
    NoSubject,         \* the empty subject
    SubjectOf,         \* [Events -> Subjects \cup {NoSubject}]
    Accepts,           \* [Events -> SUBSET Dests]: eligibleDestinations
    Unroutable,        \* events whose FQN the draining binary cannot resolve
    Rejected,          \* events the destinations refuse every time
    NoReplica,         \* no session holds the advisory lock
    MaxAttempts,       \* failures after which a delivery is flagged stuck
    BatchSize,         \* Outbox.batchSize
    CleanupBatchSize,  \* Outbox.cleanupBatchSize
    SerialWriters,     \* TRUE: producers' transactions never overlap
    SessionLoss,       \* TRUE: the lock's session may die under a live leader
    LongStall,         \* TRUE: a pass may be stalled longer than the retention
    MaxFaults          \* bound on crashes, failed statements and lost sessions

Dests == {DestOrder[i] : i \in 1..Len(DestOrder)}

ASSUME ReplicasAssumption == NoReplica \notin Replicas
ASSUME DestsAssumption ==
    /\ DestOrder \in Seq(Dests)
    /\ Len(DestOrder) > 0
    /\ \A i, j \in 1..Len(DestOrder) : DestOrder[i] = DestOrder[j] => i = j
ASSUME EventsAssumption ==
    /\ NoSubject \notin Subjects
    /\ SubjectOf \in [Events -> Subjects \cup {NoSubject}]
    /\ Accepts \in [Events -> SUBSET Dests]
ASSUME LimitsAssumption ==
    /\ MaxAttempts \in Nat \ {0}
    /\ BatchSize \in Nat \ {0}
    /\ CleanupBatchSize \in Nat \ {0}
    /\ MaxFaults \in Nat
ASSUME SwitchesAssumption == {SerialWriters, SessionLoss, LongStall} \subseteq BOOLEAN

VARIABLES
    nextId,      \* the id sequence of event_outbox
    tx,          \* tx[e]: the transaction that emits e
    outboxId,    \* outboxId[e]: the id e's record was given, 0 before
    record,      \* record[e]: e's committed row of event_outbox
    delivery,    \* delivery[e][d]: the committed row for destination d
    received,    \* received[d]: events destination d has durably accepted
    lock,        \* the replica whose session holds the advisory lock
    pc,          \* pc[r]: the next statement of replica r's Run
    pass,        \* pass[r]: the locals of r's drain pass and cleanup
    faults       \* faults so far

tables == <<record, delivery>>
producers == <<nextId, tx, outboxId>>
vars == <<nextId, tx, outboxId, record, delivery, received, lock, pc, pass, faults>>

Row == [status : {"absent", "pending", "published"},
        attempts : 0..MaxAttempts, stuck : BOOLEAN]
NoRow == [status |-> "absent", attempts |-> 0, stuck |-> FALSE]
NewRow == [status |-> "pending", attempts |-> 0, stuck |-> FALSE]

\* A delivery as read into a window: the drain works on, and saves back,
\* this copy of the row.
WindowRow == [event : Events, row : Row]

Statements == {"query", "load", "row", "publish", "saveAck", "saveFailure",
               "count", "mark", "select", "purge", "ping"}

Pass == [dest : 1..Len(DestOrder), blocked : SUBSET Subjects,
         attempts : 0..BatchSize, cursor : Nat, window : SUBSET WindowRow,
         full : BOOLEAN, loaded : SUBSET Events, expired : SUBSET Events]

NewPass(i) == [dest |-> i, blocked |-> {}, attempts |-> 0, cursor |-> 0,
               window |-> {}, full |-> FALSE, loaded |-> {}, expired |-> {}]

\* Replica r goes on to a statement; its locals become p.
Goto(r, statement) == pc' = [pc EXCEPT ![r] = statement]
SetPass(r, p) == pass' = [pass EXCEPT ![r] = p]

Init ==
    /\ nextId = 1
    /\ tx = [e \in Events |-> "none"]
    /\ outboxId = [e \in Events |-> 0]
    /\ record = [e \in Events |-> "absent"]
    /\ delivery = [e \in Events |-> [d \in Dests |-> NoRow]]
    /\ received = [d \in Dests |-> {}]
    /\ lock = NoReplica
    /\ pc = [r \in Replicas |-> "standby"]
    /\ pass = [r \in Replicas |-> NewPass(1)]
    /\ faults = 0

-----------------------------------------------------------------------------
(* Producers: Emit in the caller's transaction, Send in its own.           *)

\* buildRecord and insert: the record takes its id from the sequence as it is
\* inserted, long before the transaction commits.  An event no destination
\* accepts is refused.
Insert(e) ==
    /\ tx[e] = "none"
    /\ Accepts[e] # {}
    /\ SerialWriters => \A f \in Events : tx[f] # "open"
    /\ tx' = [tx EXCEPT ![e] = "open"]
    /\ outboxId' = [outboxId EXCEPT ![e] = nextId]
    /\ nextId' = nextId + 1
    /\ UNCHANGED <<tables, received, lock, pc, pass, faults>>

\* The transaction commits: the record and its pending deliveries appear
\* together.
Commit(e) ==
    /\ tx[e] = "open"
    /\ tx' = [tx EXCEPT ![e] = "committed"]
    /\ record' = [record EXCEPT ![e] = "outstanding"]
    /\ delivery' = [delivery EXCEPT ![e] =
                       [d \in Dests |-> IF d \in Accepts[e] THEN NewRow ELSE NoRow]]
    /\ UNCHANGED <<nextId, outboxId, received, lock, pc, pass, faults>>

\* The business write or one of the inserts fails: nothing becomes visible.
Rollback(e) ==
    /\ tx[e] = "open"
    /\ tx' = [tx EXCEPT ![e] = "rolledback"]
    /\ UNCHANGED <<nextId, outboxId, tables, received, lock, pc, pass, faults>>

-----------------------------------------------------------------------------
(* Leadership: runWithLeader, leadAndDrain.                                *)

\* Mutant: the answer of pg_try_advisory_lock is ignored.
LockIgnored(r) ==
    /\ pc[r] = "standby"
    /\ lock' = IF lock = NoReplica THEN r ELSE lock
    /\ Goto(r, "query")
    /\ SetPass(r, NewPass(1))
    /\ UNCHANGED <<producers, tables, received, faults>>

\* pg_try_advisory_lock succeeds; the first pass starts at once.  (When it
\* fails the replica just waits for the next tick.)
TryLock(r) ==
    /\ pc[r] = "standby"
    /\ lock = NoReplica
    /\ lock' = r
    /\ Goto(r, "query")
    /\ SetPass(r, NewPass(1))
    /\ UNCHANGED <<producers, tables, received, faults>>

\* After a pass the loop pings the lock's connection: a leader whose session
\* is gone steps down, otherwise the next pass starts.
Ping(r) ==
    /\ pc[r] = "ping"
    /\ Goto(r, IF lock = r THEN "query" ELSE "standby")
    /\ SetPass(r, NewPass(1))
    /\ UNCHANGED <<producers, tables, received, lock, faults>>

-----------------------------------------------------------------------------
(* One pass over one destination: drainDestination.                        *)

Dest(r) == DestOrder[pass[r].dest]

\* Mutant: ORDER BY outbox_id DESC.
LastRowFirst(r) == CHOOSE w \in pass[r].window :
                      \A v \in pass[r].window : outboxId[w.event] >= outboxId[v.event]

\* The row the loop over the window is at: the smallest outbox_id left.
Del(r) == CHOOSE w \in pass[r].window :
              \A v \in pass[r].window : outboxId[w.event] <= outboxId[v.event]

Held(r, e) == SubjectOf[e] \in pass[r].blocked

\* Mutant: a failed delivery holds nothing back.
BlockNothing(blocked, e) == blocked

\* block: the empty subject is never held.
Block(blocked, e) == blocked \cup ({SubjectOf[e]} \cap Subjects)

\* The loop is done with the row it is at.
Rest(r) == pass[r].window \ {Del(r)}

\* drainDestination returned: drainOnce goes on to the next destination, the
\* last one ends the pass.
EndDest(r) ==
    IF pass[r].dest < Len(DestOrder)
    THEN /\ Goto(r, "query")
         /\ SetPass(r, NewPass(pass[r].dest + 1))
    ELSE /\ Goto(r, "select")
         /\ SetPass(r, NewPass(1))

Pending(r) ==
    {e \in Events : /\ delivery[e][Dest(r)].status = "pending"
                    /\ outboxId[e] > pass[r].cursor
                    /\ ~Held(r, e)}

\* ORDER BY outbox_id LIMIT n.
FirstRows(S, n) ==
    {e \in S : Cardinality({f \in S : outboxId[f] < outboxId[e]}) < n}

\* The window query.
Query(r) ==
    LET win == FirstRows(Pending(r), BatchSize) IN
    /\ pc[r] = "query"
    /\ IF win = {}
       THEN EndDest(r)
       ELSE /\ SetPass(r, [pass[r] EXCEPT
                  !.window = {[event |-> e, row |-> delivery[e][Dest(r)]] : e \in win},
                  !.full = (Cardinality(win) = BatchSize)])
            /\ Goto(r, "load")
    /\ UNCHANGED <<producers, tables, received, lock, faults>>

\* loadRecords: one query for the records of the window.
LoadRecords(r) ==
    /\ pc[r] = "load"
    /\ SetPass(r, [pass[r] EXCEPT !.loaded =
          {w.event : w \in {v \in pass[r].window : record[v.event] # "absent"}}])
    /\ Goto(r, "row")
    /\ UNCHANGED <<producers, tables, received, lock, faults>>

\* Mutant: a pass reads one window and never pages on.
EndWindowNoPaging(r) ==
    /\ pc[r] = "row"
    /\ pass[r].window = {} \/ pass[r].attempts = BatchSize
    /\ EndDest(r)
    /\ UNCHANGED <<producers, tables, received, lock, faults>>

\* Every row of the window is done, or the attempts are used up: page on
\* unless the window was the last.
EndWindow(r) ==
    /\ pc[r] = "row"
    /\ pass[r].window = {} \/ pass[r].attempts = BatchSize
    /\ IF pass[r].full /\ pass[r].attempts < BatchSize
       THEN /\ Goto(r, "query")
            /\ UNCHANGED pass
       ELSE EndDest(r)
    /\ UNCHANGED <<producers, tables, received, lock, faults>>

AtRow(r) ==
    /\ pc[r] = "row"
    /\ pass[r].window # {}
    /\ pass[r].attempts < BatchSize

\* The row's subject was blocked earlier in this window.
SkipHeld(r) ==
    /\ AtRow(r)
    /\ Held(r, Del(r).event)
    /\ SetPass(r, [pass[r] EXCEPT !.cursor = outboxId[Del(r).event],
                               !.window = Rest(r)])
    /\ UNCHANGED <<producers, tables, received, lock, pc, faults>>

\* The record was not found: the whole pass ends with an error.
MissingRecord(r) ==
    /\ AtRow(r)
    /\ ~Held(r, Del(r).event)
    /\ Del(r).event \notin pass[r].loaded
    /\ Goto(r, "select")
    /\ SetPass(r, NewPass(1))
    /\ UNCHANGED <<producers, tables, received, lock, faults>>

\* Count the attempt and resolve the routing; an unroutable record fails
\* without being published.
Attempt(r) ==
    /\ AtRow(r)
    /\ ~Held(r, Del(r).event)
    /\ Del(r).event \in pass[r].loaded
    /\ SetPass(r, [pass[r] EXCEPT !.cursor = outboxId[Del(r).event],
                               !.attempts = @ + 1])
    /\ Goto(r, IF Del(r).event \in Unroutable THEN "saveFailure" ELSE "publish")
    /\ UNCHANGED <<producers, tables, received, lock, faults>>

Receive(d, e) == received' = [received EXCEPT ![d] = @ \cup {e}]

\* Destination.Publish returns nil: the destination has the event.
PublishAcked(r) ==
    /\ pc[r] = "publish"
    /\ Del(r).event \notin Rejected
    /\ Receive(Dest(r), Del(r).event)
    /\ Goto(r, "saveAck")
    /\ UNCHANGED <<producers, tables, lock, pass, faults>>

\* Mutant: the error of Publish is dropped.
PublishErrorDropped(r) ==
    /\ pc[r] = "publish"
    /\ Goto(r, "saveAck")
    /\ UNCHANGED <<producers, tables, received, lock, pass, faults>>

\* Destination.Publish returns an error; the destination may have the event
\* all the same (the answer was lost).
PublishFailed(r) ==
    /\ pc[r] = "publish"
    /\ \/ Del(r).event \notin Rejected /\ Receive(Dest(r), Del(r).event)
       \/ UNCHANGED received
    /\ Goto(r, "saveFailure")
    /\ UNCHANGED <<producers, tables, lock, pass, faults>>

\* gorm's Save writes every column of the copy read by the window query, and
\* inserts the row again when it is gone.
Save(r, row) == delivery' = [delivery EXCEPT ![Del(r).event][Dest(r)] = row]

\* Mutant: the failure state stays on the published row.
SaveAckKeepsStuck(r) ==
    /\ pc[r] = "saveAck"
    /\ Save(r, [Del(r).row EXCEPT !.status = "published"])
    /\ Goto(r, "count")
    /\ UNCHANGED <<producers, record, received, lock, pass, faults>>

\* Mark the delivery published and clear its failure state.
SaveAck(r) ==
    /\ pc[r] = "saveAck"
    /\ Save(r, [Del(r).row EXCEPT !.status = "published", !.stuck = FALSE])
    /\ Goto(r, "count")
    /\ UNCHANGED <<producers, record, received, lock, pass, faults>>

\* recordFailure, then block the subject.  Attempts saturates at MaxAttempts:
\* it is only compared with it.
SaveFailure(r) ==
    LET w == Del(r)
        n == IF w.row.attempts < MaxAttempts THEN w.row.attempts + 1 ELSE MaxAttempts
    IN /\ pc[r] = "saveFailure"
       /\ Save(r, [w.row EXCEPT !.attempts = n,
                                !.stuck = @ \/ n >= MaxAttempts \/ w.event \in Unroutable])
       /\ SetPass(r, [pass[r] EXCEPT !.blocked = Block(@, w.event),
                                  !.window = Rest(r)])
       /\ Goto(r, "row")
       /\ UNCHANGED <<producers, record, received, lock, faults>>

\* Mutant: only this destination's delivery is counted.
CountOwnDestination(r) ==
    /\ pc[r] = "count"
    /\ delivery[Del(r).event][Dest(r)].status # "pending"
    /\ Goto(r, "mark")
    /\ UNCHANGED <<producers, tables, received, lock, pass, faults>>

\* Mutant: the published deliveries are counted.
CountPublished(r) ==
    LET e == Del(r).event IN
    /\ pc[r] = "count"
    /\ IF \E d \in Dests : delivery[e][d].status = "published"
       THEN Goto(r, "row") /\ SetPass(r, [pass[r] EXCEPT !.window = Rest(r)])
       ELSE Goto(r, "mark") /\ UNCHANGED pass
    /\ UNCHANGED <<producers, tables, received, lock, faults>>

\* maybeMarkDelivered: count the outstanding deliveries of the record ...
CountOutstanding(r) ==
    LET e == Del(r).event IN
    /\ pc[r] = "count"
    /\ IF \E d \in Dests : delivery[e][d].status = "pending"
       THEN /\ Goto(r, "row")
            /\ SetPass(r, [pass[r] EXCEPT !.window = Rest(r)])
       ELSE /\ Goto(r, "mark")
            /\ UNCHANGED pass
    /\ UNCHANGED <<producers, tables, received, lock, faults>>

\* ... and set delivered_at when there are none.  An UPDATE of a record that
\* is gone changes no row.
MarkDelivered(r) ==
    /\ pc[r] = "mark"
    /\ record' = [record EXCEPT ![Del(r).event] =
                     IF @ = "absent" THEN "absent" ELSE "delivered"]
    /\ SetPass(r, [pass[r] EXCEPT !.window = Rest(r)])
    /\ Goto(r, "row")
    /\ UNCHANGED <<producers, delivery, received, lock, faults>>

-----------------------------------------------------------------------------
(* Between passes: drainLoop's select, and Cleanup.                        *)

\* The drain ticker fires.
DrainTick(r) ==
    /\ pc[r] = "select"
    /\ Goto(r, "ping")
    /\ UNCHANGED <<producers, tables, received, lock, pass, faults>>

\* Mutant: records are purged by age alone.
ExpiredByAge == {e \in Events : record[e] # "absent"}

\* Records delivered longer ago than the retention.  Time is abstracted: any
\* delivered record may be old enough, except one that some pass read as
\* pending and still holds, unless passes may outlast the retention.
MayBeExpired ==
    {e \in Events : /\ record[e] = "delivered"
                    /\ \/ LongStall
                       \/ \A r \in Replicas : \A w \in pass[r].window : w.event # e}

\* The cleanup ticker fires and Cleanup selects what to delete.
SelectExpired(r) ==
    /\ pc[r] = "select"
    /\ \E ids \in SUBSET MayBeExpired :
          /\ Cardinality(ids) \in 1..CleanupBatchSize
          /\ SetPass(r, [pass[r] EXCEPT !.expired = ids])
    /\ Goto(r, "purge")
    /\ UNCHANGED <<producers, tables, received, lock, faults>>

\* One transaction deletes the selected deliveries and records.
Purge(r) ==
    /\ pc[r] = "purge"
    /\ record' = [e \in Events |-> IF e \in pass[r].expired THEN "absent" ELSE record[e]]
    /\ delivery' = [e \in Events |-> IF e \in pass[r].expired
                                     THEN [d \in Dests |-> NoRow] ELSE delivery[e]]
    /\ Goto(r, "ping")
    /\ SetPass(r, NewPass(1))
    /\ UNCHANGED <<producers, received, lock, faults>>

-----------------------------------------------------------------------------
(* Faults.                                                                 *)

Fault == faults < MaxFaults /\ faults' = faults + 1

\* A statement of a pass fails: drainOnce returns the error, which is logged.
StatementFails(r) ==
    /\ Fault
    /\ pc[r] \in {"query", "load", "saveAck", "saveFailure", "count", "mark"}
    /\ Goto(r, "select")
    /\ SetPass(r, NewPass(1))
    /\ UNCHANGED <<producers, tables, received, lock>>

\* Cleanup's transaction fails: logged, and the loop pings.
PurgeFails(r) ==
    /\ Fault
    /\ pc[r] = "purge"
    /\ Goto(r, "ping")
    /\ SetPass(r, NewPass(1))
    /\ UNCHANGED <<producers, tables, received, lock>>

\* The database drops the lock's session; the leader finds out at its next
\* ping, after the pass it is in.
LoseSession ==
    /\ Fault
    /\ SessionLoss
    /\ lock # NoReplica
    /\ lock' = NoReplica
    /\ UNCHANGED <<producers, tables, received, pc, pass>>

\* The process dies, or its context is cancelled: its session closes with it.
Crash(r) ==
    /\ Fault
    /\ pc[r] # "down"
    /\ Goto(r, "down")
    /\ SetPass(r, NewPass(1))
    /\ lock' = IF lock = r THEN NoReplica ELSE lock
    /\ UNCHANGED <<producers, tables, received>>

Restart(r) ==
    /\ pc[r] = "down"
    /\ Goto(r, "standby")
    /\ UNCHANGED <<producers, tables, received, lock, pass, faults>>

-----------------------------------------------------------------------------

\* The steps Run takes on its own.
Step(r) ==
    \/ TryLock(r) \/ Ping(r)
    \/ Query(r) \/ LoadRecords(r) \/ EndWindow(r)
    \/ SkipHeld(r) \/ MissingRecord(r) \/ Attempt(r)
    \/ PublishAcked(r) \/ PublishFailed(r)
    \/ SaveAck(r) \/ SaveFailure(r) \/ CountOutstanding(r) \/ MarkDelivered(r)
    \/ DrainTick(r) \/ SelectExpired(r) \/ Purge(r)

Next ==
    \/ \E e \in Events : Insert(e) \/ Commit(e) \/ Rollback(e)
    \/ \E r \in Replicas : \/ Step(r) \/ StatementFails(r) \/ PurgeFails(r)
                           \/ Crash(r) \/ Restart(r)
    \/ LoseSession

Spec == Init /\ [][Next]_vars

\* Run keeps taking steps (its tickers fire, its statements return), a dead
\* replica is restarted, and a destination that is retried for ever accepts an
\* event it does not refuse for good.
Fairness ==
    /\ \A r \in Replicas : WF_vars(Step(r)) /\ WF_vars(Restart(r))
    /\ \A e \in Events, i \in 1..Len(DestOrder) :
          SF_vars(\E r \in Replicas : /\ PublishAcked(r)
                                      /\ pass[r].dest = i
                                      /\ Del(r).event = e)

FairSpec == Spec /\ Fairness

-----------------------------------------------------------------------------
(* Properties.                                                             *)

\* Every variable has its type: among others a pass counts no more attempts than
\* its batch has and works on an existing destination.
TypeOK ==
    /\ nextId \in Nat \ {0}
    /\ tx \in [Events -> {"none", "open", "committed", "rolledback"}]
    /\ outboxId \in [Events -> Nat]
    /\ record \in [Events -> {"absent", "outstanding", "delivered"}]
    /\ delivery \in [Events -> [Dests -> Row]]
    /\ received \in [Dests -> SUBSET Events]
    /\ lock \in Replicas \cup {NoReplica}
    /\ pc \in [Replicas -> Statements \cup {"down", "standby"}]
    /\ pass \in [Replicas -> Pass]
    /\ faults \in 0..MaxFaults

\* The statements that work on the row the window loop is at.
HandlingRow == {"publish", "saveAck", "saveFailure", "count", "mark"}

HandlesARow == \A r \in Replicas : pc[r] \in HandlingRow => pass[r].window # {}

\* At-least-once (outbox.go): a committed event is, for every destination that
\* accepts it, either with the destination or still pending in the table --
\* through crashes, failed statements, overlapping leaders and cleanup.
AtLeastOnce ==
    \A e \in Events : tx[e] = "committed" =>
        \A d \in Accepts[e] : \/ e \in received[d]
                              \/ delivery[e][d].status = "pending"

\* A delivery marked published, and a record marked delivered, is with the
\* destination: nothing is marked, and so nothing is purged, on hope.
MarkedMeansReceived ==
    \A e \in Events, d \in Dests :
        \/ delivery[e][d].status = "published"
        \/ record[e] = "delivered" /\ d \in Accepts[e]
        => e \in received[d]

\* Emit commits or rolls back with the business write: a destination never
\* sees an event whose transaction did not commit.
OnlyCommitted ==
    \A d \in Dests : \A e \in received[d] : tx[e] = "committed" /\ d \in Accepts[e]

\* What AtLeastOnce and MarkedMeansReceived need to be inductive: rows belong
\* to committed events and accepting destinations ...
RowsOfCommitted ==
    \A e \in Events :
        /\ record[e] # "absent" => tx[e] = "committed"
        /\ \A d \in Dests : delivery[e][d].status # "absent" =>
               tx[e] = "committed" /\ d \in Accepts[e]

\* ... and a pass, however old its copies of the rows, is about to mark only
\* what was received and to delete only what every destination has.
ReceivedEverywhere(e) == \A d \in Accepts[e] : e \in received[d]

PassInv(r) ==
    /\ \A w \in pass[r].window : /\ tx[w.event] = "committed"
                                 /\ Dest(r) \in Accepts[w.event]
                                 /\ w.row.status = "pending"
    /\ pc[r] \in {"saveAck", "count"} => Del(r).event \in received[Dest(r)]
    /\ pc[r] = "mark" => ReceivedEverywhere(Del(r).event)
    /\ \A e \in pass[r].expired : ReceivedEverywhere(e)

DeliveryInv ==
    /\ AtLeastOnce /\ MarkedMeansReceived /\ OnlyCommitted /\ RowsOfCommitted
    /\ \A r \in Replicas : PassInv(r)

\* Per-subject order: a destination never has an event while an earlier
\* committed event of its subject is missing there ("downstream state never
\* advances past a gap").  As a state predicate that always holds it also
\* fixes the order in which the destination first receives them.
NoGap ==
    \A d \in Dests : \A f \in received[d] : \A e \in Events :
        /\ tx[e] = "committed" /\ d \in Accepts[e]
        /\ SubjectOf[e] = SubjectOf[f] /\ SubjectOf[e] # NoSubject
        /\ outboxId[e] < outboxId[f]
        => e \in received[d]

Draining(r) == pc[r] \in Statements \ {"select", "ping"}

\* Only the holder of the advisory lock drains (WithLeaderElection).
OnlyHolderDrains == \A r \in Replicas : Draining(r) => lock = r

\* delivered_at is nil while any delivery of the record is outstanding.
DeliveredMeansPublished ==
    \A e \in Events : record[e] = "delivered" =>
        \A d \in Dests : delivery[e][d].status # "pending"

\* A delivery acknowledged by its destination is never put back to pending: a
\* pass never writes an out-of-date copy of a row over a newer one.
NeverUnpublished ==
    [][\A e \in Events, d \in Dests :
          delivery[e][d].status = "published" => delivery'[e][d].status # "pending"]_vars

\* StatsReader.StateTotals over all history: one statement over both tables.
StateTotals ==
    LET rows == {e \in Events : record[e] # "absent"}
        stuck == {e \in rows : /\ record[e] # "delivered"
                               /\ \E d \in Dests : delivery[e][d].stuck}
        delivered == Cardinality({e \in rows : record[e] = "delivered"})
    IN [emitted |-> Cardinality(rows), delivered |-> delivered,
        pending |-> Cardinality(rows) - delivered, stuck |-> Cardinality(stuck)]

\* The stuck flag alerts on exactly the deliveries that failed MaxAttempts times
\* or cannot be routed and are still to be published: publishing clears it, no
\* write of a whole row brings it back or drops it, and the totals a monitor shows
\* miss none of the events that have one.
StuckMeansFailing ==
    /\ \A e \in Events, d \in Dests :
          delivery[e][d].stuck <=>
              /\ delivery[e][d].status = "pending"
              /\ \/ delivery[e][d].attempts = MaxAttempts
                 \/ e \in Unroutable /\ delivery[e][d].attempts > 0
    /\ StateTotals.stuck = Cardinality({e \in Events : \E d \in Dests : delivery[e][d].stuck})

\* An event that is not refused, behind no refused event of its subject, while
\* fewer subjects fail than a pass has attempts.
Failing == Rejected \cup Unroutable
FailingHeads ==
    ({SubjectOf[f] : f \in Failing} \ {NoSubject})
        \cup {f \in Failing : SubjectOf[f] = NoSubject}
Flowing(e) ==
    /\ e \notin Failing
    /\ \A f \in Failing : SubjectOf[f] # SubjectOf[e] \/ SubjectOf[e] = NoSubject

\* A failing delivery blocks only its own subject: every other committed event
\* reaches its destinations ...
EventuallyReceived ==
    \A e \in Events : Flowing(e) /\ Cardinality(FailingHeads) < BatchSize =>
        \A d \in Accepts[e] : tx[e] = "committed" ~> e \in received[d]

\* ... however many subjects fail ("other subjects and destinations keep flowing").
OthersKeepFlowing ==
    \A e \in Events : Flowing(e) =>
        \A d \in Accepts[e] : tx[e] = "committed" ~> e \in received[d]

\* "DeliveredAt is set once every Delivery for this record has been published":
\* a record whose deliveries are all published is marked, or already purged ...
AllPublished(e) ==
    record[e] = "outstanding" /\ \A d \in Dests : delivery[e][d].status # "pending"

\* ... whatever fails (drain.go's maybeMarkDelivered) ...
EventuallyMarked == \A e \in Events : AllPublished(e) ~> record[e] # "outstanding"

\* ... while nothing fails.
MarkedUnlessFault ==
    \A e \in Events : AllPublished(e) ~> record[e] # "outstanding" \/ faults > 0

\* The outbox implements EventDelivery: an event's rank is the id of its record.
Promise == INSTANCE EventDelivery WITH
    rank <- [e \in Events |-> IF tx[e] = "committed" THEN outboxId[e] ELSE 0]

ImplementsPromise == Promise!Spec
=============================================================================
