---------------------------- MODULE EndpointSync ----------------------------
(***************************************************************************)
(* The endpoint sync client (cloud/endpointsync): Emit appends an event to *)
(* a write-ahead log in SQLite, Sync reads the pending events in batches,  *)
(* sends them through a circuit breaker and drops from the log what the    *)
(* server has confirmed or refused for good.  Several callers, of one      *)
(* client or of several processes that share the log's file, may be in     *)
(* Sync at once; every transaction on the log is a step of its own.        *)
(*                                                                         *)
(* The log's mutex and its single connection make each transaction atomic. *)
(* An event is emitted once: ids come from NewEvent.                       *)
(***************************************************************************)
EXTENDS Integers, FiniteSets

CONSTANTS
    Clients,     \* SyncClients, one per process, on one log
    Callers,     \* calls of Sync that may be going on at once
    ClientOf,    \* [Callers -> Clients]
    Events,      \* events the tool may emit
    Corrupt,     \* events whose stored payload no longer decodes
    Invalid,     \* events the server refuses as INVALID_PAYLOAD
    BatchSize,   \* syncConfig.batchSize
    MaxPending,  \* wal.maxPending
    TripAfter,   \* consecutive failures that open the breaker
    MaxFaults    \* bound on failed statements and sends, cancellations, crashes

ASSUME CallersAssumption == ClientOf \in [Callers -> Clients]
ASSUME BoundsAssumption ==
    /\ BatchSize \in Nat \ {0}
    /\ MaxPending \in Nat
    /\ TripAfter \in Nat \ {0}
    /\ MaxFaults \in Nat

VARIABLES
    row,           \* row[e]: e's row of the table events
    rowId,         \* rowId[e]: the id it was inserted with, 0 before
    nextRow,       \* the autoincrement counter
    pendingCount,  \* wal_meta.pending_count
    server,        \* events the server has durably accepted
    synced,        \* the sum of totalSynced over all calls
    pc,            \* pc[p]: the next statement of caller p
    call,          \* call[p]: the locals of its Sync
    breaker,       \* breaker[c]: the circuit breaker of client c
    counted,       \* counted[p]: p's send belongs to the breaker's generation
    faults         \* faults so far

log == <<row, rowId, nextRow, pendingCount>>
sending == <<server, breaker, counted>>
vars == <<row, rowId, nextRow, pendingCount, server, synced, pc, call, breaker,
          counted, faults>>

Call == [batch : SUBSET Events, confirmed : SUBSET Events,
         dropped : SUBSET Events, after : {"read", "send", "discard"}]
NewCall == [batch |-> {}, confirmed |-> {}, dropped |-> {}, after |-> "read"]

Breaker == [state : {"closed", "open", "half"}, failures : 0..TripAfter]
Fresh(state) == [state |-> state, failures |-> 0]

Init ==
    /\ row = [e \in Events |-> "none"]
    /\ rowId = [e \in Events |-> 0]
    /\ nextRow = 1
    /\ pendingCount = 0
    /\ server = {}
    /\ synced = 0
    /\ pc = [p \in Callers |-> "idle"]
    /\ call = [p \in Callers |-> NewCall]
    /\ breaker = [c \in Clients |-> Fresh("closed")]
    /\ counted = [p \in Callers |-> FALSE]
    /\ faults = 0

Goto(p, statement) == pc' = [pc EXCEPT ![p] = statement]
SetCall(p, c) == call' = [call EXCEPT ![p] = c]

\* Sync returns; its locals are gone.
Return(p) == Goto(p, "idle") /\ SetCall(p, NewCall)

-----------------------------------------------------------------------------
(* The write-ahead log.                                                    *)

Pending == {e \in Events : row[e] = "pending"}
Emitted == {e \in Events : rowId[e] # 0}

\* Mutant: the limit is checked one too late.
EmitPastLimit(e) ==
    /\ e \notin Emitted
    /\ pendingCount <= MaxPending
    /\ row' = [row EXCEPT ![e] = "pending"]
    /\ rowId' = [rowId EXCEPT ![e] = nextRow]
    /\ nextRow' = nextRow + 1
    /\ pendingCount' = pendingCount + 1
    /\ UNCHANGED <<sending, synced, pc, call, faults>>

\* Emit: one transaction checks the limit, inserts the row and counts it.  A
\* full log, or any failure, refuses the event and changes nothing.
Emit(e) ==
    /\ e \notin Emitted
    /\ pendingCount < MaxPending
    /\ row' = [row EXCEPT ![e] = "pending"]
    /\ rowId' = [rowId EXCEPT ![e] = nextRow]
    /\ nextRow' = nextRow + 1
    /\ pendingCount' = pendingCount + 1
    /\ UNCHANGED <<sending, synced, pc, call, faults>>

\* Mutant: the counter is lowered by the number of ids asked for.
MarkCountsIds(ids) ==
    /\ row' = [e \in Events |-> IF e \in ids \cap Pending THEN "delivered" ELSE row[e]]
    /\ pendingCount' = pendingCount - Cardinality(ids)
    /\ UNCHANGED <<rowId, nextRow>>

\* markDelivered: only pending rows change, and only those are subtracted.
MarkDelivered(ids) ==
    /\ row' = [e \in Events |-> IF e \in ids \cap Pending THEN "delivered" ELSE row[e]]
    /\ pendingCount' = pendingCount - Cardinality(ids \cap Pending)
    /\ UNCHANGED <<rowId, nextRow>>

-----------------------------------------------------------------------------
(* Sync, up to the send.                                                   *)

StartSync(p) ==
    /\ pc[p] = "idle"
    /\ Goto(p, "read")
    /\ UNCHANGED <<log, sending, synced, call, faults>>

\* ORDER BY id LIMIT n.
FirstRows(S, n) ==
    {e \in S : Cardinality({f \in S : rowId[f] < rowId[e]}) < n}

\* readPending; an empty batch ends the call.
ReadPending(p) ==
    LET batch == FirstRows(Pending, BatchSize) IN
    /\ pc[p] = "read"
    /\ \/ batch = {} /\ Return(p)
       \/ /\ batch # {}
          /\ SetCall(p, [NewCall EXCEPT !.batch = batch])
          /\ Goto(p, IF batch \cap Corrupt = {} THEN "send" ELSE "dropCorrupt")
    /\ UNCHANGED <<log, sending, synced, faults>>

\* Mutant: corrupted events are left out of the request and stay pending.
SkipCorrupt(p) ==
    LET valid == call[p].batch \ Corrupt IN
    /\ pc[p] = "dropCorrupt"
    /\ SetCall(p, [call[p] EXCEPT !.batch = valid])
    /\ Goto(p, IF valid = {} THEN "read" ELSE "send")
    /\ UNCHANGED <<log, sending, synced, faults>>

\* Corrupted events are marked delivered; a batch of nothing else is followed
\* by the next.
DropCorrupt(p) ==
    LET valid == call[p].batch \ Corrupt IN
    /\ pc[p] = "dropCorrupt"
    /\ MarkDelivered(call[p].batch \cap Corrupt)
    /\ SetCall(p, [call[p] EXCEPT !.batch = valid,
                                  !.after = IF valid = {} THEN "read" ELSE "send"])
    /\ Goto(p, "purge")
    /\ UNCHANGED <<sending, synced, faults>>

\* Mutant: DELETE without its WHERE clause.
PurgeAll(p) ==
    /\ pc[p] = "purge"
    /\ row' = [e \in Events |-> "none"]
    /\ Goto(p, call[p].after)
    /\ UNCHANGED <<rowId, nextRow, pendingCount, sending, synced, call, faults>>

\* purge deletes every delivered row, those of other callers too.
Purge(p) ==
    /\ pc[p] = "purge"
    /\ row' = [e \in Events |-> IF row[e] = "delivered" THEN "none" ELSE row[e]]
    /\ Goto(p, call[p].after)
    /\ UNCHANGED <<rowId, nextRow, pendingCount, sending, synced, call, faults>>

-----------------------------------------------------------------------------
(* The circuit breaker (gobreaker) and the server.                         *)

Siblings(p) == {q \in Callers : ClientOf[q] = ClientOf[p]}

\* One request at a time passes a half-open breaker.
Admits(p) ==
    \/ breaker[ClientOf[p]].state = "closed"
    \/ /\ breaker[ClientOf[p]].state = "half"
       /\ \A q \in Siblings(p) : ~counted[q]

SetBreaker(p, b) == breaker' = [breaker EXCEPT ![ClientOf[p]] = b]

\* A change of state starts a new generation: sends begun before it no longer
\* count.
Change(p, state) ==
    /\ SetBreaker(p, Fresh(state))
    /\ counted' = [q \in Callers |-> counted[q] /\ q \notin Siblings(p)]

Forget(p) == counted' = [counted EXCEPT ![p] = FALSE]

Succeeded(p) ==
    LET b == breaker[ClientOf[p]] IN
    \/ ~counted[p] /\ UNCHANGED <<breaker, counted>>
    \/ counted[p] /\ b.state = "closed" /\ SetBreaker(p, Fresh("closed")) /\ Forget(p)
    \/ counted[p] /\ b.state # "closed" /\ Change(p, "closed")

Failed(p) ==
    LET b == breaker[ClientOf[p]]
        n == b.failures + 1
    IN \/ ~counted[p] /\ UNCHANGED <<breaker, counted>>
       \/ /\ counted[p] /\ b.state = "closed" /\ n < TripAfter
          /\ SetBreaker(p, [b EXCEPT !.failures = n])
          /\ Forget(p)
       \/ /\ counted[p] /\ (b.state # "closed" \/ n >= TripAfter)
          /\ Change(p, "open")

\* The timeout of an open breaker has passed.
BreakerTimeout(c) ==
    /\ breaker[c].state = "open"
    /\ breaker' = [breaker EXCEPT ![c] = Fresh("half")]
    /\ counted' = [q \in Callers |-> counted[q] /\ ClientOf[q] # c]
    /\ UNCHANGED <<log, server, synced, pc, call, faults>>

SendRejected(p) ==
    /\ pc[p] = "send"
    /\ ~Admits(p)
    /\ Return(p)
    /\ UNCHANGED <<log, sending, synced, faults>>

SendBegins(p) ==
    /\ pc[p] = "send"
    /\ Admits(p)
    /\ counted' = [counted EXCEPT ![p] = TRUE]
    /\ Goto(p, "flight")
    /\ UNCHANGED <<log, server, synced, call, breaker, faults>>

\* Mutant: events over quota, and failures of no known kind, are dropped too.
AnsweredDropsAll(p, confirmed, dropped) ==
    /\ SetCall(p, [call[p] EXCEPT !.confirmed = confirmed,
                                  !.dropped = call[p].batch \ confirmed])
    /\ Goto(p, IF confirmed # {} THEN "confirm" ELSE "discard")

\* Mutant: no return when nothing was resolved.
AnsweredLoops(p, confirmed, dropped) ==
    /\ Goto(p, IF confirmed # {} THEN "confirm"
               ELSE IF dropped # {} THEN "discard" ELSE "read")
    /\ SetCall(p, [call[p] EXCEPT !.confirmed = confirmed, !.dropped = dropped])

\* Mutant: INVALID_PAYLOAD and DUPLICATE are left pending like QUOTA_EXCEEDED.
AnsweredKeepsFailed(p, confirmed, dropped) ==
    IF confirmed = {} THEN Return(p)
    ELSE /\ SetCall(p, [call[p] EXCEPT !.confirmed = confirmed])
         /\ Goto(p, "confirm")

\* Sync goes on with the answer; when it resolves nothing, the call ends.
Answered(p, confirmed, dropped) ==
    IF confirmed \cup dropped = {} THEN Return(p)
    ELSE /\ SetCall(p, [call[p] EXCEPT !.confirmed = confirmed, !.dropped = dropped])
         /\ Goto(p, IF confirmed # {} THEN "confirm" ELSE "discard")

\* Send returns an answer: for each event of the batch the server confirms it,
\* refuses it for good (invalid, or a duplicate of what it has), or neither
\* (over quota, or a failure of no known kind).
Answer(p) ==
    /\ pc[p] = "flight"
    /\ \E confirmed \in SUBSET (call[p].batch \ Invalid) :
       \E dropped \in SUBSET ((call[p].batch \ confirmed) \cap (Invalid \cup server)) :
          /\ server' = server \cup confirmed
          /\ Answered(p, confirmed, dropped)
    /\ Succeeded(p)
    /\ UNCHANGED <<log, synced, faults>>

-----------------------------------------------------------------------------
(* Sync, after the send.                                                   *)

\* Mutant: what the server confirmed is added up, not what was marked.
ConfirmCountsIds(p) ==
    /\ pc[p] = "confirm"
    /\ MarkDelivered(call[p].confirmed)
    /\ synced' = synced + Cardinality(call[p].confirmed)
    /\ SetCall(p, [call[p] EXCEPT !.after = IF call[p].dropped = {} THEN "read" ELSE "discard"])
    /\ Goto(p, "purge")
    /\ UNCHANGED <<sending, faults>>

\* Confirmed events are marked delivered; the rows marked add to totalSynced.
Confirm(p) ==
    /\ pc[p] = "confirm"
    /\ MarkDelivered(call[p].confirmed)
    /\ synced' = synced + Cardinality(call[p].confirmed \cap Pending)
    /\ SetCall(p, [call[p] EXCEPT !.after = IF call[p].dropped = {} THEN "read" ELSE "discard"])
    /\ Goto(p, "purge")
    /\ UNCHANGED <<sending, faults>>

\* Permanently failed events are marked delivered too, then the loop goes on.
Discard(p) ==
    /\ pc[p] = "discard"
    /\ MarkDelivered(call[p].dropped)
    /\ SetCall(p, [call[p] EXCEPT !.after = "read"])
    /\ Goto(p, "purge")
    /\ UNCHANGED <<sending, synced, faults>>

-----------------------------------------------------------------------------
(* Faults.                                                                 *)

Fault == faults < MaxFaults /\ faults' = faults + 1

\* The caller's context is found cancelled at the head of the loop, or a
\* transaction on the log fails: Sync returns an error.
StatementFails(p) ==
    /\ Fault
    /\ pc[p] \in {"read", "dropCorrupt", "confirm", "discard"}
    /\ Return(p)
    /\ UNCHANGED <<log, sending, synced>>

\* A failed purge is logged: the delivered rows stay until the next one.
PurgeFails(p) ==
    /\ Fault
    /\ pc[p] = "purge"
    /\ Goto(p, call[p].after)
    /\ UNCHANGED <<log, sending, synced, call>>

\* Send returns an error (the call was cancelled or timed out, the transport
\* failed); the server may have accepted any of the batch.
SendFails(p) ==
    /\ Fault
    /\ pc[p] = "flight"
    /\ \E accepted \in SUBSET (call[p].batch \ Invalid) :
          server' = server \cup accepted
    /\ Failed(p)
    /\ Return(p)
    /\ UNCHANGED <<log, synced>>

\* The process dies, or closes the client, and starts again: what its callers
\* were doing is lost, the log stays.
Crash(c) ==
    /\ Fault
    /\ pc' = [p \in Callers |-> IF ClientOf[p] = c THEN "idle" ELSE pc[p]]
    /\ call' = [p \in Callers |-> IF ClientOf[p] = c THEN NewCall ELSE call[p]]
    /\ breaker' = [breaker EXCEPT ![c] = Fresh("closed")]
    /\ counted' = [p \in Callers |-> counted[p] /\ ClientOf[p] # c]
    /\ UNCHANGED <<log, server, synced>>

-----------------------------------------------------------------------------

Sync(p) ==
    \/ StartSync(p) \/ ReadPending(p) \/ DropCorrupt(p) \/ Purge(p)
    \/ SendRejected(p) \/ SendBegins(p) \/ Answer(p) \/ Confirm(p) \/ Discard(p)

Next ==
    \/ \E e \in Events : Emit(e)
    \/ \E p \in Callers : Sync(p) \/ StatementFails(p) \/ PurgeFails(p) \/ SendFails(p)
    \/ \E c \in Clients : BreakerTimeout(c) \/ Crash(c)

Spec == Init /\ [][Next]_vars

\* The tool keeps calling Sync and its calls proceed; an open breaker times out.
Fairness ==
    /\ \A p \in Callers : WF_vars(Sync(p))
    /\ \A c \in Clients : WF_vars(BreakerTimeout(c))

FairSpec == Spec /\ Fairness

-----------------------------------------------------------------------------
(* Properties.                                                             *)

\* Every variable has its type: among others a row's status is one the log's
\* statements know, and the breaker never counts past its threshold.
TypeOK ==
    /\ row \in [Events -> {"none", "pending", "delivered"}]
    /\ rowId \in [Events -> Nat]
    /\ nextRow \in Nat \ {0}
    /\ pendingCount \in Int
    /\ server \subseteq Events
    /\ synced \in Nat
    /\ pc \in [Callers -> {"idle", "read", "dropCorrupt", "purge", "send", "flight",
                           "confirm", "discard"}]
    /\ call \in [Callers -> Call]
    /\ breaker \in [Clients -> Breaker]
    /\ counted \in [Callers -> BOOLEAN]
    /\ faults \in 0..MaxFaults

\* Sync is reliable (client.go, "reliable event sync"): an emitted event is
\* pending in the log, or the server has it, or nobody can ever deliver it --
\* whatever fails between the send, the answer, the mark and the purge, and
\* whoever else is syncing the same log.
NothingLost == Emitted \subseteq Pending \cup server \cup Corrupt \cup Invalid

\* What NothingLost needs: a caller is about to mark only what the server has
\* or refuses for good.
AnswersKnown ==
    \A p \in Callers : /\ call[p].confirmed \subseteq server
                       /\ call[p].dropped \subseteq server \cup Invalid

\* pending_count, kept beside the rows and updated by three different
\* transactions, is the number of pending rows: it neither drifts up until Emit
\* refuses events for ever nor down past the limit.
CountExact == pendingCount = Cardinality(Pending)

\* Sync's results never add up to more than the server has: an event that two
\* callers sent, or that was sent again after a crash, is reported once.
SyncedHonest == synced <= Cardinality(server)

\* What SyncedHonest needs: what was reported is no longer pending.
Reported == synced <= Cardinality(server \cap (Emitted \ Pending))

\* What SyncAsPromised needs: what is sent, now or after a purge, was decoded.
SentDecodes ==
    \A p \in Callers :
        \/ pc[p] \in {"send", "flight"}
        \/ pc[p] = "purge" /\ call[p].after = "send"
        => call[p].batch \cap Corrupt = {}

Promise == INSTANCE ReliableSync WITH
    Hopeless <- Corrupt \cup Invalid, Limit <- MaxPending,
    emitted <- Emitted, waiting <- Pending, accepted <- server, reported <- synced

\* EndpointSync implements ReliableSync: the log never holds more than its limit, a
\* batch that went stale while another caller synced brings the server nothing it lacks,
\* and an event leaves the log delivered or hopeless and is reported as it leaves.
SyncAsPromised == Promise!Spec

\* Every call of Sync returns, whatever the server answers and however long it is
\* over quota: each round resolves an event, or is the last.
SyncReturns == \A p \in Callers : pc[p] # "idle" ~> pc[p] = "idle"

\* A server that is asked for ever resolves some event of the batch in the end.
Resolves(p) == Answer(p) /\ call'[p].confirmed \cup call'[p].dropped # {}
ServerResolves == SF_vars(\E p \in Callers : Resolves(p))

\* With such a server an emitted event leaves the log in the end: it is not stuck
\* behind corrupted, refused or failed ones, an open breaker or a call that died
\* with its batch.
EventuallyResolved ==
    ServerResolves => \A e \in Events : row[e] = "pending" ~> row[e] # "pending"
=============================================================================
