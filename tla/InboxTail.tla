----------------------------- MODULE InboxTail -----------------------------
(* The inbox of a single replica that starts at the tail of its feed: the   *)
(* option WithBootstrapFromTail, and a process that does not die.            *)
EXTENDS Integers

CONSTANTS
  TlReplica,       \* the one replica
  TlNoReplica,     \* it does not hold the lock
  TlEvents,        \* events the feed may carry
  TlMaxRecords,    \* bound on the length of the feed
  TlMaxFaults      \* bound on lost terms and failed calls

ASSUME TailAssumption ==
  /\ TlNoReplica # TlReplica
  /\ TlMaxRecords \in Nat /\ TlMaxFaults \in Nat

VARIABLES tlFeed, tlCursor, tlProcessed, tlLock, tlLive, tlPc, tlSrc, tlRead, tlHandled,
          tlSkipped, tlReruns, tlFaults

tailVars == <<tlFeed, tlCursor, tlProcessed, tlLock, tlLive, tlPc, tlSrc, tlRead, tlHandled,
              tlSkipped, tlReruns, tlFaults>>

TailInbox == INSTANCE Inbox WITH
  Replicas <- {TlReplica}, Events <- TlEvents, Malformed <- {}, NoReplica <- TlNoReplica,
  Dedup <- FALSE, SkipOnError <- FALSE, FromTail <- TRUE, SessionLoss <- FALSE,
  Crashes <- FALSE, MaxRecords <- TlMaxRecords, MaxFaults <- TlMaxFaults,
  feed <- tlFeed, cursor <- tlCursor, processed <- tlProcessed, lock <- tlLock,
  live <- tlLive, pc <- tlPc, src <- tlSrc, read <- tlRead, handled <- tlHandled,
  skipped <- tlSkipped, reruns <- tlReruns, faults <- tlFaults

\* Inbox!NothingReadIsLost of the replica that starts at the tail: whatever of its term,
\* its session and its acks is lost before the first ack, what it read comes again.
TailNothingReadIsLost == TailInbox!NothingReadIsLost
=============================================================================
