---------------------------- MODULE ReliableSync ----------------------------
(* What Sync promises (client.go, "reliable event sync"), with no row,      *)
(* batch, call or breaker in sight: an event waits until it is delivered or *)
(* nobody can deliver it, and is reported at most once.                     *)
EXTENDS Integers, FiniteSets

CONSTANTS
    Events,
    Hopeless,   \* events that can never be delivered
    Limit       \* how many may wait

VARIABLES
    emitted,    \* events Emit has taken
    waiting,    \* those that still wait
    accepted,   \* those the server has
    reported    \* how many calls of Sync have reported delivered

vars == <<emitted, waiting, accepted, reported>>

Init == emitted = {} /\ waiting = {} /\ accepted = {} /\ reported = 0

Emit(e) ==
    /\ e \notin emitted
    /\ Cardinality(waiting) < Limit
    /\ emitted' = emitted \cup {e}
    /\ waiting' = waiting \cup {e}
    /\ UNCHANGED <<accepted, reported>>

\* The server accepts events only while they wait.
Accept(S) ==
    /\ accepted' = accepted \cup S
    /\ UNCHANGED <<emitted, waiting, reported>>

\* What was delivered, or cannot be, waits no longer ...
Drop(S) ==
    /\ S \subseteq accepted \cup Hopeless
    /\ waiting' = waiting \ S
    /\ UNCHANGED <<emitted, accepted, reported>>

\* ... and what was delivered may be reported at that moment, and at no other.
Report(S) ==
    /\ S \subseteq accepted
    /\ waiting' = waiting \ S
    /\ reported' = reported + Cardinality(S)
    /\ UNCHANGED <<emitted, accepted>>

Next ==
    \/ \E e \in Events : Emit(e)
    \/ \E S \in SUBSET (waiting \ Hopeless) : Accept(S)
    \/ \E S \in SUBSET waiting : Drop(S) \/ Report(S)

Spec == Init /\ [][Next]_vars
=============================================================================
