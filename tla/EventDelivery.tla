---------------------------- MODULE EventDelivery ----------------------------
(***************************************************************************)
(* What the outbox promises its producers and its destinations, with no    *)
(* table, pass or leader in sight: events are committed one after another, *)
(* and a destination first receives an event only when it has every        *)
(* earlier event of the same subject that it accepts.  Outbox implements   *)
(* it for producers that commit in the order of their ids.                 *)
(***************************************************************************)
EXTENDS Naturals

CONSTANTS Events, Dests, NoSubject, SubjectOf, Accepts

VARIABLES
    rank,       \* rank[e]: the place of e in the order of commits, 0 before
    received    \* received[d]: events destination d has durably accepted

vars == <<rank, received>>

Committed(e) == rank[e] # 0

Init ==
    /\ rank = [e \in Events |-> 0]
    /\ received = [d \in Dests |-> {}]

\* A producer's transaction commits: its event comes after all the others, at
\* some place (ids may be lost to rollbacks).
Commit(e) ==
    /\ ~Committed(e)
    /\ rank' \in [Events -> Nat]
    /\ \A f \in Events : rank[f] < rank'[e]
    /\ \A f \in Events \ {e} : rank'[f] = rank[f]
    /\ UNCHANGED received

\* The events of e's subject that destination d must have before it.
Before(d, e) ==
    {f \in Events : /\ Committed(f) /\ rank[f] < rank[e]
                    /\ d \in Accepts[f]
                    /\ SubjectOf[f] = SubjectOf[e] /\ SubjectOf[e] # NoSubject}

\* A destination receives an event for the first time.
Receive(d, e) ==
    /\ Committed(e)
    /\ d \in Accepts[e]
    /\ e \notin received[d]
    /\ Before(d, e) \subseteq received[d]
    /\ received' = [received EXCEPT ![d] = @ \cup {e}]
    /\ UNCHANGED rank

Next == \E e \in Events : Commit(e) \/ \E d \in Dests : Receive(d, e)

Spec == Init /\ [][Next]_vars
=============================================================================
