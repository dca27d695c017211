------------------------------ MODULE MCOutbox ------------------------------
(* Small instances of Outbox for TLC. *)
EXTENDS Outbox, TLC

CONSTANTS e1, e2, e3, s1, s2, nats, s2dest, r1, r2

ReplicaSymmetry == Permutations(Replicas)

\* Two events of one subject, both for both destinations.
OneSubject == [e \in Events |-> s1]
BothDests == <<nats, s2dest>>
OneDest == <<s2dest>>
AcceptAll == [e \in Events |-> Dests]
\* e1 and e2 share a subject, e3 has its own.
TwoSubjects == [e \in Events |-> IF e = e3 THEN s2 ELSE s1]
\* e1 carries no subject, e2 and e3 have one each.
AllApart == [e \in Events |-> IF e = e1 THEN NoSubject ELSE IF e = e2 THEN s1 ELSE s2]
=============================================================================
