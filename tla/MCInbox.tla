------------------------------- MODULE MCInbox -------------------------------
(* Small instances of Inbox for TLC. *)
EXTENDS Inbox, TLC

CONSTANTS e1, e2, bad, r1, r2

ReplicaSymmetry == Permutations(Replicas)
=============================================================================
