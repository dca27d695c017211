--------------------------- MODULE MCEventPipeline ---------------------------
(* A small instance of EventPipeline for TLC. *)
EXTENDS EventPipeline

CONSTANTS e1, e2, sub, nats, s2

\* Two events of one subject and one public feed: NATS takes neither.
OneSubject == [e \in PlEvents |-> sub]
OneFeed == [e \in PlEvents |-> "feed"]
NoTenants == [e \in PlEvents |-> PlNoTenant]
BothDests == <<nats, s2>>
PublicStream == <<"public", "feed">>

Spec == PipeSpec /\ PipeFairness
=============================================================================
