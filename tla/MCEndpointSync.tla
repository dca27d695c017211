--------------------------- MODULE MCEndpointSync ---------------------------
(* A small instance of EndpointSync for TLC. *)
EXTENDS EndpointSync

CONSTANTS e1, corrupt, invalid, p1, p2, tool

\* Two callers of one client.
OneClient == [p \in Callers |-> tool]
=============================================================================
