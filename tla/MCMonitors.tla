----------------------------- MODULE MCMonitors -----------------------------
(* A small instance of Monitors for TLC: a connection that comes and       *)
(* goes, with a consumer that minds the health of the host and one that    *)
(* does not.                                                               *)
EXTENDS Monitors

CONSTANTS c, h, u

MCOwner == [ch \in Channels |-> c]

=============================================================================
