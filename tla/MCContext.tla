----------------------------- MODULE MCContext -----------------------------
(* A small instance of Context for TLC: two producers and a consumer,      *)
(* with a connection for each, or one more for those of a closed VHost.    *)
EXTENDS Context

CONSTANTS p1, p2, q, k1, k2

MCRole == [r \in Requests |-> IF r = q THEN "consumer" ELSE "producer"]

MCConns == <<k1, k2>>

=============================================================================
