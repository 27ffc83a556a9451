----------------------------- MODULE MCTopology -----------------------------
(* Small instances of Topology.                                            *)
EXTENDS Topology

(* Two queues and two exchanges, one bound to the other; the default       *)
(* exchange is in the topology but is not declared.                        *)
MCScripts ==
    { <<<<"addExchange", "x1", "">>, <<"addExchange", "", "">>,
        <<"addExchange", "x2", "">>, <<"addQueue", "q1", "">>,
        <<"addQueue", "q2", "">>, <<"bindExchange", "x1", "x2", "a">>,
        <<"bindQueue", "x2", "q1", "a">>>> }

(* The second removes what the first adds; the third deletes the queue the *)
(* second binds, so that the broker refuses it until q2 is declared again. *)
MCUpdates == {"bind", "swap", "foreign"}

MCItems(u) ==
    CASE u = "bind" -> <<Bind("x1", "q1", "b")>>
      [] u = "swap" -> <<Unbind("x1", "q1", "b"), Bind("x1", "q2", "c")>>
      [] u = "foreign" -> <<BindForeign("x1", "q1", "d"), Delete("q2")>>

=============================================================================
