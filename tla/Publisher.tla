----------------------------- MODULE Publisher -----------------------------
(***************************************************************************)
(* What a SendChannel promises to the producer above it, without channels, *)
(* tags, connections or retries: a message that was accepted waits until   *)
(* the broker has judged it, then its callback runs once with one of the   *)
(* verdicts the broker gave.  The broker is only ever asked about messages *)
(* whose callback has not run.                                             *)
(***************************************************************************)
CONSTANTS
    Msgs,
    Verdicts   \* what a broker can answer

VARIABLES
    response,  \* the state of each message, or its verdict
    verdicts   \* the pairs <<message, verdict>> the broker has given

Init ==
    /\ response = [m \in Msgs |-> "unsent"]
    /\ verdicts = {}

Waiting == {m \in Msgs : response[m] = "waiting"}

(* SendChannel::publishMessage                                             *)
Accept(m) ==
    /\ response[m] = "unsent"
    /\ response' = [response EXCEPT ![m] = "waiting"]
    /\ UNCHANGED verdicts

(* The broker acknowledges, refuses or returns some of the messages; it    *)
(* may judge the same message again when the first verdict was lost.       *)
Judge ==
    /\ \E new \in SUBSET (Waiting \X Verdicts) : verdicts' = verdicts \cup new
    /\ UNCHANGED response

(* The callbacks of some messages run.                                     *)
Confirm ==
    /\ \E S \in SUBSET Waiting, f \in [Msgs -> Verdicts] :
          /\ S # {}
          /\ \A m \in S : <<m, f[m]>> \in verdicts
          /\ response' = [m \in Msgs |-> IF m \in S THEN f[m] ELSE response[m]]
    /\ UNCHANGED verdicts

Next == (\E m \in Msgs : Accept(m)) \/ Judge \/ Confirm

Spec == Init /\ [][Next]_<<response, verdicts>>

=============================================================================
