----------------------------- MODULE MCProducer -----------------------------
(* Small instances of Producer for TLC: the first two attempts send the    *)
(* same message, so the second is a duplicate or, after the confirm, a     *)
(* new send.                                                               *)
EXTENDS Producer, TLC

CONSTANTS a1, a2, a3

MCGuid == [a \in Attempts |-> IF a = a2 THEN a1 ELSE a]

CallerSymmetry == Permutations(Threads) \cup Permutations(Workers)

=============================================================================
