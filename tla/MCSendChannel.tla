--------------------------- MODULE MCSendChannel ---------------------------
(* Small instances of SendChannel for TLC.                                 *)
EXTENDS SendChannel, TLC

MsgSymmetry == Permutations(Msgs)

=============================================================================
