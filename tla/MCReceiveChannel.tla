-------------------------- MODULE MCReceiveChannel --------------------------
(* Small instances of ReceiveChannel for TLC.                              *)
EXTENDS ReceiveChannel, TLC

MsgSymmetry == Permutations(Msgs)

=============================================================================
