--------------------------- MODULE MCSocketClient ---------------------------
(* Values for the constants of SocketClient: a heap of two packets, queues   *)
(* of one place, three descriptors and one broken connection.                 *)
EXTENDS SocketClient, TLC

CONSTANTS b1, b2, gameInf

MCBlocks == {b1, b2}
MCSymmetry == Permutations(Blocks)
MCNothing == <<>>
MCResent == <<gameInf>>

=============================================================================
