---------------------------- MODULE MCFreezeTag ----------------------------
(* Minutes of two seconds of three units, frames of two units or none; one *)
(* player who sends packets and one who stays frozen.                      *)
EXTENDS FreezeTag

=============================================================================
