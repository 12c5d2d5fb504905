---------------------------- MODULE MCTcpFraming ----------------------------
(* A header of two bytes, and packets with no body, a short and a long one. *)
EXTENDS TcpFraming

MCBodies == <<1, 0, 2>>

=============================================================================
