---------------------------- MODULE MCShineSync ----------------------------
(* Two clients: the first one's player finds all the shines, the second one *)
(* gets to know them; lists so small that they fill up, and the race        *)
(* between append and reset.                                                *)
EXTENDS ShineSync, TLC

CONSTANT c1

MCFinds == [c \in Clients |-> IF c = c1 THEN Shines ELSE {}]

=============================================================================
