--------------------------- MODULE MCAvatarSync ----------------------------
(* AvatarSync with two captures, of which the puppet has an actor for one, *)
(* queues of two, and three events.                                        *)
EXTENDS AvatarSync

=============================================================================
