---------------------------- MODULE MCPuppetSync ----------------------------
(* Values for the constants of PuppetSync: a server with room for this       *)
(* client and one or two others.                                             *)
EXTENDS PuppetSync, TLC

MCSymmetry == Permutations(Players)
MCLowest == -1

=============================================================================
