--------------------------- MODULE MCGameModeSync ---------------------------
(* One or two clients and two tag modes.  A run has budgets of inputs: the *)
(* clients load a stage and begin the mode, and then some of the rest      *)
(* happens in every order.                                                 *)
EXTENDS GameModeSync, TLC

MCBudget(stage, menu, toggle, pause, role, command, again) ==
  [stage |-> stage, menu |-> menu, toggle |-> toggle, pause |-> pause,
   role |-> role, command |-> command, again |-> again]

\* Two clients: both play, and the mode changes, or somebody becomes it, or is
\* made it by the server; or only one plays, becomes it and changes the mode.
MCTwo   == {MCBudget(3, 1, 2, 0, 0, 0, 0), MCBudget(2, 0, 2, 0, 1, 0, 0),
            MCBudget(2, 0, 2, 0, 0, 1, 0), MCBudget(3, 1, 1, 0, 1, 0, 0)}

\* One client, with pauses.
MCAlone == {MCBudget(3, 1, 3, 4, 1, 1, 1)}

MCSymmetry == Permutations(Clients)

=============================================================================
