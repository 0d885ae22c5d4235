------------------------- MODULE MCSetupTransaction -------------------------
(* Values for the runs over SetupTransaction. *)
EXTENDS SetupTransaction

CONSTANTS g1, g2, g3

MCGenerations == {g1, g2, g3}
=============================================================================
