------------------------- MODULE MCTransferAttempts -------------------------
(***************************************************************************)
(* Values for model checking TransferAttempts.                             *)
(***************************************************************************)
EXTENDS TransferAttempts

ASSUME LimitsSufficeHere == LimitsSuffice
=============================================================================
