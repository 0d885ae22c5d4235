---------------------------- MODULE MCRangeTransfer ----------------------------
(***************************************************************************)
(* Values for model checking RangeTransfer.                                *)
(***************************************************************************)
EXTENDS RangeTransfer

CONSTANTS w1, w2, w3
===============================================================================
