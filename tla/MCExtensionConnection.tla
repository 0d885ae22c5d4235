----------------------- MODULE MCExtensionConnection -----------------------
(***************************************************************************)
(* Values for model checking ExtensionConnection.                          *)
(***************************************************************************)
EXTENDS ExtensionConnection, TLC

CONSTANTS page1, page2, old, new
=============================================================================
