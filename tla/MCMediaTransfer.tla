--------------------------- MODULE MCMediaTransfer ---------------------------
(***************************************************************************)
(* Instances of MediaTransfer for TLC.                                     *)
(***************************************************************************)
EXTENDS MediaTransfer

AllWays == {"plain", "resumable", "e2e", "browser"}
=============================================================================
