----------------------------- MODULE MCM5ohBridge -----------------------------
(***************************************************************************)
(* Instances of M5ohBridge for TLC; the constants are numbers.             *)
(***************************************************************************)
EXTENDS M5ohBridge
=============================================================================
