--------------------------- MODULE MCBrowserSession ---------------------------
(***************************************************************************)
(* Instances of BrowserSession for TLC.                                    *)
(***************************************************************************)
EXTENDS BrowserSession
=============================================================================
