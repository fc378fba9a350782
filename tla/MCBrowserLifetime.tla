--------------------------- MODULE MCBrowserLifetime ---------------------------
(***************************************************************************)
(* Instances of BrowserLifetime for TLC.                                   *)
(***************************************************************************)
EXTENDS BrowserLifetime
=============================================================================
