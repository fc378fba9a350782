-------------------------- MODULE MCBrowserURLRequest --------------------------
(* Instances of BrowserURLRequest for TLC.                                 *)
EXTENDS BrowserURLRequest
=============================================================================
