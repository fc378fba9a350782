---------------------------- MODULE MCCookieManager ----------------------------
(* Instances of CookieManager for TLC.                                     *)
EXTENDS CookieManager
=============================================================================
