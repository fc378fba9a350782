---------------------------- MODULE MCMessageRouter ----------------------------
(* Small instances of MessageRouter for TLC.                               *)
EXTENDS MessageRouter
=============================================================================
