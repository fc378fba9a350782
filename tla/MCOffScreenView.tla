--------------------------- MODULE MCOffScreenView ---------------------------
(* A small instance of OffScreenView for TLC.                              *)
EXTENDS OffScreenView
=============================================================================
