------------------------- MODULE MCResourceRequestJob -------------------------
(* Instances of ResourceRequestJob for TLC.                                *)
EXTENDS ResourceRequestJob
=============================================================================
