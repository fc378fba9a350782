-------------------------- MODULE MCRenderURLRequest --------------------------
(* Instances of RenderURLRequest for TLC.                                  *)
EXTENDS RenderURLRequest
=============================================================================
