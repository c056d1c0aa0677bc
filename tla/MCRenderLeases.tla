--------------------------- MODULE MCRenderLeases ---------------------------
(* RenderLeases for TLC.                                                   *)
EXTENDS RenderLeases
=============================================================================
