--------------------------- MODULE MCPlaylistSave ---------------------------
(***************************************************************************)
(* Model checking of PlaylistSave.                                          *)
(***************************************************************************)
EXTENDS PlaylistSave

=============================================================================
