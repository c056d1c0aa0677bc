--------------------------- MODULE MCResumeWriter ---------------------------
(***************************************************************************)
(* Model checking of ResumeWriter.                                          *)
(***************************************************************************)
EXTENDS ResumeWriter

OnePosition == {"start"}

=============================================================================
