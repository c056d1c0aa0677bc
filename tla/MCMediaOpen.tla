---------------------------- MODULE MCMediaOpen ----------------------------
\* Finite instances of MediaOpen for TLC.
EXTENDS MediaOpen
=============================================================================
