--------------------------- MODULE MCPlayerWorker ---------------------------
\* Finite instances of PlayerWorker for TLC.
EXTENDS PlayerWorker
=============================================================================
