------------------------- MODULE MCBoundedExecutor --------------------------
\* A finite instance of BoundedExecutor for TLC.
EXTENDS BoundedExecutor

TwoWorkers == <<"w1", "w2">>
=============================================================================
