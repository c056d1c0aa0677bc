----------------------------- MODULE MCPrefetch -----------------------------
(* Prefetch over a file that can seek, over a stream that cannot, and over a  *)
(* stream that is longer than the offset space.                               *)
EXTENDS Prefetch

MCMedia == {[len |-> 4, seekable |-> TRUE], [len |-> 3, seekable |-> FALSE],
            [len |-> 6, seekable |-> FALSE]}
=============================================================================
