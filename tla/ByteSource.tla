----------------------------- MODULE ByteSource -----------------------------
(***************************************************************************)
(* What a byte source promises to the one thread that reads it (the trait  *)
(* ByteSource as crates/media-prefetch implements it): a position, reads    *)
(* that return the source's own bytes at that position and advance it,      *)
(* seeks that move it.  Nothing of windows, workers or fetches is visible.  *)
(*                                                                         *)
(* The byte at offset a of the medium is represented by the number a.       *)
(***************************************************************************)
EXTENDS Naturals, Sequences

CONSTANTS
    MaxOffset,   \* largest representable offset (u64::MAX in the code)
    MaxRead,     \* largest read the caller issues
    ChunkBytes   \* largest single read of the medium

VARIABLES
    len,         \* number of bytes of the medium
    pos,         \* the position a caller observes
    result       \* outcome of the last completed operation

Outcome(kind, at, data) == [kind |-> kind, at |-> at, data |-> data]

Init == /\ len \in Nat
        /\ pos \in 0..MaxOffset
        /\ result = Outcome("none", pos, <<>>)

\* A read delivers at least one byte, and every byte is the medium's.
Deliver == \E n \in 1..MaxRead :
             /\ pos + n <= len
             /\ pos + n <= MaxOffset
             /\ pos' = pos + n
             /\ result' = Outcome("bytes", pos, [i \in 1..n |-> pos + i - 1])

\* End of file is reported only where nothing more can be delivered: past the
\* last byte, or where one more chunk would leave the offset space.
EndOfFile == /\ pos >= len \/ pos + ChunkBytes > MaxOffset
             /\ result' = Outcome("eof", pos, <<>>)
             /\ UNCHANGED pos

\* A failed read (error, cancellation, closed source) leaves the position.
Fail == /\ \E kind \in {"error", "cancelled", "closed"} :
             result' = Outcome(kind, pos, <<>>)
        /\ UNCHANGED pos

Seek == \E o \in 0..MaxOffset : /\ pos' = o
                                /\ result' = Outcome("sought", o, <<>>)

SeekRejected == /\ result' = Outcome("notSeekable", pos, <<>>)
                /\ UNCHANGED pos

Next == /\ Deliver \/ EndOfFile \/ Fail \/ Seek \/ SeekRejected
        /\ UNCHANGED len

Spec == Init /\ [][Next]_<<len, pos, result>>
=============================================================================
