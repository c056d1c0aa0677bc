--------------------------- MODULE PresentHandoff ---------------------------
(***************************************************************************)
(* OrderedPresentFrameHandoff: the worker publishes present frames, the UI *)
(* thread takes them one by one.  A value of the handoff is a record of    *)
(* the frame the UI has taken (a second read returns it again) and the     *)
(* frames it has not taken yet, oldest first.  The operators are the       *)
(* bodies of the critical sections; the mutex is in RenderLeases.          *)
(*                                                                         *)
(* A frame lease is [gen, dec, h, dgen]: render generation, the decoder    *)
(* that made the frame, its handle there, and the decoded (seek)           *)
(* generation.  Handles are never used twice by a decoder and grow with    *)
(* the presentation time inside one decoded generation.                    *)
(***************************************************************************)
EXTENDS Naturals, Sequences, SequencesExt

CONSTANT NoLease

UNTAKEN_PRESENT_FRAME_CAPACITY == 2

EmptyHandoff == [taken |-> NoLease, untaken |-> <<>>]

\* Every lease the handoff keeps alive.
HandoffLeases(ho) == (Range(ho.untaken) \cup {ho.taken}) \ {NoLease}

NextForRender(ho) == IF ho.untaken = <<>> THEN ho.taken ELSE Head(ho.untaken)

NewestPublished(ho) == IF ho.untaken = <<>> THEN ho.taken ELSE Last(ho.untaken)

\* Same render and decoded generation, growing presentation time.
ContinuesSequence(newest, next) ==
    /\ newest.gen = next.gen
    /\ newest.dgen = next.dgen
    /\ next.h > newest.h

\* The untaken frames that survive the publication of lease.
MakeRoomFor(ho, lease) ==
    IF NewestPublished(ho) # NoLease /\ ~ContinuesSequence(NewestPublished(ho), lease)
      THEN <<>>
      ELSE IF Len(ho.untaken) < UNTAKEN_PRESENT_FRAME_CAPACITY
        THEN ho.untaken
        ELSE Tail(ho.untaken)

Published(ho, lease) == [ho EXCEPT !.untaken = Append(MakeRoomFor(ho, lease), lease)]

\* Fault: the newest frame is taken before the older ones.
Mut_TakenNext(ho) ==
    IF ho.untaken = <<>> THEN ho
    ELSE [taken |-> Last(ho.untaken), untaken |-> Front(ho.untaken)]

\* The UI's next frame becomes the taken one; without a new frame nothing changes.
TakenNext(ho) ==
    IF ho.untaken = <<>> THEN ho
    ELSE [taken |-> Head(ho.untaken), untaken |-> Tail(ho.untaken)]
=============================================================================
