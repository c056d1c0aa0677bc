----------------------------- MODULE SavedState -----------------------------
(***************************************************************************)
(* What saving the playlist promises its user, without threads, queues or   *)
(* temporary files: the file holds one of the committed snapshots, it only  *)
(* moves forward, and a power loss takes back no snapshot that was reported  *)
(* as saved.                                                                *)
(***************************************************************************)
EXTENDS Naturals

CONSTANT MaxSnapshots

VARIABLES
    committed,  \* snapshots committed so far
    saved,      \* the snapshot in the file; 0 before the first
    promised    \* the newest snapshot the user was told is saved

vars == <<committed, saved, promised>>

Init == committed = 0 /\ saved = 0 /\ promised = 0

Commit ==
    /\ committed < MaxSnapshots
    /\ committed' = committed + 1
    /\ UNCHANGED <<saved, promised>>

Save ==
    /\ saved' \in saved + 1 .. committed
    /\ UNCHANGED <<committed, promised>>

Promise ==
    /\ promised' \in promised + 1 .. saved
    /\ UNCHANGED <<committed, saved>>

Lose ==
    /\ saved' \in promised .. saved
    /\ UNCHANGED <<committed, promised>>

Next == Commit \/ Save \/ Promise \/ Lose

Spec == Init /\ [][Next]_vars

=============================================================================
