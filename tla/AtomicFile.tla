----------------------------- MODULE AtomicFile -----------------------------
(***************************************************************************)
(* The replacement of one file by atomic-file-store                         *)
(* (src/crates/atomic-file-store/src/lib.rs), as a thread of the            *)
(* application performs it: create a temporary beside the target, write it,  *)
(* sync it, rename it over the target, sync the directory.  Each step may   *)
(* fail, and the process or the machine may stop between any two.           *)
(*                                                                         *)
(* A content is a number: 0 is no file, 1..MaxSnapshots the snapshots in    *)
(* the order they were committed, and three more for a file cut short, one  *)
(* that cannot be read and one of a newer version of the application.       *)
(*                                                                         *)
(* Of the disk the model keeps what a reader sees (disk) and what a power   *)
(* loss may leave (survivors).  External assumptions: a rename is atomic;   *)
(* directory changes survive in the order they were made; a directory sync  *)
(* that succeeds makes every earlier change of the directory permanent; a   *)
(* file renamed before its own sync may come back cut short.                *)
(***************************************************************************)
EXTENDS Naturals, FiniteSets

CONSTANTS
    MaxSnapshots,   \* bound: snapshots ever committed
    MaxFaults       \* bound: file-system calls that fail

ASSUME FileAssumption == MaxSnapshots \in Nat \ {0} /\ MaxFaults \in Nat

Missing == 0
Snapshots == 1 .. MaxSnapshots
Torn == MaxSnapshots + 1
Corrupt == MaxSnapshots + 2
Newer == MaxSnapshots + 3
Contents == 0 .. MaxSnapshots + 3

VARIABLES
    disk,       \* the directory: the target, and the file set aside
    survivors,  \* directories a power loss may leave
    replace,    \* the replacement or directory sync under way
    faults      \* calls that have failed

fileVars == <<disk, survivors, replace, faults>>

Directories == [target : Contents, aside : {Missing, Corrupt}]
NoReplace == [step |-> "idle", of |-> 0, synced |-> FALSE, outcome |-> "none"]

FileTypeOK ==
    /\ disk \in Directories
    /\ survivors \in SUBSET Directories /\ disk \in survivors
    /\ replace \in [step : {"idle", "write", "syncTemp", "rename",
                            "syncDir", "done"},
                    of : 0 .. MaxSnapshots, synced : BOOLEAN,
                    outcome : {"none", "NotReplaced", "Unconfirmed", "Durable"}]
    /\ faults \in 0 .. MaxFaults

FileInit ==
    /\ \E content \in {Missing, Corrupt, Newer} :
          disk = [target |-> content, aside |-> Missing]
    /\ survivors = {disk}
    /\ replace = NoReplace
    /\ faults = 0

----------------------------------------------------------------------------
(* The protocol, called by one thread at a time *)

BeginReplace(s) ==
    replace' = [NoReplace EXCEPT !.step = "write", !.of = s]

\* sync_parent_directory alone, for a target that was already replaced.
BeginDirectorySync == replace' = [NoReplace EXCEPT !.step = "syncDir"]

Step(from, to) ==
    /\ replace.step = from
    /\ replace' = [replace EXCEPT !.step = to]
    /\ UNCHANGED <<disk, survivors, faults>>

\* The temporary is created under a name of its own, written and flushed.
WriteTempFile == Step("write", "syncTemp")

SyncTempFile ==
    /\ replace.step = "syncTemp"
    /\ replace' = [replace EXCEPT !.step = "rename", !.synced = TRUE]
    /\ UNCHANGED <<disk, survivors, faults>>

\* A directory sync can only keep what the rename made visible.
RenameTempFile ==
    /\ replace.step = "rename"
    /\ disk' = [disk EXCEPT !.target = replace.of]
    /\ survivors' = survivors \cup {disk'}
          \cup (IF replace.synced THEN {} ELSE {[disk EXCEPT !.target = Torn]})
    /\ replace' = [replace EXCEPT !.step = "syncDir"]
    /\ UNCHANGED faults

Mut_SyncParentDirectory ==
    /\ replace.step = "syncDir"
    /\ replace' = [replace EXCEPT !.step = "done", !.outcome = "Durable"]
    /\ UNCHANGED <<disk, survivors, faults>>

SyncParentDirectory ==
    /\ replace.step = "syncDir"
    /\ survivors' = {disk}
    /\ replace' = [replace EXCEPT !.step = "done", !.outcome = "Durable"]
    /\ UNCHANGED <<disk, faults>>

\* Before the rename a failure removes the owned temporary and leaves the
\* target alone; after it the target is replaced, and only that is uncertain.
\* The serialization and the lock of write_snapshot fail like the creation.
FailStep ==
    /\ replace.step \notin {"idle", "done"}
    /\ faults < MaxFaults
    /\ faults' = faults + 1
    /\ replace' = [replace EXCEPT !.step = "done",
                     !.outcome = IF replace.step = "syncDir"
                                 THEN "Unconfirmed" ELSE "NotReplaced"]
    /\ UNCHANGED <<disk, survivors>>

FileStep ==
    \/ WriteTempFile \/ SyncTempFile \/ RenameTempFile
    \/ SyncParentDirectory \/ FailStep

----------------------------------------------------------------------------
(* The ends of the process *)

\* The kernel keeps what it has been given.
FileProcessEnds ==
    /\ replace' = NoReplace
    /\ UNCHANGED <<disk, survivors, faults>>

PowerLoss ==
    /\ disk' \in survivors
    /\ survivors' = {disk'}
    /\ replace' = NoReplace
    /\ UNCHANGED faults

\* apply_quarantine moves the unreadable file aside, without a directory sync.
SetAside ==
    /\ disk' = [target |-> Missing, aside |-> disk.target]
    /\ survivors' = survivors \cup {disk'}
    /\ UNCHANGED <<replace, faults>>

----------------------------------------------------------------------------
(* Properties *)

\* No reader ever finds a file cut short, now or after a power loss: the
\* temporary is written and synced in full before the rename
\* (replace_file_atomically_with).
NoTornFile == \A d \in survivors : d.target # Torn

=============================================================================
