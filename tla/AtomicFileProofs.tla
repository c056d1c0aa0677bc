-------------------------- MODULE AtomicFileProofs --------------------------
(***************************************************************************)
(* Lemmas about AtomicFile that the proofs of its callers share: what one   *)
(* step of a replacement keeps, whoever performs it.                        *)
(***************************************************************************)
EXTENDS AtomicFile, TLAPS

\* The temporary is synced by the time of the rename, and an outcome is what
\* the finished replacement leaves.
ReplaceOK ==
    /\ replace.step = "rename" => replace.synced
    /\ replace.step = "idle" => replace = NoReplace
    /\ replace.step = "done" <=> replace.outcome # "none"

\* The contents a caller may find are numbers, and no special one is a snapshot.
LEMMA ContentKinds ==
  /\ MaxSnapshots \in Nat /\ MaxFaults \in Nat
  /\ Missing \in Contents /\ Torn \in Contents /\ Corrupt \in Contents /\ Newer \in Contents
  /\ Snapshots \subseteq Contents
  /\ Missing \notin Snapshots /\ Torn \notin Snapshots
  /\ Corrupt \notin Snapshots /\ Newer \notin Snapshots
  /\ Torn # Missing /\ Corrupt # Missing /\ Corrupt # Torn /\ Newer # Torn
  /\ 0 .. MaxSnapshots \subseteq Contents /\ Torn \notin 0 .. MaxSnapshots
  BY FileAssumption DEF Missing, Torn, Corrupt, Newer, Contents, Snapshots

\* Every step of a replacement keeps the types of the file.
LEMMA FileStepKeepsTypes ==
  ASSUME FileTypeOK, FileStep
  PROVE  FileTypeOK'
<1> USE DEF FileTypeOK
<1>1. ASSUME WriteTempFile PROVE FileTypeOK'
  BY <1>1 DEF WriteTempFile, Step
<1>2. ASSUME SyncTempFile PROVE FileTypeOK'
  BY <1>2 DEF SyncTempFile
<1>3. ASSUME RenameTempFile PROVE FileTypeOK'
  <2>1. /\ disk' \in Directories
        /\ [disk EXCEPT !.target = Torn] \in Directories
    BY <1>3, ContentKinds DEF RenameTempFile, Directories
  <2> QED
    BY <2>1, <1>3 DEF RenameTempFile
<1>4. ASSUME SyncParentDirectory PROVE FileTypeOK'
  BY <1>4 DEF SyncParentDirectory
<1>5. ASSUME FailStep PROVE FileTypeOK'
  <2>1. faults' \in 0 .. MaxFaults
    BY <1>5, FileAssumption DEF FailStep
  <2>2. replace' \in [step : {"idle", "write", "syncTemp", "rename", "syncDir", "done"},
                      of : 0 .. MaxSnapshots, synced : BOOLEAN,
                      outcome : {"none", "NotReplaced", "Unconfirmed", "Durable"}]
    BY <1>5 DEF FailStep
  <2> QED
    BY <2>1, <2>2, <1>5 DEF FailStep
<1> QED
  BY <1>1, <1>2, <1>3, <1>4, <1>5 DEF FileStep

\* The order of the steps: synced before the rename, an outcome at the end.
LEMMA FileStepKeepsOrder ==
  ASSUME FileTypeOK, ReplaceOK, FileStep
  PROVE  ReplaceOK'
<1> USE DEF FileTypeOK, ReplaceOK
<1>1. ASSUME WriteTempFile PROVE ReplaceOK'
  BY <1>1 DEF WriteTempFile, Step
<1>2. ASSUME SyncTempFile PROVE ReplaceOK'
  BY <1>2 DEF SyncTempFile
<1>3. ASSUME RenameTempFile PROVE ReplaceOK'
  BY <1>3 DEF RenameTempFile
<1>4. ASSUME SyncParentDirectory PROVE ReplaceOK'
  BY <1>4 DEF SyncParentDirectory
<1>5. ASSUME FailStep PROVE ReplaceOK'
  BY <1>5 DEF FailStep
<1> QED
  BY <1>1, <1>2, <1>3, <1>4, <1>5 DEF FileStep

\* What a step leaves in the file: nothing new unless it is the rename, which
\* puts the snapshot of the replacement there (rename_temporary_file).
LEMMA FileStepEffect ==
  ASSUME FileTypeOK, ReplaceOK, FileStep
  PROVE  /\ replace'.of = replace.of
         /\ replace.step \notin {"idle", "done"} /\ replace'.step # "idle"
         /\ \/ /\ disk' = disk /\ survivors' = survivors
               /\ \/ replace'.step = "done" /\ replace'.outcome \in {"NotReplaced", "Unconfirmed"}
                  \/ /\ replace.step \in {"write", "syncTemp"}
                     /\ replace'.step \in {"syncTemp", "rename"}
            \/ /\ replace.step = "rename" /\ replace'.step = "syncDir"
               /\ disk' = [disk EXCEPT !.target = replace.of]
               /\ survivors' = survivors \cup {disk'}
            \/ /\ replace.step = "syncDir" /\ replace'.step = "done"
               /\ replace'.outcome = "Durable"
               /\ disk' = disk /\ survivors' = {disk}
  BY DEF FileTypeOK, ReplaceOK, FileStep, WriteTempFile, Step, SyncTempFile,
         RenameTempFile, SyncParentDirectory, FailStep

\* No step leaves a file cut short (replace_file_atomically_with).
LEMMA FileStepKeepsWhole ==
  ASSUME FileTypeOK, ReplaceOK, NoTornFile, FileStep
  PROVE  NoTornFile'
<1>1. disk'.target # Torn
  <2>1. disk.target # Torn
    BY DEF NoTornFile, FileTypeOK
  <2>2. disk \in Directories /\ replace.of \in 0 .. MaxSnapshots
    BY DEF FileTypeOK
  <2> QED
    BY <2>1, <2>2, FileStepEffect, ContentKinds DEF Directories
<1> QED
  BY <1>1, FileStepEffect DEF NoTornFile

=============================================================================
