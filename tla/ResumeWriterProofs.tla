------------------------- MODULE ResumeWriterProofs -------------------------
(***************************************************************************)
(* Proofs about ResumeWriter: the inductive invariant, ResumeInv from it,   *)
(* and the order in which revisions reach the file.                         *)
(***************************************************************************)
EXTENDS ResumeWriter, AtomicFileProofs

-----------------------------------------------------------------------------
(* The inductive invariant *)

\* The revisions run in one order: reported, taken by the writer, pending in
\* the slot, accepted.  Only between a submission and its wake is the owner one
\* revision behind the slot.
RevisionsInOrder ==
    /\ slot.accepted = IF OwnerAt("wake") THEN owner.latest + 1 ELSE owner.latest
    /\ slot.pending # None => slot.pending = slot.accepted /\ slot.report.rev < slot.pending
    /\ slot.report.rev <= slot.accepted
    /\ At("io") => /\ slot.report.rev < thread.taken /\ thread.taken <= slot.accepted
                   /\ slot.pending # None => thread.taken < slot.pending
    /\ owner.reported <= owner.latest /\ owner.reported <= slot.report.rev
    /\ OwnerAt("submit") => slot.accepted < MaxSnapshots

\* A replacement is under way exactly while the writer has taken a snapshot,
\* and nothing is written before the writer starts.
WriterOwnsFile ==
    /\ ReplaceOK
    /\ At("io") <=> replace.step # "idle"
    /\ At("io") => replace.of = thread.taken
    /\ At("none") => slot.report = NoReport
    /\ OwnerAt("boot") => At("none")
    /\ slot.report.outcome = "none" => slot.report.rev = None

\* No file holds a revision newer than the report or the replacement allows,
\* and a rename shows in the file until the next.
FileHoldsRevisions ==
    /\ \A d \in survivors : d.target \in Snapshots =>
          \/ d.target <= slot.report.rev
          \/ At("io") /\ d.target <= thread.taken
                      /\ replace.step \in {"syncDir", "done"}
    /\ At("io") /\ replace.step = "syncDir" => disk.target = thread.taken
    /\ At("io") /\ replace.outcome = "Durable" =>
          \A d \in survivors : d.target = thread.taken

\* The wake is on its way already while the writer looks at the flag.
WakeIsComing ==
    thread.pc \in {"check", "recv"} /\ slot.pending # None => wake \/ OwnerAt("wake")

\* A failed newest revision that the owner has seen is not held for requested,
\* every other one is, and what is being submitted is a checkpoint.
SeenFailureIsForgotten ==
    /\ ~OwnerAt("wake") /\ owner.latest # None =>
          (owner.requested = "unset" <=> /\ owner.reported = owner.latest
                                         /\ slot.report.outcome # "Durable")
    /\ owner.pc \in {"submit", "wake"} => owner.value # "unset"

IInv ==
    /\ TypeOK
    /\ NoTornFile
    /\ RevisionsInOrder
    /\ WriterOwnsFile
    /\ FileHoldsRevisions
    /\ WakeIsComing
    /\ DurableReportSurvives
    /\ SeenFailureIsForgotten

-----------------------------------------------------------------------------
(* The steps of the owner *)

Owners ==
    [pc : {"boot", "idle", "submit", "wake", "flag", "wakeStop", "await", "join", "ended"},
     writable : BOOLEAN, enabled : BOOLEAN, startFailed : BOOLEAN,
     requested : Checkpoints \cup {"unset"}, value : Checkpoints \cup {"unset"},
     latest : Revisions, reported : Revisions, final : Reports,
     outcome : {"none", "Completed", "TimedOut", "WorkerUnavailable", "AlreadyCompleted"}]
Threads == [pc : {"none", "take", "io", "check", "recv", "exited"}, taken : Revisions]
Slots == [pending : Revisions, accepted : Revisions, report : Reports]
Completions == [sent : BOOLEAN, report : Reports]

\* A step of the owner that submits nothing keeps the invariant when what it
\* makes of the report it saw is right: the slot and the file are left alone,
\* no wake is taken back, and the writer at most starts.
LEMMA OwnerMoves ==
  ASSUME IInv,
         owner' \in Owners, wake' \in BOOLEAN, stop' \in BOOLEAN,
         completion' \in Completions, switches' \in 0 .. MaxSwitches,
         UNCHANGED <<fileVars, slot>>, wake => wake',
         thread' = thread \/ (At("none") /\ thread' = [thread EXCEPT !.pc = "take"]),
         ~OwnerAt("wake"), owner'.pc \notin {"boot", "wake"},
         owner'.pc = "submit" => slot.accepted < MaxSnapshots,
         owner'.latest = owner.latest,
         owner'.reported <= owner.latest, owner'.reported <= slot.report.rev,
         SeenFailureIsForgotten'
  PROVE  IInv'
<1> USE DEF IInv, At, OwnerAt
<1>1. thread' \in Threads
  BY DEF TypeOK, Threads
<1>2. TypeOK'
  BY <1>1 DEF TypeOK, FileTypeOK, fileVars, Owners, Completions, Threads
<1>3. NoTornFile'
  BY DEF NoTornFile, fileVars
<1>4. RevisionsInOrder'
  BY DEF RevisionsInOrder, TypeOK
<1>5. WriterOwnsFile'
  BY DEF WriterOwnsFile, ReplaceOK, TypeOK, fileVars
<1>6. FileHoldsRevisions'
  BY DEF FileHoldsRevisions, TypeOK, fileVars
<1>7. WakeIsComing'
  BY DEF WakeIsComing, TypeOK
<1>8. DurableReportSurvives'
  BY DEF DurableReportSurvives, fileVars
<1> QED
  BY <1>2, <1>3, <1>4, <1>5, <1>6, <1>7, <1>8

\* What the owner's updates leave of the fields that the invariant reads.
SameRevisions(o, p) ==
    p.latest = o.latest /\ p.reported = o.reported /\ p.requested = o.requested

\* The steps of the owner that leave the slot, the file and the writer alone.
LEMMA OwnerStepsKeep ==
  ASSUME IInv,
         \/ InstallProtected \/ RequestStop \/ WakeForStop \/ ReceiveCompletion
         \/ CompletionTimesOut \/ Join \/ ShutdownWithoutWorker \/ BeginShutdown
  PROVE  IInv'
<1> USE DEF OwnerAt
<1>0. /\ wake \in BOOLEAN /\ stop \in BOOLEAN /\ switches \in 0 .. MaxSwitches
      /\ completion \in Completions /\ completion.report \in Reports /\ owner \in Owners
      /\ slot.accepted \in Nat /\ owner.latest \in Nat
  BY DEF IInv, TypeOK, Completions, Owners, Revisions
<1>1. /\ UNCHANGED <<fileVars, thread, switches>>
      /\ owner.pc # "wake" /\ (wake => wake')
      /\ wake' \in BOOLEAN /\ stop' \in BOOLEAN
  BY <1>0 DEF InstallProtected, RequestStop, WakeForStop, ReceiveCompletion,
         CompletionTimesOut, Join, ShutdownWithoutWorker, BeginShutdown
<1>2. slot' = slot
  BY <1>0 DEF IInv, InstallProtected, RequestStop, WakeForStop, ReceiveCompletion,
         CompletionTimesOut, Join, ShutdownWithoutWorker, BeginShutdown, RevisionsInOrder
<1>3. completion' \in Completions
  BY <1>0 DEF InstallProtected, RequestStop, WakeForStop, ReceiveCompletion,
         CompletionTimesOut, Join, ShutdownWithoutWorker, BeginShutdown, Completions
<1>4. PICK pc \in {"idle", "flag", "wakeStop", "await", "join", "ended"},
           e \in {"Completed", "TimedOut", "WorkerUnavailable", "AlreadyCompleted"} :
        \/ owner' = [owner EXCEPT !.pc = pc]
        \/ owner' = [owner EXCEPT !.pc = pc, !.final = completion.report]
        \/ owner' = [owner EXCEPT !.pc = pc, !.outcome = e]
  BY DEF InstallProtected, RequestStop, WakeForStop, ReceiveCompletion,
         CompletionTimesOut, Join, ShutdownWithoutWorker, BeginShutdown, Ends
<1>5. /\ owner' \in Owners /\ owner'.pc \notin {"boot", "submit", "wake"}
      /\ SameRevisions(owner, owner')
  <2>1. CASE owner' = [owner EXCEPT !.pc = pc]
    BY <1>0, <1>4, <2>1 DEF Owners, SameRevisions
  <2>2. CASE owner' = [owner EXCEPT !.pc = pc, !.final = completion.report]
    BY <1>0, <1>4, <2>2 DEF Owners, SameRevisions
  <2>3. CASE owner' = [owner EXCEPT !.pc = pc, !.outcome = e]
    BY <1>0, <1>4, <2>3 DEF Owners, SameRevisions
  <2> QED
    BY <1>4, <2>1, <2>2, <2>3
<1>6. owner'.reported <= owner.latest /\ owner'.reported <= slot.report.rev
  BY <1>5 DEF IInv, RevisionsInOrder, SameRevisions
<1>7. SeenFailureIsForgotten'
  BY <1>1, <1>2, <1>5 DEF IInv, SeenFailureIsForgotten, SameRevisions
<1> QED
  BY <1>0, <1>1, <1>2, <1>3, <1>5, <1>6, <1>7, OwnerMoves DEF SameRevisions

\* Turning resuming on may start the writer.
LEMMA SetEnabledKeeps ==
  ASSUME IInv, SetEnabled
  PROVE  IInv'
<1> DEFINE o == [owner EXCEPT !.enabled = ~owner.enabled]
<1> USE DEF OwnerAt
<1>0. owner \in Owners /\ (~owner.enabled) \in BOOLEAN
  BY DEF IInv, TypeOK, Owners
<1>1. o \in Owners /\ o.pc = owner.pc /\ SameRevisions(owner, o)
  BY <1>0 DEF Owners, SameRevisions
<1>2. /\ \/ owner' = [o EXCEPT !.pc = "idle"]
         \/ owner' = [o EXCEPT !.startFailed = TRUE, !.pc = "idle"]
         \/ owner' = o
      /\ thread' = thread \/ (At("none") /\ thread' = [thread EXCEPT !.pc = "take"])
  BY Zenon DEF SetEnabled, StartWorkerFor, HasWorker
<1> HIDE DEF o
<1>3. /\ UNCHANGED <<fileVars, slot, wake, stop, completion>> /\ owner.pc = "idle"
      /\ wake \in BOOLEAN /\ stop \in BOOLEAN /\ completion \in Completions
  BY DEF IInv, SetEnabled, TypeOK, Completions
<1>4. owner' \in Owners /\ owner'.pc = "idle" /\ SameRevisions(owner, owner')
  BY <1>1, <1>2, <1>3 DEF Owners, SameRevisions
<1>5. switches' \in 0 .. MaxSwitches
  BY PositionsAssumption DEF IInv, SetEnabled, TypeOK
<1>6. owner'.reported <= owner.latest /\ owner'.reported <= slot.report.rev
  BY <1>4 DEF IInv, RevisionsInOrder, SameRevisions
<1>7. SeenFailureIsForgotten'
  BY <1>3, <1>4 DEF IInv, SeenFailureIsForgotten, SameRevisions
<1> QED
  BY <1>2, <1>3, <1>4, <1>5, <1>6, <1>7, OwnerMoves DEF SameRevisions

\* A checkpoint first takes in the report of the newest attempt.
LEMMA CaptureKeeps ==
  ASSUME IInv, NEW checkpoint \in Checkpoints, NEW clear \in BOOLEAN,
         Capture(checkpoint, clear)
  PROVE  IInv'
<1> DEFINE o == ReportLatestAttempt(owner)
           v == [o EXCEPT !.value = checkpoint]
<1> USE DEF OwnerAt
<1>1. /\ owner \in Owners /\ owner.pc = "idle" /\ slot.accepted = owner.latest
      /\ slot.report.rev \in Revisions /\ slot.report.rev <= owner.latest
      /\ owner.reported <= owner.latest /\ owner.reported <= slot.report.rev
      /\ UNCHANGED <<fileVars, slot, wake, stop, completion, switches>>
  BY DEF IInv, TypeOK, Owners, Capture, RevisionsInOrder, Reports
<1>2. /\ o \in Owners /\ o.pc = "idle" /\ o.latest = owner.latest
      /\ o.reported \in {owner.reported, slot.report.rev}
  <2>1. CASE slot.report.rev \in {None, owner.reported}
    BY <1>1, <2>1 DEF ReportLatestAttempt
  <2>2. CASE slot.report.rev \notin {None, owner.reported}
    <3>1. \E r \in Checkpoints \cup {"unset"} :
             o = [owner EXCEPT !.reported = slot.report.rev, !.requested = r]
      BY <1>1, <2>2 DEF ReportLatestAttempt, Owners
    <3> HIDE DEF o
    <3> QED
      BY <1>1, <3>1 DEF Owners
  <2> QED
    BY <2>1, <2>2
<1>3. o.latest # None =>
        (o.requested = "unset" <=> /\ o.reported = o.latest
                                   /\ slot.report.outcome # "Durable")
  <2>1. owner.latest # None =>
          (owner.requested = "unset" <=> /\ owner.reported = owner.latest
                                         /\ slot.report.outcome # "Durable")
    BY <1>1 DEF IInv, SeenFailureIsForgotten
  <2>2. CASE slot.report.rev \in {None, owner.reported}
    BY <2>1, <2>2 DEF ReportLatestAttempt
  <2>3. CASE slot.report.rev \notin {None, owner.reported}
    <3>1. owner.reported \in Nat /\ owner.latest \in Nat /\ slot.report.rev \in Nat
      BY <1>1, ContentKinds DEF Owners, Revisions
    <3>2. owner.latest # None => owner.requested # "unset"
      BY <1>1, <2>1, <2>3, <3>1
    <3>3. /\ o.latest = owner.latest /\ o.reported = slot.report.rev
          /\ o.requested = IF slot.report.outcome # "Durable"
                              /\ owner.latest = slot.report.rev
                           THEN "unset" ELSE owner.requested
      BY <1>1, <2>3 DEF ReportLatestAttempt, Owners
    <3> QED
      BY <3>2, <3>3
  <2> QED
    BY <2>2, <2>3
<1> HIDE DEF o
<1>4. v \in Owners /\ v.pc = "idle" /\ SameRevisions(o, v) /\ v.value = checkpoint
  BY <1>2 DEF Owners, SameRevisions
<1>5. /\ \/ owner' = [v EXCEPT !.pc = "submit"]
         \/ owner' = [v EXCEPT !.startFailed = TRUE, !.pc = "idle"]
         \/ owner' = o
      /\ thread' = thread \/ (At("none") /\ thread' = [thread EXCEPT !.pc = "take"])
  BY Zenon DEF Capture, StartWorkerFor, HasWorker, o
<1> HIDE DEF v
<1>6. /\ owner' \in Owners /\ owner'.pc \in {"idle", "submit"} /\ SameRevisions(o, owner')
  BY <1>2, <1>4, <1>5 DEF Owners, SameRevisions
<1>v. owner'.pc = "submit" => owner'.value # "unset"
  <2>1. checkpoint # "unset"
    BY PositionsAssumption DEF Checkpoints, Cleared
  <2> QED
    BY <1>2, <1>4, <1>5, <2>1 DEF Owners
<1>7. SeenFailureIsForgotten'
  BY <1>1, <1>2, <1>3, <1>6, <1>v DEF SeenFailureIsForgotten, SameRevisions
<1>8. wake' \in BOOLEAN /\ stop' \in BOOLEAN /\ completion' \in Completions
      /\ switches' \in 0 .. MaxSwitches /\ (wake => wake')
  BY <1>1 DEF IInv, TypeOK, Completions
<1>9. slot.accepted < MaxSnapshots
  BY DEF Capture
<1>10. owner'.reported <= owner.latest /\ owner'.reported <= slot.report.rev
  BY <1>1, <1>2, <1>6 DEF SameRevisions, Revisions
<1> QED
  BY <1>1, <1>2, <1>5, <1>6, <1>7, <1>8, <1>9, <1>10, OwnerMoves DEF SameRevisions

\* A store that was missing may be written from now on.
LEMMA InstallStoreKeeps ==
  ASSUME IInv, InstallStore
  PROVE  IInv'
<1> DEFINE o == [owner EXCEPT !.writable = TRUE]
<1> USE DEF OwnerAt
<1>1. o \in Owners /\ SameRevisions(owner, o)
  BY DEF IInv, TypeOK, Owners, SameRevisions
<1>2. /\ \/ owner' = [o EXCEPT !.pc = "idle"]
         \/ owner' = [o EXCEPT !.startFailed = TRUE, !.pc = "idle"]
      /\ thread' = thread \/ (At("none") /\ thread' = [thread EXCEPT !.pc = "take"])
  BY Zenon DEF InstallStore, Install, StartWorkerFor, HasWorker
<1> HIDE DEF o
<1>3. owner' \in Owners /\ owner'.pc = "idle" /\ SameRevisions(owner, owner')
  BY <1>1, <1>2 DEF Owners, SameRevisions
<1>4. /\ UNCHANGED <<fileVars, slot, wake, stop, completion, switches>> /\ owner.pc = "boot"
      /\ wake \in BOOLEAN /\ stop \in BOOLEAN /\ completion \in Completions
      /\ switches \in 0 .. MaxSwitches
  BY DEF IInv, InstallStore, Install, TypeOK, Completions
<1>5. owner'.reported <= owner.latest /\ owner'.reported <= slot.report.rev
  BY <1>3 DEF IInv, RevisionsInOrder, SameRevisions
<1>6. SeenFailureIsForgotten'
  BY <1>3, <1>4 DEF IInv, SeenFailureIsForgotten, SameRevisions
<1> QED
  BY <1>2, <1>3, <1>4, <1>5, <1>6, OwnerMoves DEF SameRevisions

\* An unreadable file is set aside before the writer exists.
LEMMA InstallQuarantinedKeeps ==
  ASSUME IInv, InstallQuarantined
  PROVE  IInv'
<1> DEFINE o == [owner EXCEPT !.writable = TRUE]
<1> USE DEF OwnerAt, At
<1>1. o \in Owners /\ SameRevisions(owner, o)
  BY DEF IInv, TypeOK, Owners, SameRevisions
<1>2. /\ \/ owner' = [o EXCEPT !.pc = "idle"]
         \/ owner' = [o EXCEPT !.startFailed = TRUE, !.pc = "idle"]
      /\ thread' = thread \/ (At("none") /\ thread' = [thread EXCEPT !.pc = "take"])
  BY Zenon DEF InstallQuarantined, Install, StartWorkerFor, HasWorker
<1> HIDE DEF o
<1>3. owner' \in Owners /\ owner'.pc = "idle" /\ SameRevisions(owner, owner')
  BY <1>1, <1>2 DEF Owners, SameRevisions
<1>4. /\ UNCHANGED <<slot, wake, stop, completion, switches, replace, faults>>
      /\ owner.pc = "boot" /\ thread.pc = "none" /\ thread'.pc \in {"none", "take"}
      /\ thread' \in Threads
  BY <1>2 DEF IInv, InstallQuarantined, Install, SetAside, TypeOK, Threads, WriterOwnsFile
<1>5. /\ disk' \in Directories /\ disk'.target = Missing
      /\ survivors' = survivors \cup {disk'}
  BY ContentKinds DEF InstallQuarantined, SetAside, Directories
<1>6. TypeOK'
  BY <1>3, <1>4, <1>5 DEF IInv, TypeOK, FileTypeOK, Owners, Threads
<1>7. NoTornFile'
  BY <1>5, ContentKinds DEF IInv, NoTornFile
<1>8. RevisionsInOrder' /\ WakeIsComing' /\ SeenFailureIsForgotten'
  BY <1>3, <1>4 DEF IInv, RevisionsInOrder, WakeIsComing, SeenFailureIsForgotten,
                    SameRevisions
<1>9. WriterOwnsFile'
  BY <1>3, <1>4 DEF IInv, WriterOwnsFile, ReplaceOK
<1>10. FileHoldsRevisions'
  BY <1>4, <1>5, ContentKinds DEF IInv, FileHoldsRevisions
<1>11. DurableReportSurvives'
  BY <1>4 DEF IInv, WriterOwnsFile, DurableReportSurvives, NoReport
<1> QED
  BY <1>6, <1>7, <1>8, <1>9, <1>10, <1>11 DEF IInv

\* A refused submission moves the owner only; an accepted one fills the slot
\* with a revision newer than any the writer has taken.
LEMMA SubmitKeeps ==
  ASSUME IInv, Submit
  PROVE  IInv'
<1> USE DEF OwnerAt, At
<1>1. /\ owner \in Owners /\ owner.pc = "submit" /\ slot \in Slots
      /\ slot.accepted = owner.latest /\ slot.accepted < MaxSnapshots
      /\ UNCHANGED <<fileVars, wake, stop, completion, thread, switches>>
  BY DEF IInv, TypeOK, Owners, Slots, RevisionsInOrder, Submit
<1>2. CASE stop
  <2>1. owner' = [owner EXCEPT !.pc = "idle", !.startFailed = TRUE] /\ slot' = slot
    BY <1>2 DEF Submit
  <2>2. owner' \in Owners /\ owner'.pc = "idle" /\ SameRevisions(owner, owner')
    BY <1>1, <2>1 DEF Owners, SameRevisions
  <2>3. SeenFailureIsForgotten'
    BY <1>1, <2>1, <2>2 DEF IInv, SeenFailureIsForgotten, SameRevisions
  <2>4. wake' \in BOOLEAN /\ stop' \in BOOLEAN /\ completion' \in Completions
        /\ switches' \in 0 .. MaxSwitches /\ (wake => wake')
    BY <1>1 DEF IInv, TypeOK, Completions
  <2>5. owner'.reported <= owner.latest /\ owner'.reported <= slot.report.rev
    BY <2>2 DEF IInv, RevisionsInOrder, SameRevisions
  <2> QED
    BY <1>1, <2>1, <2>2, <2>3, <2>4, <2>5, OwnerMoves DEF SameRevisions
<1>3. CASE ~stop
  <2>1. /\ slot' = [slot EXCEPT !.pending = owner.latest + 1, !.accepted = owner.latest + 1]
        /\ owner' = [owner EXCEPT !.pc = "wake"]
    BY <1>3 DEF Submit
  <2>2. /\ slot' \in Slots /\ slot'.report = slot.report
        /\ slot'.pending = owner.latest + 1 /\ slot'.accepted = owner.latest + 1
    <3>1. owner.latest + 1 \in Revisions
      BY <1>1, ContentKinds DEF Owners, Revisions
    <3> QED
      BY <1>1, <2>1, <3>1 DEF Slots
  <2>3. owner' \in Owners /\ owner'.pc = "wake" /\ SameRevisions(owner, owner')
    BY <1>1, <2>1 DEF Owners, SameRevisions
  <2>4. TypeOK'
    BY <1>1, <2>2, <2>3 DEF IInv, TypeOK, FileTypeOK, fileVars, Owners, Slots
  <2>5. NoTornFile' /\ WakeIsComing' /\ SeenFailureIsForgotten'
    <3>1. owner'.value # "unset"
      BY <1>1, <2>1 DEF IInv, SeenFailureIsForgotten, Owners
    <3> QED
      BY <1>1, <2>3, <3>1
      DEF IInv, NoTornFile, fileVars, WakeIsComing, SeenFailureIsForgotten
  <2>6. RevisionsInOrder'
    <3>1. /\ owner.latest \in Nat /\ slot.report.rev \in Nat /\ thread.taken \in Nat
          /\ slot.report.rev <= owner.latest
          /\ At("io") => slot.report.rev < thread.taken /\ thread.taken <= owner.latest
          /\ owner.reported <= owner.latest /\ owner.reported <= slot.report.rev
      BY <1>1, ContentKinds
      DEF IInv, RevisionsInOrder, TypeOK, Reports, Revisions, Owners
    <3> QED
      BY <1>1, <2>2, <2>3, <3>1 DEF RevisionsInOrder, SameRevisions
  <2>7. WriterOwnsFile'
    BY <1>1, <2>2, <2>3 DEF IInv, WriterOwnsFile, ReplaceOK, fileVars
  <2>8. FileHoldsRevisions' /\ DurableReportSurvives'
    BY <1>1, <2>2 DEF IInv, FileHoldsRevisions, DurableReportSurvives, fileVars
  <2> QED
    BY <2>4, <2>5, <2>6, <2>7, <2>8 DEF IInv
<1> QED
  BY <1>2, <1>3

\* With its wake the submission becomes the newest revision the owner knows.
LEMMA WakeWriterKeeps ==
  ASSUME IInv, WakeWriter
  PROVE  IInv'
<1> USE DEF OwnerAt, At
<1>1. /\ owner \in Owners /\ owner.pc = "wake" /\ slot \in Slots
      /\ slot.accepted = owner.latest + 1 /\ owner.latest \in Nat /\ owner.reported \in Nat
      /\ owner.reported <= owner.latest /\ wake' = TRUE
      /\ UNCHANGED <<fileVars, slot, stop, completion, thread, switches>>
  BY ContentKinds DEF IInv, TypeOK, Owners, Slots, Revisions, RevisionsInOrder, WakeWriter
<1>2. owner' \in Owners /\ owner'.pc = "idle" /\ owner'.latest = slot.accepted
      /\ owner'.reported = owner.reported
  BY <1>1 DEF WakeWriter, Owners, Slots
<1>3. TypeOK'
  BY <1>1, <1>2 DEF IInv, TypeOK, FileTypeOK, fileVars, Owners
<1>4. NoTornFile' /\ WakeIsComing'
  BY <1>1 DEF IInv, NoTornFile, fileVars, WakeIsComing
<1>5. RevisionsInOrder'
  BY <1>1, <1>2 DEF IInv, RevisionsInOrder
<1>6. WriterOwnsFile'
  BY <1>1, <1>2 DEF IInv, WriterOwnsFile, ReplaceOK, fileVars
<1>7. FileHoldsRevisions' /\ DurableReportSurvives'
  BY <1>1 DEF IInv, FileHoldsRevisions, DurableReportSurvives, fileVars
<1>8. SeenFailureIsForgotten'
  <2>1. owner'.requested # "unset"
    BY <1>1 DEF IInv, SeenFailureIsForgotten, WakeWriter, Owners
  <2> QED
    BY <1>1, <1>2, <2>1 DEF SeenFailureIsForgotten
<1> QED
  BY <1>3, <1>4, <1>5, <1>6, <1>7, <1>8 DEF IInv

-----------------------------------------------------------------------------
(* The steps of the writer *)

\* The writer empties the slot, or finds it empty.
LEMMA TakePendingKeeps ==
  ASSUME IInv, TakePending
  PROVE  IInv'
<1> USE DEF OwnerAt, At
<1>1. /\ slot \in Slots /\ thread \in Threads /\ thread.pc = "take"
      /\ UNCHANGED <<disk, survivors, faults, wake, stop, completion, owner, switches>>
      /\ slot.report.rev \in Nat /\ slot.pending \in Nat
      /\ replace = NoReplace
  BY ContentKinds DEF IInv, TypeOK, FileTypeOK, Slots, Threads, TakePending, Reports,
                      Revisions, WriterOwnsFile, ReplaceOK
<1>2. CASE slot.pending # None
  <2>1. /\ slot' = [slot EXCEPT !.pending = None]
        /\ thread' = [pc |-> "io", taken |-> slot.pending]
        /\ replace' = [NoReplace EXCEPT !.step = "write", !.of = slot.pending]
    BY <1>2 DEF TakePending, BeginReplace
  <2>2. /\ slot' \in Slots /\ slot'.report = slot.report /\ slot'.pending = None
        /\ slot'.accepted = slot.accepted /\ thread' \in Threads
    BY <1>1, <2>1, ContentKinds DEF Slots, Threads, Revisions, None
  <2>3. /\ replace'.step = "write" /\ replace'.of = slot.pending /\ ~replace'.synced
        /\ replace'.outcome = "none"
        /\ replace' \in [step : {"idle", "write", "syncTemp", "rename", "syncDir", "done"},
                          of : 0 .. MaxSnapshots, synced : BOOLEAN,
                          outcome : {"none", "NotReplaced", "Unconfirmed", "Durable"}]
    BY <1>1, <2>1, ContentKinds DEF NoReplace, Slots, Revisions
  <2>4. TypeOK'
    BY <1>1, <2>2, <2>3 DEF IInv, TypeOK, FileTypeOK, Slots, Threads
  <2>5. NoTornFile' /\ WakeIsComing' /\ SeenFailureIsForgotten'
    BY <1>1, <2>1, <2>2 DEF IInv, NoTornFile, WakeIsComing, SeenFailureIsForgotten
  <2>6. RevisionsInOrder'
    BY <1>1, <1>2, <2>1, <2>2 DEF IInv, RevisionsInOrder, None
  <2>7. WriterOwnsFile'
    BY <1>1, <2>1, <2>2, <2>3 DEF IInv, WriterOwnsFile, ReplaceOK
  <2>8. FileHoldsRevisions' /\ DurableReportSurvives'
    BY <1>1, <2>1, <2>2, <2>3 DEF IInv, FileHoldsRevisions, DurableReportSurvives
  <2> QED
    BY <2>4, <2>5, <2>6, <2>7, <2>8 DEF IInv
<1>3. CASE slot.pending = None
  <2>1. slot' = slot /\ replace' = replace /\ thread' = [thread EXCEPT !.pc = "check"]
    BY <1>3 DEF TakePending
  <2>2. thread' \in Threads /\ thread'.pc = "check" /\ thread'.taken = thread.taken
    BY <1>1, <2>1 DEF Threads
  <2>3. TypeOK'
    BY <1>1, <2>1, <2>2 DEF IInv, TypeOK, FileTypeOK, Threads
  <2>4. NoTornFile' /\ WakeIsComing' /\ SeenFailureIsForgotten' /\ RevisionsInOrder'
    BY <1>1, <1>3, <2>1, <2>2
    DEF IInv, NoTornFile, WakeIsComing, SeenFailureIsForgotten, RevisionsInOrder
  <2>5. WriterOwnsFile'
    BY <1>1, <2>1, <2>2 DEF IInv, WriterOwnsFile, ReplaceOK, NoReplace
  <2>6. FileHoldsRevisions' /\ DurableReportSurvives'
    BY <1>1, <2>1, <2>2 DEF IInv, FileHoldsRevisions, DurableReportSurvives
  <2> QED
    BY <2>3, <2>4, <2>5, <2>6 DEF IInv
<1> QED
  BY <1>2, <1>3

\* The rename is the only step that changes the file, and what it puts there is
\* newer than anything a reader or a power loss could have found.
LEMMA FileOperationKeeps ==
  ASSUME IInv, FileOperation
  PROVE  IInv'
<1> USE DEF OwnerAt, At
<1>1. /\ FileTypeOK /\ ReplaceOK /\ NoTornFile /\ FileStep /\ thread.pc = "io"
      /\ UNCHANGED <<slot, wake, stop, completion, thread, owner, switches>>
  BY DEF IInv, TypeOK, WriterOwnsFile, FileOperation
<1>2. /\ replace.of = thread.taken /\ thread.taken \in Nat /\ slot.report.rev \in Nat
      /\ slot.report.rev < thread.taken /\ disk \in Directories /\ disk \in survivors
      /\ thread.taken \in Snapshots
  BY <1>1, ContentKinds DEF IInv, TypeOK, FileTypeOK, WriterOwnsFile, RevisionsInOrder,
                            Reports, Revisions, Snapshots
<1>3. TypeOK'
  BY <1>1, FileStepKeepsTypes DEF IInv, TypeOK
<1>4. NoTornFile' /\ ReplaceOK'
  BY <1>1, FileStepKeepsWhole, FileStepKeepsOrder
<1>5. RevisionsInOrder' /\ WakeIsComing' /\ SeenFailureIsForgotten'
  BY <1>1 DEF IInv, RevisionsInOrder, WakeIsComing, SeenFailureIsForgotten
<1>6. WriterOwnsFile'
  BY <1>1, <1>4, FileStepEffect DEF IInv, WriterOwnsFile
<1>7. FileHoldsRevisions' /\ DurableReportSurvives'
  <2>1. CASE /\ disk' = disk /\ survivors' = survivors
             /\ \/ replace'.step = "done" /\ replace'.outcome \in {"NotReplaced", "Unconfirmed"}
                \/ /\ replace.step \in {"write", "syncTemp"}
                   /\ replace'.step \in {"syncTemp", "rename"}
    BY <1>1, <1>4, <2>1 DEF IInv, FileHoldsRevisions, DurableReportSurvives, ReplaceOK
  <2>2. CASE /\ replace.step = "rename" /\ replace'.step = "syncDir"
             /\ disk' = [disk EXCEPT !.target = replace.of]
             /\ survivors' = survivors \cup {disk'}
    <3>1. disk'.target = thread.taken
      BY <1>2, <2>2 DEF Directories
    <3>2. /\ replace'.outcome # "Durable" /\ replace'.step = "syncDir"
          /\ \A d \in survivors' : d \in survivors \/ d.target = thread.taken
      BY <1>4, <2>2, <3>1 DEF ReplaceOK
    <3>3. FileHoldsRevisions'
      BY <1>1, <1>2, <3>1, <3>2 DEF IInv, FileHoldsRevisions
    <3>4. DurableReportSurvives'
      BY <1>1, <1>2, <3>2 DEF IInv, DurableReportSurvives
    <3> QED
      BY <3>3, <3>4
  <2>3. CASE /\ replace.step = "syncDir" /\ replace'.step = "done"
             /\ replace'.outcome = "Durable" /\ disk' = disk /\ survivors' = {disk}
    BY <1>1, <1>2, <2>3 DEF IInv, FileHoldsRevisions, DurableReportSurvives
  <2> QED
    BY <1>1, <2>1, <2>2, <2>3, FileStepEffect
<1> QED
  BY <1>3, <1>4, <1>5, <1>6, <1>7 DEF IInv

\* The report of the finished attempt replaces the one before it.
LEMMA WriteCompletesKeeps ==
  ASSUME IInv, WriteCompletes
  PROVE  IInv'
<1> USE DEF OwnerAt, At
<1>1. /\ slot \in Slots /\ thread \in Threads /\ thread.pc = "io" /\ replace.step = "done"
      /\ UNCHANGED <<disk, survivors, faults, wake, stop, completion, owner, switches>>
      /\ thread'.pc = "take" /\ thread' \in Threads /\ replace' = NoReplace
      /\ replace.outcome \in {"NotReplaced", "Unconfirmed", "Durable"}
  BY ContentKinds DEF IInv, TypeOK, FileTypeOK, Slots, Threads, WriteCompletes, Revisions,
                      None, WriterOwnsFile, ReplaceOK
<1>2. /\ slot' \in Slots /\ slot'.pending = slot.pending /\ slot'.accepted = slot.accepted
      /\ slot'.report.rev = thread.taken /\ slot'.report.outcome = replace.outcome
  BY <1>1 DEF WriteCompletes, Slots, Threads, Reports
<1>3. /\ thread.taken \in Nat /\ slot.report.rev \in Nat /\ slot.accepted \in Nat
      /\ slot.pending \in Nat /\ owner.latest \in Nat /\ owner.reported \in Nat
      /\ slot.report.rev < thread.taken /\ thread.taken <= slot.accepted
      /\ (slot.pending # None => thread.taken < slot.pending)
      /\ thread.taken \in Snapshots
  BY <1>1, ContentKinds DEF IInv, TypeOK, RevisionsInOrder, Slots, Threads, Reports,
                            Revisions, Snapshots
<1>4. TypeOK'
  <2>1. NoReplace \in [step : {"idle", "write", "syncTemp", "rename", "syncDir", "done"},
                       of : 0 .. MaxSnapshots, synced : BOOLEAN,
                       outcome : {"none", "NotReplaced", "Unconfirmed", "Durable"}]
    BY ContentKinds DEF NoReplace
  <2> QED
    BY <1>1, <1>2, <2>1 DEF IInv, TypeOK, FileTypeOK, Slots, Threads
<1>5. NoTornFile' /\ WakeIsComing'
  BY <1>1 DEF IInv, NoTornFile, WakeIsComing
<1>6. RevisionsInOrder'
  BY <1>1, <1>2, <1>3 DEF IInv, RevisionsInOrder
<1>7. WriterOwnsFile'
  BY <1>1, <1>2 DEF IInv, WriterOwnsFile, ReplaceOK, NoReplace
<1>8. FileHoldsRevisions' /\ DurableReportSurvives'
  <2>1. \A d \in survivors : d \in Directories /\ d.target \in Nat
    BY ContentKinds DEF IInv, TypeOK, FileTypeOK, Directories, Contents
  <2> QED
    BY <1>1, <1>2, <1>3, <2>1 DEF IInv, FileHoldsRevisions, DurableReportSurvives
<1>9. SeenFailureIsForgotten'
  BY <1>1, <1>2, <1>3 DEF IInv, SeenFailureIsForgotten, RevisionsInOrder
<1> QED
  BY <1>4, <1>5, <1>6, <1>7, <1>8, <1>9 DEF IInv

\* The writer looks at the flag after it found the slot empty.
LEMMA CheckStopKeeps ==
  ASSUME IInv, CheckStop
  PROVE  IInv'
<1> USE DEF OwnerAt, At
<1>1. /\ thread \in Threads /\ thread.pc = "check" /\ slot.report \in Reports
      /\ UNCHANGED <<fileVars, slot, wake, stop, owner, switches>>
  BY DEF IInv, TypeOK, Threads, CheckStop
<1>2. thread' \in Threads /\ thread'.pc \in {"recv", "exited"}
  BY <1>1 DEF CheckStop, Threads
<1>3. completion' \in Completions
  BY <1>1 DEF IInv, TypeOK, CheckStop, Completions
<1>4. TypeOK'
  BY <1>1, <1>2, <1>3 DEF IInv, TypeOK, FileTypeOK, fileVars, Threads, Completions
<1>5. NoTornFile' /\ WakeIsComing' /\ RevisionsInOrder' /\ SeenFailureIsForgotten'
  BY <1>1, <1>2 DEF IInv, NoTornFile, fileVars, WakeIsComing, RevisionsInOrder,
                    SeenFailureIsForgotten
<1>6. WriterOwnsFile'
  BY <1>1, <1>2 DEF IInv, WriterOwnsFile, ReplaceOK, fileVars
<1>7. FileHoldsRevisions' /\ DurableReportSurvives'
  BY <1>1, <1>2 DEF IInv, FileHoldsRevisions, DurableReportSurvives, fileVars
<1> QED
  BY <1>4, <1>5, <1>6, <1>7 DEF IInv

\* A wake sends the writer back to the slot.
LEMMA ReceiveWakeKeeps ==
  ASSUME IInv, ReceiveWake
  PROVE  IInv'
<1> USE DEF OwnerAt, At
<1>1. /\ thread \in Threads /\ thread.pc = "recv" /\ wake' = FALSE
      /\ UNCHANGED <<fileVars, slot, stop, completion, owner, switches>>
  BY DEF IInv, TypeOK, Threads, ReceiveWake
<1>2. thread' \in Threads /\ thread'.pc = "take" /\ wake' \in BOOLEAN
  BY <1>1 DEF ReceiveWake, Threads
<1>3. TypeOK'
  BY <1>1, <1>2 DEF IInv, TypeOK, FileTypeOK, fileVars, Threads
<1>4. NoTornFile' /\ WakeIsComing' /\ RevisionsInOrder' /\ SeenFailureIsForgotten'
  BY <1>1, <1>2 DEF IInv, NoTornFile, fileVars, WakeIsComing, RevisionsInOrder,
                    SeenFailureIsForgotten
<1>5. WriterOwnsFile'
  BY <1>1, <1>2 DEF IInv, WriterOwnsFile, ReplaceOK, fileVars
<1>6. FileHoldsRevisions' /\ DurableReportSurvives'
  BY <1>1, <1>2 DEF IInv, FileHoldsRevisions, DurableReportSurvives, fileVars
<1> QED
  BY <1>3, <1>4, <1>5, <1>6 DEF IInv

-----------------------------------------------------------------------------
(* The theorems *)

\* The initial states satisfy the inductive invariant.
LEMMA InitEstablishes == Init => IInv
<1> SUFFICES ASSUME Init PROVE IInv
  OBVIOUS
<1> USE DEF Init, FileInit, OwnerAt, At
<1>1. /\ 0 \in Revisions /\ NoReport \in Reports /\ 0 \in 0 .. MaxFaults
      /\ 0 \in 0 .. MaxSnapshots /\ 0 \in 0 .. MaxSwitches
  BY FileAssumption, PositionsAssumption DEF Revisions, NoReport, Reports, None
<1>2. /\ disk \in Directories /\ disk.target \in {Missing, Corrupt, Newer}
      /\ survivors = {disk}
  BY ContentKinds DEF Directories
<1>3. owner \in Owners /\ owner.pc = "boot" /\ owner.latest = 0 /\ owner.reported = 0
  BY <1>1 DEF Owners, None
<1>4. FileTypeOK
  <2>1. replace = [step |-> "idle", of |-> 0, synced |-> FALSE, outcome |-> "none"]
    BY DEF NoReplace
  <2> QED
    BY <1>1, <1>2, <2>1 DEF FileTypeOK
<1>5. TypeOK
  BY <1>1, <1>3, <1>4 DEF TypeOK, Owners, None
<1>6. NoTornFile
  BY <1>2, ContentKinds DEF NoTornFile
<1>7. RevisionsInOrder /\ WakeIsComing /\ SeenFailureIsForgotten
  BY <1>3 DEF RevisionsInOrder, WakeIsComing, SeenFailureIsForgotten, NoReport, None
<1>8. WriterOwnsFile
  BY DEF WriterOwnsFile, ReplaceOK, NoReplace, NoReport, None
<1>9. FileHoldsRevisions /\ DurableReportSurvives
  BY <1>2, ContentKinds DEF FileHoldsRevisions, DurableReportSurvives, NoReport, NoReplace
<1> QED
  BY <1>5, <1>6, <1>7, <1>8, <1>9 DEF IInv

\* Every step keeps the inductive invariant.
LEMMA NextKeeps == IInv /\ [Next]_vars => IInv'
<1> SUFFICES ASSUME IInv, [Next]_vars PROVE IInv'
  OBVIOUS
<1>1. CASE WriterStep
  BY <1>1, TakePendingKeeps, FileOperationKeeps, WriteCompletesKeeps, CheckStopKeeps,
     ReceiveWakeKeeps DEF WriterStep
<1>2. CASE OwnerStep
  BY <1>2, InstallStoreKeeps, InstallQuarantinedKeeps, SubmitKeeps, WakeWriterKeeps,
     OwnerStepsKeep DEF OwnerStep
<1>3. CASE UserStep
  <2>1. CASE CaptureCheckpoint
    BY <2>1, CaptureKeeps DEF CaptureCheckpoint
  <2>2. CASE ClearAfterPlaylistClear
    BY <2>2, CaptureKeeps DEF ClearAfterPlaylistClear, Checkpoints
  <2> QED
    BY <1>3, <2>1, <2>2, SetEnabledKeeps, OwnerStepsKeep DEF UserStep
<1>4. CASE UNCHANGED vars
  BY <1>4 DEF vars, fileVars, IInv, TypeOK, FileTypeOK, NoTornFile, RevisionsInOrder,
              WriterOwnsFile, ReplaceOK, FileHoldsRevisions, WakeIsComing,
              DurableReportSurvives, SeenFailureIsForgotten, OwnerAt, At
<1> QED
  BY <1>1, <1>2, <1>3, <1>4 DEF Next

\* The inductive invariant holds of every behaviour.
THEOREM Invariance == Spec => []IInv
<1> QED
  BY InitEstablishes, NextKeeps, PTL DEF Spec

\* For every number of snapshots, positions, faults and switches: the types, no
\* file cut short, a wake for every filled slot, durable reports that a power
\* loss cannot refute and failures that the next checkpoint retries
\* (ResumeWorker, PlaylistResumePersistenceOwner).
THEOREM ResumeWriterCorrect == Spec => []ResumeInv
<1>1. IInv => ResumeInv
  BY DEF IInv, ResumeInv, WakeIsComing, NoLostWake, SeenFailureIsForgotten,
         FailureIsRetryable, At, OwnerAt
<1> QED
  BY <1>1, Invariance, PTL

\* No step puts an older revision into the file after a newer one
\* (run_worker, shutdown).
THEOREM FileOnlyMovesForward == Spec => FileFollowsRevisions
<1>1. ASSUME IInv, [Next]_vars, disk.target \in Snapshots
      PROVE  disk'.target \in disk.target .. MaxSnapshots
  <2>1. disk \in survivors /\ disk \in Directories /\ disk.target \in Nat
        /\ disk.target <= MaxSnapshots /\ FileTypeOK /\ ReplaceOK
    BY <1>1, ContentKinds DEF IInv, TypeOK, FileTypeOK, WriterOwnsFile, Snapshots
  <2>2. CASE disk' = disk
    BY <2>1, <2>2, ContentKinds
  <2>3. CASE FileOperation
    <3>1. /\ replace.of = thread.taken /\ replace.of \in Nat /\ replace.of <= MaxSnapshots
          /\ slot.report.rev < thread.taken /\ slot.report.rev \in Nat /\ At("io")
      BY <1>1, <2>3, ContentKinds DEF IInv, TypeOK, FileTypeOK, WriterOwnsFile,
         RevisionsInOrder, FileOperation, Reports, Revisions
    <3>2. CASE /\ replace.step = "rename"
               /\ disk' = [disk EXCEPT !.target = replace.of]
      <4>1. disk'.target = replace.of
        BY <2>1, <3>2 DEF Directories
      <4>2. disk.target <= slot.report.rev
        BY <1>1, <2>1, <3>2 DEF IInv, FileHoldsRevisions
      <4> QED
        BY <2>1, <3>1, <4>1, <4>2
    <3> QED
      BY <2>1, <2>2, <2>3, <3>2, FileStepEffect DEF FileOperation
  <2>4. CASE InstallQuarantined
    BY <1>1, <2>4, ContentKinds DEF InstallQuarantined
  <2>5. disk' = disk \/ FileOperation \/ InstallQuarantined
    <3>1. CASE WriterStep
      BY <3>1 DEF WriterStep, TakePending, WriteCompletes, CheckStop, ReceiveWake, fileVars
    <3>2. CASE OwnerStep
      BY <3>2 DEF OwnerStep, InstallStore, InstallProtected, Submit, WakeWriter,
         RequestStop, WakeForStop, ReceiveCompletion, CompletionTimesOut, Join, fileVars
    <3>3. CASE UserStep
      BY <3>3 DEF UserStep, SetEnabled, CaptureCheckpoint, ClearAfterPlaylistClear,
         Capture, ShutdownWithoutWorker, BeginShutdown, fileVars
    <3> QED
      BY <1>1, <3>1, <3>2, <3>3 DEF Next, vars, fileVars
  <2> QED
    BY <2>2, <2>3, <2>4, <2>5
<1> QED
  BY <1>1, Invariance, PTL DEF Spec, FileFollowsRevisions

=============================================================================
