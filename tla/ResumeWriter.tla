---------------------------- MODULE ResumeWriter ----------------------------
(***************************************************************************)
(* The resume position of the playlist: its owner on the user interface     *)
(* thread (app-egui/src/playlist_runtime/resume_persistence.rs) and its     *)
(* writer thread (playlist-state/src/resume/worker.rs; the writer of the    *)
(* track memory, track_memory/writer.rs, is the same code).                 *)
(*                                                                         *)
(* The owner puts each checkpoint that differs from the last requested one  *)
(* into a slot that holds the newest only, and wakes the thread over a      *)
(* channel of capacity one.  The thread empties the slot, replaces the file *)
(* and leaves its report; it ends when it finds the slot empty and the      *)
(* shutdown flag set.  A failed write is retried by the next checkpoint.    *)
(*                                                                         *)
(* Which checkpoint is due, and its position, come from the player: here    *)
(* any checkpoint may come at any time.  Revision 0 stands for None.        *)
(***************************************************************************)
EXTENDS AtomicFile

CONSTANTS
    Positions,      \* what a checkpoint may hold
    MaxSwitches     \* bound: times the user turns resuming on or off

ASSUME PositionsAssumption == "unset" \notin Positions /\ MaxSwitches \in Nat

VARIABLES
    slot,       \* SharedState
    wake,       \* the wake channel holds a message
    stop,       \* shutdown_requested
    completion, \* the completion channel: the final report, once sent
    thread,     \* the writer's program counter and the snapshot it took
    owner,      \* PlaylistResumePersistenceOwner, with its program counter
    switches

vars == <<fileVars, slot, wake, stop, completion, thread, owner, switches>>

None == 0
Revisions == 0 .. MaxSnapshots
\* The tombstone that a cleared playlist leaves.
Cleared == "Cleared"
Checkpoints == Positions \cup {Cleared}
Reports == [rev : Revisions, outcome : {"none", "NotReplaced", "Unconfirmed", "Durable"}]
NoReport == [rev |-> None, outcome |-> "none"]

TypeOK ==
    /\ FileTypeOK
    /\ slot \in [pending : Revisions, accepted : Revisions, report : Reports]
    /\ wake \in BOOLEAN /\ stop \in BOOLEAN
    /\ completion \in [sent : BOOLEAN, report : Reports]
    /\ thread \in [pc : {"none", "take", "io", "check", "recv", "exited"},
                   taken : Revisions]
    /\ owner \in
        [pc : {"boot", "idle", "submit", "wake", "flag", "wakeStop", "await", "join",
               "ended"},
         writable : BOOLEAN, enabled : BOOLEAN, startFailed : BOOLEAN,
         requested : Checkpoints \cup {"unset"}, value : Checkpoints \cup {"unset"},
         latest : Revisions, reported : Revisions, final : Reports,
         outcome : {"none", "Completed", "TimedOut", "WorkerUnavailable",
                    "AlreadyCompleted"}]
    /\ switches \in 0 .. MaxSwitches

Init ==
    /\ FileInit
    /\ slot = [pending |-> None, accepted |-> None, report |-> NoReport]
    /\ wake = FALSE /\ stop = FALSE
    /\ completion = [sent |-> FALSE, report |-> NoReport]
    /\ thread = [pc |-> "none", taken |-> None]
    /\ \E on \in BOOLEAN :
          owner = [pc |-> "boot", writable |-> FALSE, enabled |-> on,
                   startFailed |-> FALSE, requested |-> "unset", value |-> "unset",
                   latest |-> None, reported |-> None, final |-> NoReport,
                   outcome |-> "none"]
    /\ switches = 0

OwnerAt(pc) == owner.pc = pc
At(pc) == thread.pc = pc
HasWorker == ~At("none")

----------------------------------------------------------------------------
(* Start *)

\* start_worker_for, once the store may be written.
StartWorkerFor(o, next) ==
    \/ HasWorker /\ owner' = [o EXCEPT !.pc = next] /\ UNCHANGED thread
    \/ ~HasWorker /\ thread' = [thread EXCEPT !.pc = "take"]
                  /\ owner' = [o EXCEPT !.pc = next]
    \/ ~HasWorker /\ owner' = [o EXCEPT !.startFailed = TRUE, !.pc = "idle"]
                  /\ UNCHANGED thread

\* install_store, then the activation of a persistent lineage.
Install(o) ==
    /\ IF o.enabled THEN StartWorkerFor(o, "idle")
       ELSE owner' = [o EXCEPT !.pc = "idle"] /\ UNCHANGED thread
    /\ UNCHANGED <<slot, wake, stop, completion, switches>>

InstallStore ==
    /\ OwnerAt("boot") /\ disk.target = Missing
    /\ Install([owner EXCEPT !.writable = TRUE])
    /\ UNCHANGED fileVars

InstallQuarantined ==
    /\ OwnerAt("boot") /\ disk.target = Corrupt
    /\ SetAside
    /\ Install([owner EXCEPT !.writable = TRUE])

InstallProtected ==
    /\ OwnerAt("boot") /\ disk.target \in {Corrupt, Newer}
    /\ owner' = [owner EXCEPT !.pc = "idle"]
    /\ UNCHANGED <<fileVars, slot, wake, stop, completion, thread, switches>>

SetEnabled ==
    /\ OwnerAt("idle") /\ switches < MaxSwitches
    /\ switches' = switches + 1
    /\ LET o == [owner EXCEPT !.enabled = ~owner.enabled]
       IN IF o.enabled /\ o.writable THEN StartWorkerFor(o, "idle")
          ELSE owner' = o /\ UNCHANGED thread
    /\ UNCHANGED <<fileVars, slot, wake, stop, completion>>

----------------------------------------------------------------------------
(* A checkpoint *)

\* Mutant: the failure of an older revision resets the newer request.
Mut_ReportLatestAttempt(o) ==
    IF slot.report.rev \in {None, o.reported} THEN o
    ELSE [o EXCEPT !.reported = slot.report.rev,
            !.requested = IF slot.report.outcome # "Durable" THEN "unset" ELSE @]

\* report_latest_attempt: the failure of the newest revision lets the same
\* checkpoint be written again.
ReportLatestAttempt(o) ==
    IF slot.report.rev \in {None, o.reported} THEN o
    ELSE [o EXCEPT !.reported = slot.report.rev,
            !.requested = IF slot.report.outcome # "Durable"
                             /\ o.latest = slot.report.rev THEN "unset" ELSE @]

\* record_installed, observe_snapshot, record_confirmed_seek, force_snapshot and
\* clear_after_playlist_clear, up to the submission.
Capture(checkpoint, clear) ==
    /\ OwnerAt("idle") /\ slot.accepted < MaxSnapshots
    /\ LET o == ReportLatestAttempt(owner)
       IN IF (o.enabled \/ clear) /\ o.writable /\ o.requested # checkpoint
          THEN StartWorkerFor([o EXCEPT !.value = checkpoint], "submit")
          ELSE owner' = o /\ UNCHANGED thread
    /\ UNCHANGED <<fileVars, slot, wake, stop, completion, switches>>

CaptureCheckpoint == \E checkpoint \in Checkpoints : Capture(checkpoint, FALSE)
ClearAfterPlaylistClear == Capture(Cleared, TRUE)

\* ResumeWorker::submit; after a shutdown that timed out it is refused.
Submit ==
    /\ OwnerAt("submit")
    /\ \/ /\ stop
          /\ owner' = [owner EXCEPT !.pc = "idle", !.startFailed = TRUE]
          /\ UNCHANGED slot
       \/ /\ ~stop
          /\ slot' = [slot EXCEPT !.pending = owner.latest + 1, !.accepted = owner.latest + 1]
          /\ owner' = [owner EXCEPT !.pc = "wake"]
    /\ UNCHANGED <<fileVars, wake, stop, completion, thread, switches>>

Mut_WakeWriter ==
    /\ OwnerAt("wake")
    /\ owner' = [owner EXCEPT !.pc = "idle", !.requested = owner.value,
                              !.latest = slot.accepted]
    /\ wake' = (wake \/ At("recv"))
    /\ UNCHANGED <<fileVars, slot, stop, completion, thread, switches>>

\* A full channel holds a wake that is still to come.
WakeWriter ==
    /\ OwnerAt("wake")
    /\ owner' = [owner EXCEPT !.pc = "idle", !.requested = owner.value,
                              !.latest = slot.accepted]
    /\ wake' = TRUE
    /\ UNCHANGED <<fileVars, slot, stop, completion, thread, switches>>

----------------------------------------------------------------------------
(* Shutdown *)

Ends(outcome) == owner' = [owner EXCEPT !.pc = "ended", !.outcome = outcome]

ShutdownWithoutWorker ==
    /\ OwnerAt("idle") /\ ~HasWorker
    /\ Ends(IF owner.startFailed THEN "WorkerUnavailable" ELSE "AlreadyCompleted")
    /\ UNCHANGED <<fileVars, slot, wake, stop, completion, thread, switches>>

\* Fault: the shutdown submits a failed revision again without comparing revisions.
Mut_BeginShutdown ==
    /\ OwnerAt("idle") /\ HasWorker
    /\ slot' = IF slot.report.outcome \in {"NotReplaced", "Unconfirmed"}
               THEN [slot EXCEPT !.pending = slot.report.rev]
               ELSE slot
    /\ owner' = [owner EXCEPT !.pc = "flag"]
    /\ UNCHANGED <<fileVars, wake, stop, completion, thread, switches>>

\* shutdown_until passes its newest snapshot again; the slot takes a newer one.
BeginShutdown ==
    /\ OwnerAt("idle") /\ HasWorker
    /\ slot' = IF slot.accepted < owner.latest
               THEN [slot EXCEPT !.pending = owner.latest, !.accepted = owner.latest]
               ELSE slot
    /\ owner' = [owner EXCEPT !.pc = "flag"]
    /\ UNCHANGED <<fileVars, wake, stop, completion, thread, switches>>

RequestStop ==
    /\ OwnerAt("flag")
    /\ stop' = TRUE
    /\ owner' = [owner EXCEPT !.pc = "wakeStop"]
    /\ UNCHANGED <<fileVars, slot, wake, completion, thread, switches>>

Mut_WakeForStop ==
    /\ OwnerAt("wakeStop")
    /\ owner' = [owner EXCEPT !.pc = "await"]
    /\ UNCHANGED <<fileVars, slot, wake, stop, completion, thread, switches>>

WakeForStop ==
    /\ OwnerAt("wakeStop")
    /\ wake' = TRUE
    /\ owner' = [owner EXCEPT !.pc = "await"]
    /\ UNCHANGED <<fileVars, slot, stop, completion, thread, switches>>

ReceiveCompletion ==
    /\ OwnerAt("await") /\ completion.sent
    /\ completion' = [completion EXCEPT !.sent = FALSE]
    /\ owner' = [owner EXCEPT !.pc = "join", !.final = completion.report]
    /\ UNCHANGED <<fileVars, slot, wake, stop, thread, switches>>

\* The owner keeps its worker and may ask again.
CompletionTimesOut ==
    /\ OwnerAt("await")
    /\ owner' = [owner EXCEPT !.pc = "idle", !.outcome = "TimedOut"]
    /\ UNCHANGED <<fileVars, slot, wake, stop, completion, thread, switches>>

Join ==
    /\ OwnerAt("join") /\ At("exited")
    /\ Ends("Completed")
    /\ UNCHANGED <<fileVars, slot, wake, stop, completion, thread, switches>>

----------------------------------------------------------------------------
(* run_worker *)

TakePending ==
    /\ At("take")
    /\ \/ /\ slot.pending # None
          /\ slot' = [slot EXCEPT !.pending = None]
          /\ thread' = [pc |-> "io", taken |-> slot.pending]
          /\ BeginReplace(slot.pending)
       \/ /\ slot.pending = None
          /\ thread' = [thread EXCEPT !.pc = "check"]
          /\ UNCHANGED <<slot, replace>>
    /\ UNCHANGED <<disk, survivors, faults, wake, stop, completion, owner, switches>>

FileOperation ==
    /\ At("io") /\ FileStep
    /\ UNCHANGED <<slot, wake, stop, completion, thread, owner, switches>>

WriteCompletes ==
    /\ At("io") /\ replace.step = "done"
    /\ slot' = [slot EXCEPT !.report = [rev |-> thread.taken, outcome |-> replace.outcome]]
    /\ thread' = [pc |-> "take", taken |-> None]
    /\ replace' = NoReplace
    /\ UNCHANGED <<disk, survivors, faults, wake, stop, completion, owner, switches>>

\* The flag is read in a step of its own, after the slot was found empty.
CheckStop ==
    /\ At("check")
    /\ thread' = [thread EXCEPT !.pc = IF stop THEN "exited" ELSE "recv"]
    /\ completion' = IF stop THEN [sent |-> TRUE, report |-> slot.report] ELSE completion
    /\ UNCHANGED <<fileVars, slot, wake, stop, owner, switches>>

ReceiveWake ==
    /\ At("recv") /\ wake
    /\ wake' = FALSE
    /\ thread' = [thread EXCEPT !.pc = "take"]
    /\ UNCHANGED <<fileVars, slot, stop, completion, owner, switches>>

WriterStep == TakePending \/ FileOperation \/ WriteCompletes \/ CheckStop \/ ReceiveWake

OwnerStep ==
    \/ InstallStore \/ InstallQuarantined \/ InstallProtected \/ Submit \/ WakeWriter
    \/ RequestStop \/ WakeForStop \/ ReceiveCompletion \/ CompletionTimesOut \/ Join

UserStep ==
    \/ SetEnabled \/ CaptureCheckpoint \/ ClearAfterPlaylistClear
    \/ ShutdownWithoutWorker \/ BeginShutdown

Next == WriterStep \/ OwnerStep \/ UserStep

Spec == Init /\ [][Next]_vars

\* Both threads run on; the user need do nothing.
FairSpec == Spec /\ WF_vars(WriterStep) /\ WF_vars(OwnerStep)

----------------------------------------------------------------------------
(* Properties *)

\* A writer that sleeps has its wake on the way whenever the slot holds a
\* snapshot, though the wakes of several submissions coalesce (submit).
NoLostWake ==
    At("recv") /\ slot.pending # None => wake \/ OwnerAt("wake")

\* A revision reported as durable survives a power loss, it or a newer one,
\* whatever the writer is doing since (write_snapshot, latest_report).
DurableReportSurvives ==
    slot.report.outcome = "Durable" =>
        \A d \in survivors : d.target \in Snapshots /\ d.target >= slot.report.rev

\* The newest checkpoint is forgotten as requested exactly when its own write
\* is seen to have failed: then the same position is written when it comes
\* again, and the failure of an older revision, seen late, does not make the
\* owner write the newer one twice (make_failed_revision_retryable).
FailureIsRetryable ==
    OwnerAt("idle") /\ owner.latest # None =>
        (owner.requested = "unset" <=> /\ owner.reported = owner.latest
                                       /\ slot.report.outcome # "Durable")

\* The file never goes back to an older revision: neither a failed write nor
\* the shutdown puts an older snapshot in after a newer one (run_worker, shutdown).
FileFollowsRevisions ==
    [][disk.target \in Snapshots => disk'.target \in disk.target .. MaxSnapshots]_vars

\* Every accepted snapshot reaches the file, it or a newer one, or the report
\* says that the file was not replaced, after which only a new checkpoint
\* tries again; the shutdown may come first (submit, run_worker).
AcceptedIsWrittenOrReported ==
    \A r \in Snapshots :
        slot.accepted = r ~>
            \/ disk.target \in Snapshots /\ disk.target >= r
            \/ slot.report.rev >= r /\ slot.report.outcome = "NotReplaced"
            \/ stop

\* The writer ends once it is asked to, asleep or writing (shutdown).
StopEndsWriter == stop ~> At("exited")

\* The shutdown writes the newest snapshot: the comment on
\* ResumeWorker::shutdown says that it is not lost.  The writer may find the
\* slot empty, sleep over both the submission and the flag, and then leave.
ShutdownWritesNewest ==
    owner.outcome = "Completed" => owner.final.rev = owner.latest

\* What always holds of the resume writer: the types, no file cut short, a wake
\* for every filled slot, reports that a power loss cannot refute, and failures
\* that can be retried (ResumeWorker, PlaylistResumePersistenceOwner).
ResumeInv ==
    /\ TypeOK
    /\ NoTornFile
    /\ NoLostWake
    /\ DurableReportSurvives
    /\ FailureIsRetryable

=============================================================================
