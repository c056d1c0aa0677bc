---------------------------- MODULE PlaylistSave ----------------------------
(***************************************************************************)
(* Saving the playlist, from start to exit and through crashes: the owner   *)
(* on the user interface thread                                             *)
(* (app-egui/src/playlist_runtime/persistence.rs, with the startup decision  *)
(* of startup_runtime.rs) over the worker and the file.                     *)
(*                                                                         *)
(* The code numbers revisions from 1 in each process.  Here a revision      *)
(* keeps counting across processes: they are only ever compared within one, *)
(* and the number then also says which snapshot a file holds.               *)
(***************************************************************************)
EXTENDS SaveWorker

CONSTANTS
    MaxBoots,       \* bound: processes in a row
    MaxControls     \* bound: debounce changes and manual retries

ASSUME PlaylistAssumption == MaxBoots \in Nat \ {0} /\ MaxControls \in Nat

VARIABLES
    owner,      \* PlaylistPersistenceOwner, with the thread's program counter
    events,     \* what the drain under way took from the mailbox
    committed,  \* snapshots committed so far, in every process
    promised,   \* the newest snapshot reported as durable, in every process
    boots,      \* processes so far
    controls    \* control commands so far

ownerVars == <<owner, events, committed, promised, boots, controls>>
vars == <<fileVars, workerVars, ownerVars>>

NoEvents == [reports |-> << >>, changed |-> FALSE, warning |-> None]
NewOwner ==
    [pc |-> "boot", quitting |-> FALSE, latest |-> None, retained |-> None,
     submitted |-> None, blocked |-> FALSE, uncaptured |-> FALSE,
     durability |-> "NoCommittedSnapshot", rev |-> None, warning |-> None,
     outcome |-> "none"]

OwnerStates ==
    [pc : {"boot", "idle", "flag", "edge", "resume", "apply", "admit", "ack",
           "join", "ended"},
     quitting : BOOLEAN, latest : Revisions, retained : Revisions,
     submitted : Revisions, blocked : BOOLEAN, uncaptured : BOOLEAN,
     durability : {"NoCommittedSnapshot", "Pending", "NotReplaced",
                   "Unconfirmed", "Durable"},
     rev : Revisions, warning : Revisions,
     outcome : {"none", "CompletedWithoutWorker", "WriterUnavailable",
                "Completed", "SnapshotCaptureFailed", "TimedOut"}]
EventBatches == [reports : Seq(Reports), changed : BOOLEAN, warning : Revisions]

TypeOK ==
    /\ FileTypeOK /\ WorkerTypeOK
    /\ owner \in OwnerStates
    /\ events \in EventBatches
    /\ committed \in Revisions /\ promised \in Revisions
    /\ boots \in 1 .. MaxBoots /\ controls \in 0 .. MaxControls

Init ==
    /\ FileInit /\ WorkerInit("none")
    /\ owner = NewOwner /\ events = NoEvents
    /\ committed = 0 /\ promised = 0 /\ boots = 1 /\ controls = 0

OwnerAt(pc) == owner.pc = pc
HasWorker == work.pc # "none"

----------------------------------------------------------------------------
(* Start *)

\* start_for_lineage, unless the thread cannot be started.
StartWorker ==
    /\ \E pc \in {"recv", "none"} : work' = [NewWorker EXCEPT !.pc = pc]
    /\ owner' = [owner EXCEPT !.pc = "idle"]

StartPersistent ==
    /\ OwnerAt("boot") /\ disk.target \in {Missing} \cup Snapshots
    /\ StartWorker
    /\ UNCHANGED <<fileVars, commands, sending, mail, ack, appWake, events,
                   committed, promised, boots, controls>>

Mut_StartQuarantined ==
    /\ OwnerAt("boot") /\ disk.target \in {Corrupt, Torn}
    /\ StartWorker
    /\ UNCHANGED <<fileVars, commands, sending, mail, ack, appWake, events,
                   committed, promised, boots, controls>>

\* A file that cannot be read is moved aside before anything is written.
StartQuarantined ==
    /\ OwnerAt("boot") /\ disk.target \in {Corrupt, Torn}
    /\ SetAside
    /\ StartWorker
    /\ UNCHANGED <<commands, sending, mail, ack, appWake, events, committed,
                   promised, boots, controls>>

\* A file of a newer version, or one that could not be moved, is not touched.
StartBlocked ==
    /\ OwnerAt("boot") /\ disk.target \in {Corrupt, Torn, Newer}
    /\ owner' = [owner EXCEPT !.pc = "idle", !.blocked = TRUE]
    /\ UNCHANGED <<fileVars, workerVars, events, committed, promised, boots,
                   controls>>

----------------------------------------------------------------------------
(* Commits and controls *)

\* submit_or_retain: what the bounded channel refuses is kept by the owner.
SubmitOrRetain(o, r) ==
    IF r = None THEN owner' = o /\ UNCHANGED commands
    ELSE IF HasWorker /\ o.submitted >= r
    THEN owner' = [o EXCEPT !.retained = None] /\ UNCHANGED commands
    ELSE IF HasWorker /\ HasRoom
    THEN /\ owner' = [o EXCEPT !.retained = None, !.submitted = r]
         /\ TrySend("Commit", r)
    ELSE owner' = [o EXCEPT !.retained = r] /\ UNCHANGED commands

PublishCommitted ==
    /\ OwnerAt("idle") /\ ~owner.blocked /\ committed < MaxSnapshots
    /\ committed' = committed + 1
    /\ SubmitOrRetain([owner EXCEPT !.latest = committed', !.uncaptured = FALSE,
                         !.durability = "Pending", !.rev = committed'],
                      committed')
    /\ UNCHANGED <<fileVars, sending, work, mail, ack, appWake, events, promised,
                   boots, controls>>

\* The new state exceeds what a snapshot can hold: nothing is published.
CaptureFails ==
    /\ OwnerAt("idle") /\ ~owner.blocked /\ owner.latest # None
    /\ owner' = [owner EXCEPT !.uncaptured = TRUE]
    /\ UNCHANGED <<fileVars, workerVars, events, committed, promised, boots,
                   controls>>

\* reschedule_debounce and retry_now; a full channel refuses them.
Control(op) ==
    /\ OwnerAt("idle") /\ HasWorker /\ HasRoom /\ controls < MaxControls
    /\ controls' = controls + 1
    /\ TrySend(op, None)
    /\ UNCHANGED <<fileVars, sending, work, mail, ack, appWake, owner, events,
                   committed, promised, boots>>

UserRescheduleDebounce == Control("Reschedule")
UserRetryNow == Control("RetryNow")

----------------------------------------------------------------------------
(* Draining the mailbox *)

\* WorkerMailbox::drain takes the payload under the lock ...
Drain(quit) ==
    /\ OwnerAt("idle") /\ HasWorker
    /\ owner' = [owner EXCEPT !.pc = "flag", !.quitting = quit]
    /\ events' = [reports |-> mail.reports, changed |-> mail.warningPending,
                  warning |-> mail.warning]
    /\ mail' = [mail EXCEPT !.reports = << >>, !.warningPending = FALSE]
    /\ appWake' = FALSE
    /\ UNCHANGED <<fileVars, commands, sending, work, ack, committed, promised,
                   boots, controls>>

DrainPersistence == Drain(FALSE)

\* ... then clears the flag that holds further wakes back ...
ClearWakePending ==
    /\ OwnerAt("flag")
    /\ owner' = [owner EXCEPT !.pc = "edge"]
    /\ mail' = [mail EXCEPT !.wake = FALSE]
    /\ UNCHANGED <<fileVars, commands, sending, work, ack, appWake, events,
                   committed, promised, boots, controls>>

HasPendingPayload == mail.reports # << >> \/ mail.warningPending

\* ... and wakes itself for what came in between.
RepublishEdge ==
    /\ OwnerAt("edge")
    /\ owner' = [owner EXCEPT !.pc = "resume"]
    /\ IF HasPendingPayload THEN WakeEdge ELSE UNCHANGED <<mail, appWake>>
    /\ UNCHANGED <<fileVars, commands, sending, work, ack, events, committed,
                   promised, boots, controls>>

Mut_ResumeWorker ==
    /\ OwnerAt("resume")
    /\ owner' = [owner EXCEPT !.pc = "apply"]
    /\ UNCHANGED <<fileVars, workerVars, events, committed, promised, boots,
                   controls>>

\* drain_events tells the worker that its mailbox has room again.
ResumeWorker ==
    /\ OwnerAt("resume")
    /\ owner' = [owner EXCEPT !.pc = "apply"]
    /\ IF HasRoom /\ (events.reports # << >> \/ events.changed)
       THEN TrySend("MailboxDrained", None) ELSE UNCHANGED commands
    /\ UNCHANGED <<fileVars, sending, work, mail, ack, appWake, events, committed,
                   promised, boots, controls>>

Larger(a, b) == IF a > b THEN a ELSE b

\* apply_worker_event: a report on an older revision is not shown.
Shown(o, report) ==
    IF report.rev < o.latest THEN o
    ELSE [o EXCEPT !.durability = report.outcome, !.rev = report.rev]

\* What is shown after a batch of reports is what the last of them shows: each
\* is of the current revision or not shown, and they come in order.
ShownAfter(o, reports) ==
    IF reports = << >> THEN o ELSE Shown(o, reports[Len(reports)])

\* The user has been told of a durable snapshot.
Promises(o) ==
    promised' = IF o.durability = "Durable" THEN Larger(promised, o.rev) ELSE promised

\* The events are applied and a retained snapshot is submitted; on the way out
\* the worker is given up to shutdown, which gets the newest state anyway.
ApplyEvents ==
    /\ OwnerAt("apply")
    /\ LET shown == [ShownAfter(owner, events.reports) EXCEPT
                       !.warning = IF events.changed THEN events.warning ELSE @]
       IN /\ Promises(shown)
          /\ SubmitOrRetain([shown EXCEPT !.pc = IF owner.quitting THEN "admit"
                                                 ELSE "idle"],
                            owner.retained)
    /\ events' = NoEvents
    /\ UNCHANGED <<fileVars, sending, work, mail, ack, appWake, committed, boots,
                   controls>>

----------------------------------------------------------------------------
(* Shutdown *)

BeginShutdown == Drain(TRUE)

Ends(o, outcome) == owner' = [o EXCEPT !.pc = "ended", !.outcome = outcome]

ShutdownWithoutWorker ==
    /\ OwnerAt("idle") /\ ~HasWorker
    /\ Ends([owner EXCEPT !.retained = None],
            IF owner.latest = None THEN "CompletedWithoutWorker"
            ELSE "WriterUnavailable")
    /\ UNCHANGED <<fileVars, workerVars, events, committed, promised, boots,
                   controls>>

Mut_NewestCommitted == None

\* The state is captured again, under the revision it already has.
NewestCommitted == IF owner.uncaptured THEN None ELSE owner.latest

\* send_shutdown_until_deadline retries a full channel.
AdmitShutdown ==
    /\ OwnerAt("admit") /\ HasRoom
    /\ TrySend("Shutdown", NewestCommitted)
    /\ sending' = FALSE
    /\ owner' = [owner EXCEPT !.pc = "ack", !.retained = None]
    /\ UNCHANGED <<fileVars, work, mail, ack, appWake, events, committed, promised,
                   boots, controls>>

AdmissionTimesOut ==
    /\ OwnerAt("admit") /\ ~HasRoom
    /\ sending' = FALSE
    /\ Ends([owner EXCEPT !.retained = None], "TimedOut")
    /\ UNCHANGED <<fileVars, commands, work, mail, ack, appWake, events, committed,
                   promised, boots, controls>>

ReceiveAcknowledgement ==
    /\ OwnerAt("ack") /\ work.pc \in {"acked", "exited"}
    /\ owner' = [owner EXCEPT !.pc = "join"]
    /\ UNCHANGED <<fileVars, workerVars, events, committed, promised, boots,
                   controls>>

AcknowledgementTimesOut ==
    /\ OwnerAt("ack")
    /\ Ends(owner, "TimedOut")
    /\ UNCHANGED <<fileVars, workerVars, events, committed, promised, boots,
                   controls>>

\* apply_shutdown_completion
Concluded ==
    CASE ack.kind = "NoCommittedSnapshot" -> owner
      [] ack.kind = "AlreadyDurable" ->
            [owner EXCEPT !.durability = "Durable", !.rev = ack.rev, !.warning = None]
      [] ack.kind = "Attempted" ->
            [Shown(owner, ack) EXCEPT
               !.warning = IF ack.outcome = "Durable" THEN None ELSE ack.rev]

\* The thread is joined only once it has finished.
JoinEnds ==
    /\ OwnerAt("join")
    /\ \/ /\ At("exited")
          /\ Ends(Concluded, IF owner.uncaptured THEN "SnapshotCaptureFailed"
                             ELSE "Completed")
       \/ /\ ~At("exited")
          /\ Ends(Concluded, "TimedOut")
    /\ Promises(Concluded)
    /\ UNCHANGED <<fileVars, workerVars, events, committed, boots, controls>>

----------------------------------------------------------------------------
(* The ends of a process, and the next one *)

Restart ==
    /\ boots < MaxBoots /\ boots' = boots + 1
    /\ owner' = NewOwner /\ events' = NoEvents
    /\ commands' = << >> /\ sending' = TRUE
    /\ work' = [NewWorker EXCEPT !.pc = "none"]
    /\ mail' = EmptyMailbox /\ ack' = NoCompletion /\ appWake' = FALSE
    /\ UNCHANGED <<committed, promised, controls>>

\* The process exits or dies, with whatever its worker is doing.
ProcessEnds == FileProcessEnds /\ Restart
MachineStops == PowerLoss /\ Restart

UserStep ==
    \/ PublishCommitted \/ CaptureFails \/ UserRescheduleDebounce \/ UserRetryNow
    \/ BeginShutdown \/ ShutdownWithoutWorker

\* What the user interface thread does by itself.
OwnerStep ==
    \/ StartPersistent \/ StartQuarantined \/ StartBlocked
    \/ ClearWakePending \/ RepublishEdge \/ ResumeWorker \/ ApplyEvents
    \/ AdmitShutdown \/ AdmissionTimesOut \/ ReceiveAcknowledgement
    \/ AcknowledgementTimesOut \/ JoinEnds

WorkerNext == WorkerStep /\ UNCHANGED ownerVars

Next ==
    \/ UserStep \/ OwnerStep \/ DrainPersistence \/ WorkerNext
    \/ ProcessEnds \/ MachineStops

Spec == Init /\ [][Next]_vars

\* has_background_work: the owner is polled while its snapshot is not durable.
HasBackgroundWork == HasWorker /\ owner.durability \in {"Pending", "NotReplaced", "Unconfirmed"}

\* Both threads run, and the application drains when woken or polled.
FairSpec ==
    /\ Spec
    /\ WF_vars(OwnerStep)
    /\ WF_vars(WorkerNext)
    /\ WF_vars((appWake \/ HasBackgroundWork) /\ DrainPersistence)

----------------------------------------------------------------------------
(* Properties *)

\* A snapshot reported as durable is in the file, it or a newer one, whatever
\* stops next: the report follows the directory sync of that very snapshot
\* (mark_durable), also when the sync is a retry of its own.
PromiseSurvives ==
    promised # None =>
        \A d \in survivors : d.target \in Snapshots /\ d.target >= promised

\* The newest committed snapshot is never dropped on its way: the owner retains
\* it, a command carries it, or the worker has it or has saved it
\* (submit_or_retain, accept_snapshot).  At shutdown a state that can no longer
\* be captured is the one exception.
LatestIsHeld ==
    owner.latest # None /\ ~OwnerAt("ended")
      /\ ~(owner.uncaptured /\ owner.pc \in {"ack", "join"})
    => owner.latest \in {owner.retained, work.dirty, work.durable}
                         \cup {commands[i].rev : i \in DOMAIN commands}

\* The retry that only syncs the directory is for the snapshot that is in the
\* file and still the newest one the worker has (durability_pending_revision).
RetrySyncsWhatIsThere ==
    work.pending # None => work.pending = work.dirty /\ disk.target = work.dirty

\* No report of an attempt finds the mailbox full: the last slot is kept for the
\* attempt of the shutdown (has_normal_event_capacity, publish_attempt).
NoReportDropped ==
    At("io") /\ replace.step = "done" => Len(mail.reports) < EventCapacity

\* What is in the mailbox has its wake on the way, though wakes coalesce and
\* the drain clears their flag after it has taken the payload
\* (WorkerMailbox::drain, publish_wake_edge).
NoLostWake ==
    HasPendingPayload =>
        \/ appWake
        \/ work.pc \in {"edge", "warnEdge"}
        \/ owner.pc \in {"flag", "edge"}

\* A shutdown that completes tells how the newest snapshot fared: on disk for
\* good, on disk for now, or not on disk (shutdown_until, perform_shutdown).
ShutdownTellsTheTruth ==
    owner.outcome = "Completed" /\ owner.latest # None =>
        /\ owner.rev = owner.latest
        /\ CASE owner.durability = "Durable" ->
                    \A d \in survivors : d.target = owner.latest
             [] owner.durability = "Unconfirmed" -> disk.target = owner.latest
             [] owner.durability = "NotReplaced" -> disk.target # owner.latest
             [] OTHER -> FALSE

\* A file the application cannot read is never destroyed, by a save, by its
\* move aside or by a power loss after it (apply_inspection_outcome).
UnreadableFileIsKept ==
    [][\A c \in {Corrupt, Newer} :
          c \in {disk.target, disk.aside} => c \in {disk.target, disk.aside}']_vars

\* The saving of the playlist implements what it promises.
Saved == INSTANCE SavedState WITH
    saved <- IF disk.target \in Snapshots THEN disk.target ELSE 0

SavesAsPromised == Saved!Spec

\* While the process runs, every committed snapshot is reported durable in the
\* end: failed calls are retried, a full mailbox and a full channel resume.
CommitsBecomeDurable ==
    HasBackgroundWork ~> owner.durability = "Durable" \/ owner.pc \in {"boot", "ended"}

\* Without its sender the thread ends, whatever it was doing, so that the
\* process may release its files (receive_next_command, perform_shutdown).
WorkerEnds == ~sending ~> At("exited") \/ OwnerAt("boot")

\* What always holds of saving the playlist: the types, no file cut short, no
\* promise a power loss can break, the newest snapshot on its way, a directory
\* sync only for what is there, no report dropped and no wake lost
\* (SaveWorker, PlaylistPersistenceOwner).
SaveInv ==
    /\ TypeOK
    /\ NoTornFile
    /\ PromiseSurvives
    /\ LatestIsHeld
    /\ RetrySyncsWhatIsThere
    /\ NoReportDropped
    /\ NoLostWake

=============================================================================
