----------------------------- MODULE SaveWorker -----------------------------
(***************************************************************************)
(* The latest-only save worker of playlist-state                            *)
(* (src/crates/playlist-state/src/worker/mod.rs), its mailbox               *)
(* (worker/mailbox.rs) and the writer it calls (atomic_write.rs).           *)
(*                                                                         *)
(* One thread receives commands over a bounded channel, keeps the newest    *)
(* dirty snapshot, waits out a debounce or a retry delay and then performs  *)
(* one attempt: a full replacement, or only the directory sync when the     *)
(* replacement is done and its durability is not confirmed.  Each attempt   *)
(* puts a report in the mailbox and wakes the application.                  *)
(*                                                                         *)
(* A SaveRevision is the number of its snapshot; 0 stands for None.  Time   *)
(* is abstracted to whether the scheduled attempt is due.                   *)
(***************************************************************************)
EXTENDS AtomicFile, Sequences

CONSTANTS
    CommandCapacity,    \* SAVE_COMMAND_CAPACITY
    EventCapacity       \* SAVE_EVENT_CAPACITY

ASSUME WorkerAssumption ==
    CommandCapacity \in Nat \ {0} /\ EventCapacity \in Nat \ {0, 1}

VARIABLES
    commands,   \* the command channel
    sending,    \* the channel still has its sender
    work,       \* WorkerState, with the thread's program counter
    mail,       \* WorkerMailbox
    ack,        \* the acknowledgement of the shutdown
    appWake     \* the application has been woken and has not drained yet

workerVars == <<commands, sending, work, mail, ack, appWake>>

None == 0
Revisions == 0 .. MaxSnapshots
Commands ==
    [op : {"Commit", "Reschedule", "RetryNow", "MailboxDrained", "Shutdown"},
     rev : Revisions]
Reports == [rev : Revisions, outcome : {"NotReplaced", "Unconfirmed", "Durable"}]
Completions ==
    [kind : {"none", "NoCommittedSnapshot", "AlreadyDurable", "Attempted"},
     rev : Revisions, outcome : {"none", "NotReplaced", "Unconfirmed", "Durable"}]
NoCompletion == [kind |-> "none", rev |-> None, outcome |-> "none"]

WorkerStates ==
    [pc : {"none", "recv", "ready", "full", "io", "edge", "warn", "warnEdge",
           "ack", "acked", "exited"},
     closing : BOOLEAN, dirty : Revisions, durable : Revisions,
     pending : Revisions, attempt : {"none", "FullWrite", "DirectorySync"},
     due : BOOLEAN, warning : Revisions]
Mailboxes ==
    [reports : Seq(Reports), warning : Revisions, warningPending : BOOLEAN,
     wake : BOOLEAN]

NewWorker ==
    [pc |-> "recv", closing |-> FALSE, dirty |-> None, durable |-> None,
     pending |-> None, attempt |-> "none", due |-> FALSE, warning |-> None]
EmptyMailbox ==
    [reports |-> << >>, warning |-> None, warningPending |-> FALSE, wake |-> FALSE]

WorkerTypeOK ==
    /\ commands \in Seq(Commands) /\ Len(commands) <= CommandCapacity
    /\ sending \in BOOLEAN
    /\ work \in WorkerStates
    /\ mail \in Mailboxes
    /\ Len(mail.reports) <= EventCapacity
    /\ ack \in Completions
    /\ appWake \in BOOLEAN

\* The worker of a process that has none: its thread could not be started.
WorkerInit(pc) ==
    /\ commands = << >>
    /\ sending = TRUE
    /\ work = [NewWorker EXCEPT !.pc = pc]
    /\ mail = EmptyMailbox
    /\ ack = NoCompletion
    /\ appWake = FALSE

----------------------------------------------------------------------------
(* WorkerState *)

Mut_AcceptSnapshot(w, r) ==
    IF w.dirty >= r \/ w.durable >= r THEN w
    ELSE [w EXCEPT !.dirty = r]

AcceptSnapshot(w, r) ==
    IF w.dirty >= r \/ w.durable >= r THEN w
    ELSE [w EXCEPT !.dirty = r, !.pending = None,
                   !.attempt = "FullWrite", !.due = FALSE]

RescheduleDebounce(w) ==
    IF w.dirty # None /\ w.attempt = "FullWrite" THEN [w EXCEPT !.due = FALSE] ELSE w

RetryNow(w) ==
    IF w.dirty = None THEN w
    ELSE [w EXCEPT !.due = TRUE,
            !.attempt = IF w.pending # None THEN "DirectorySync" ELSE "FullWrite"]

MarkDurable(w, r) ==
    [w EXCEPT !.durable = r, !.pending = None, !.attempt = "none", !.due = FALSE,
              !.dirty = IF @ <= r THEN None ELSE @,
              !.warning = IF w.dirty <= r THEN None ELSE @]

\* A failure schedules its retry: the whole write, or only the sync.
ScheduleRetry(w, kind) ==
    [w EXCEPT !.warning = w.dirty, !.attempt = kind, !.due = FALSE]

ApplyOutcome(w, outcome) ==
    CASE outcome = "Durable" -> MarkDurable(w, w.dirty)
      [] outcome = "NotReplaced" ->
            ScheduleRetry([w EXCEPT !.pending = None], "FullWrite")
      [] outcome = "Unconfirmed" ->
            ScheduleRetry([w EXCEPT !.pending = w.dirty], "DirectorySync")

----------------------------------------------------------------------------
(* Commands *)

TrySend(op, r) == commands' = Append(commands, [op |-> op, rev |-> r])
HasRoom == Len(commands) < CommandCapacity

\* The operation of an attempt; the rest of it are the steps of AtomicFile.
BeginAttempt(w) ==
    IF w.attempt = "DirectorySync" THEN BeginDirectorySync ELSE BeginReplace(w.dirty)

\* perform_shutdown up to its attempt, which bypasses every timer.
Close(r) ==
    LET w == RetryNow(AcceptSnapshot(work, r))
    IN IF w.dirty # None
       THEN /\ work' = [w EXCEPT !.pc = "io", !.closing = TRUE]
            /\ BeginAttempt(w)
            /\ UNCHANGED ack
       ELSE /\ work' = [w EXCEPT !.pc = "ack", !.closing = TRUE]
            /\ ack' = [NoCompletion EXCEPT
                         !.kind = IF w.durable = None THEN "NoCommittedSnapshot"
                                  ELSE "AlreadyDurable",
                         !.rev = w.durable]
            /\ UNCHANGED replace

\* process_command, one command.  Its loop takes the next with try_recv, and
\* where there is none run_worker receives again: the same step from "recv".
ProcessCommand(next) ==
    /\ commands # << >>
    /\ commands' = Tail(commands)
    /\ LET c == Head(commands)
       IN \/ /\ c.op = "Shutdown"
             /\ Close(c.rev)
          \/ /\ c.op # "Shutdown"
             /\ work' = [CASE c.op = "Commit" -> AcceptSnapshot(work, c.rev)
                           [] c.op = "Reschedule" -> RescheduleDebounce(work)
                           [] c.op = "RetryNow" -> RetryNow(work)
                           [] c.op = "MailboxDrained" -> work
                         EXCEPT !.pc = next]
             /\ UNCHANGED <<replace, ack>>
    /\ UNCHANGED <<disk, survivors, faults, sending, mail, appWake>>

At(pc) == work.pc = pc
Goto(pc) ==
    /\ work' = [work EXCEPT !.pc = pc]
    /\ UNCHANGED <<fileVars, commands, sending, mail, ack, appWake>>

ReceiveCommand == At("recv") /\ ProcessCommand("recv")

\* recv_timeout returns at the deadline of the scheduled attempt.
DeadlineReached ==
    /\ At("recv") /\ commands = << >> /\ sending /\ work.attempt # "none"
    /\ work' = [work EXCEPT !.pc = "ready", !.due = TRUE]
    /\ UNCHANGED <<fileVars, commands, sending, mail, ack, appWake>>

Mut_Disconnected ==
    /\ work.pc \in {"recv", "full"} /\ commands = << >> /\ ~sending
    /\ work.attempt = "none"
    /\ Goto("exited")

\* The last sender is gone and nothing is queued: the thread ends, flushing
\* nothing.  Nobody is left to read the disconnect it publishes.
Disconnected ==
    /\ work.pc \in {"recv", "full"} /\ commands = << >> /\ ~sending
    /\ Goto("exited")

\* drain_ready_commands, for commands that came with the deadline.
ReadyCommand == At("ready") /\ ProcessCommand("ready")
ReadyDrained == At("ready") /\ commands = << >>

NotDue == ReadyDrained /\ ~work.due /\ Goto("recv")

HasNormalEventCapacity == Len(mail.reports) < EventCapacity - 1

ExecuteAttempt ==
    /\ ReadyDrained /\ work.due /\ HasNormalEventCapacity
    /\ work' = [work EXCEPT !.pc = "io"]
    /\ BeginAttempt(work)
    /\ UNCHANGED <<disk, survivors, faults, commands, sending, mail, ack, appWake>>

\* The mailbox is full: the thread waits for a command, whichever.
WaitForDrain == ReadyDrained /\ work.due /\ ~HasNormalEventCapacity /\ Goto("full")
ReceiveWhenFull == At("full") /\ ProcessCommand("recv")

----------------------------------------------------------------------------
(* One attempt *)

FileOperation ==
    /\ At("io") /\ FileStep
    /\ UNCHANGED workerVars

\* The outcome is applied and its report published; publish_attempt drops a
\* report that finds no room.
AttemptCompletes ==
    /\ At("io") /\ replace.step = "done"
    /\ LET report == [rev |-> work.dirty, outcome |-> replace.outcome]
       IN /\ work' = [ApplyOutcome(work, replace.outcome) EXCEPT !.pc = "edge"]
          /\ mail' = IF Len(mail.reports) < EventCapacity
                     THEN [mail EXCEPT !.reports = Append(@, report)] ELSE mail
          /\ ack' = IF work.closing
                    THEN [kind |-> "Attempted", rev |-> report.rev,
                          outcome |-> report.outcome]
                    ELSE ack
    /\ replace' = NoReplace
    /\ UNCHANGED <<disk, survivors, faults, commands, sending, appWake>>

\* publish_wake_edge: only the first publication since the last drain wakes.
WakeEdge ==
    /\ mail' = [mail EXCEPT !.wake = TRUE]
    /\ appWake' = (appWake \/ ~mail.wake)

PublishAttemptEdge ==
    /\ At("edge") /\ WakeEdge
    /\ work' = [work EXCEPT !.pc = "warn"]
    /\ UNCHANGED <<fileVars, commands, sending, ack>>

\* publish_warning; a repeated failure differs by its count.
PublishWarning ==
    /\ At("warn")
    /\ mail' = [mail EXCEPT !.warning = work.warning,
                  !.warningPending = @ \/ work.warning # None \/ mail.warning # None]
    /\ work' = [work EXCEPT !.pc = "warnEdge"]
    /\ UNCHANGED <<fileVars, commands, sending, ack, appWake>>

PublishWarningEdge ==
    /\ At("warnEdge") /\ WakeEdge
    /\ work' = [work EXCEPT !.pc = IF work.closing THEN "ack" ELSE "recv"]
    /\ UNCHANGED <<fileVars, commands, sending, ack>>

\* The acknowledgement is sent after the last access to the file.
Acknowledge == At("ack") /\ Goto("acked")
ThreadExits == At("acked") /\ Goto("exited")

WorkerStep ==
    \/ ReceiveCommand \/ DeadlineReached
    \/ Disconnected \/ ReadyCommand \/ NotDue \/ ExecuteAttempt
    \/ WaitForDrain \/ ReceiveWhenFull \/ FileOperation \/ AttemptCompletes
    \/ PublishAttemptEdge \/ PublishWarning \/ PublishWarningEdge \/ Acknowledge
    \/ ThreadExits

=============================================================================
