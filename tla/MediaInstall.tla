---------------------------- MODULE MediaInstall ----------------------------
(***************************************************************************)
(* The player owner's side of a media install: the worker turn that drains  *)
(* playback intent and takes one command (worker/runtime_commands.rs), the  *)
(* registry with its one staged candidate (session/staged_media_install),   *)
(* the request protocol and its receipts (media_install.rs).                *)
(*                                                                         *)
(* The session belongs to the worker thread alone; the playback intent, the *)
(* request-owned receipts and the control replies are each behind a lock of *)
(* their own, so a handler is split where it lets go of one of them.  What  *)
(* a candidate's stages compute (track plans, detached backend, demux seek) *)
(* is a choice between their outcomes.                                      *)
(***************************************************************************)
EXTENDS PlaybackIntent

CONSTANTS
    QueueCap,   \* cells of the worker's command stream
    MaxBatch    \* MAX_COMMANDS_PER_LOOP

ASSUME QueueAssumption == QueueCap \in Nat \ {0} /\ MaxBatch \in Nat \ {0}

VARIABLES
    queue,      \* the ordered command stream of CommandQueue
    wake,       \* is a token in the capacity-one playback intent channel?
    payload,    \* what the stage command of a request carries
    phases,     \* MediaInstallSignalSlots.ready_phases of a request
    terminal,   \* its terminal record
    replies,    \* MediaInstallControlReceipt of a request
    committed,  \* applied_intent_revision of its Installed record, else 0
    owner,      \* program counter of the worker thread
    handled,    \* commands of this batch
    task,       \* the command it handles and what it will answer
    victim,     \* the request whose staged intent must be forgotten next
    active,     \* StagedMediaInstallRegistry.active: request and protocol state
    lastTerminal,   \* its last_terminal_request_id
    current,    \* snapshot.media_instance_id
    playing,    \* the intent update the session follows: instance and revision
    taken       \* the update between take and finish of the drain

receiptVars == <<phases, terminal, replies, committed>>
sessionVars == <<active, lastTerminal, current, playing>>
ownerVars == <<owner, handled, task, victim, taken>>
playerVars == <<queue, wake, payload, receiptVars, sessionVars, ownerVars>>

Ops == {"Stage", "Prepare", "Authorize", "Cancel", "Stop", "Release"}
Command == [op : Ops, req : 0 .. MaxRequests]

NoTask == [op |-> "none", req |-> 0, outcome |-> "none"]
NoActive == [req |-> 0, state |-> "none"]

ControlOutcomes ==
    {"AuthorizationAccepted", "CancellationAccepted",
     "AuthorizationRejectedBeforeCommit", "StaleRequest", "NotReady",
     "AlreadyTerminal"}

OwnerPC ==
    {"top", "takeCurrent", "takeInstalled", "finish", "receive", "supersede",
     "register", "accept", "preflight", "commit", "installed", "forget",
     "reply", "stop", "tick", "wait", "panicked"}

PlayerInit ==
    /\ queue = << >>
    /\ wake = FALSE
    /\ payload = [r \in Requests |->
                    [same |-> FALSE, old |-> 0, rev |-> 1, intent |-> "StartPaused"]]
    /\ phases = [r \in Requests |-> << >>]
    /\ terminal = [r \in Requests |-> "none"]
    /\ replies = [r \in Requests |-> "none"]
    /\ committed = [r \in Requests |-> 0]
    /\ owner = "top"
    /\ handled = 0
    /\ task = NoTask
    /\ victim = 0
    /\ active = NoActive
    /\ lastTerminal = 0
    /\ current = 0
    /\ playing = [inst |-> 0, rev |-> 0]
    /\ taken = NoUpdate

PlayerTypeOK ==
    /\ queue \in Seq(Command) /\ Len(queue) <= QueueCap
    /\ wake \in BOOLEAN
    /\ payload \in [Requests -> [same : BOOLEAN, old : 0 .. MaxRequests,
                                 rev : {1}, intent : Intents]]
    /\ phases \in [Requests -> Seq({"ReadyForPosition", "ReadyToCommit"})]
    /\ terminal \in [Requests ->
                        {"none", "Installed", "Failed", "Cancelled", "taken"}]
    /\ replies \in [Requests -> ControlOutcomes \cup {"none", "taken"}]
    /\ committed \in [Requests -> 0 .. MaxRevision]
    /\ owner \in OwnerPC
    /\ handled \in 0 .. MaxBatch
    /\ task \in [op : Ops \cup {"none", "Tick"}, req : 0 .. MaxRequests,
                 outcome : ControlOutcomes \cup {"none"}]
    /\ victim \in 0 .. MaxRequests
    /\ active \in [req : 0 .. MaxRequests,
                   state : {"none", "Accepted", "ReadyForPosition",
                            "PositionPreparing", "ReadyToCommit"}]
    /\ lastTerminal \in 0 .. MaxRequests
    /\ current \in 0 .. MaxRequests
    /\ playing \in [inst : 0 .. MaxRequests, rev : 0 .. MaxRevision]
    /\ taken \in [rev : 0 .. MaxRevision, intent : Intents,
                  waiters : SUBSET (1 .. MaxUpdates)]

----------------------------------------------------------------------------
(* The turn of the worker: drain_playback_intent_updates, then a command *)

Goto(pc) == owner' = pc

\* The wake token is consumed before the slots are looked at.
DrainWake ==
    /\ owner = "top"
    /\ wake' = FALSE
    /\ task' = NoTask
    /\ Goto("takeCurrent")
    /\ UNCHANGED <<intentVars, queue, payload, receiptVars, sessionVars,
                   victim, taken, handled>>

\* An update of the candidate also reaches the instance that was current when
\* it was made, if that is still the one.  It belongs to another request's
\* revisions and leaves the session's revision alone.
DrainCurrent ==
    /\ owner = "takeCurrent"
    /\ \/ TakePendingCurrent /\ UNCHANGED owner
       \/ forCurrent.req = 0 /\ Goto("takeInstalled") /\ UNCHANGED intentVars
    /\ UNCHANGED <<queue, wake, payload, receiptVars, sessionVars,
                   task, victim, taken, handled>>

\* apply_playback_intent_to_exact_installed_instance: the session follows the
\* update if the instance is still the current one.
DrainInstalled ==
    /\ owner = "takeInstalled"
    /\ \/ /\ TakePendingInstalled
          /\ taken' = pending
          /\ playing' = IF current = installed.req
                        THEN [inst |-> current, rev |-> pending.rev]
                        ELSE playing
          /\ Goto("finish")
       \/ /\ pending.rev = 0
          /\ Goto("receive")
          /\ UNCHANGED <<intentVars, taken, playing>>
    /\ UNCHANGED <<queue, wake, payload, receiptVars, active, lastTerminal,
                   current, task, victim, handled>>

DrainFinish ==
    /\ owner = "finish"
    /\ FinishInstalledUpdate(taken, installed.req, current = installed.req)
    /\ taken' = NoUpdate
    /\ Goto("takeInstalled")
    /\ UNCHANGED <<queue, wake, payload, receiptVars, sessionVars, handled,
                   task, victim>>

----------------------------------------------------------------------------
(* Receipts *)

PublishPhase(r, phase) == phases' = [phases EXCEPT ![r] = Append(@, phase)]

PublishTerminal(r, record) == terminal' = [terminal EXCEPT ![r] = record]

Mut_EndBeforeCommit(r, record) ==
    /\ PublishTerminal(r, record)
    /\ UNCHANGED active
    /\ victim' = r
    /\ Goto("forget")

\* A request ends before its commit: the terminal record is published, and its
\* staged intent is forgotten in a step of its own.
EndBeforeCommit(r, record) ==
    /\ PublishTerminal(r, record)
    /\ active' = NoActive
    /\ victim' = r
    /\ Goto("forget")

Mut_AfterForget ==
    CASE task.op = "Authorize" -> "reply"
      [] task.op = "Stop" -> "stop"
      [] task.op = "Stage" /\ task.req # victim -> "register"
      [] task.op = "Tick" -> "wait"
      [] OTHER -> "top"

\* What the handler does once the intent of victim is forgotten.
AfterForget ==
    CASE task.op \in {"Authorize", "Cancel"} -> "reply"
      [] task.op = "Stop" -> "stop"
      [] task.op = "Stage" /\ task.req # victim -> "register"
      [] task.op = "Tick" -> "wait"
      [] OTHER -> "top"

ForgetVictim ==
    /\ owner = "forget"
    /\ ForgetStagedRequest(victim)
    /\ lastTerminal' = victim
    /\ victim' = 0
    /\ Goto(AfterForget)
    /\ UNCHANGED <<queue, wake, payload, receiptVars, active, current, playing,
                   task, taken, handled>>

----------------------------------------------------------------------------
(* Commands *)

IsMatching(r) == active.req = r

\* A control for a request that is not the staged one.
Mismatch(r) ==
    IF active.req = 0 /\ lastTerminal = r THEN "AlreadyTerminal" ELSE "StaleRequest"

\* receive_next_command inside the bounded batch.
Begin(outcome) ==
    /\ queue # << >> /\ handled < MaxBatch
    /\ handled' = handled + 1
    /\ queue' = Tail(queue)
    /\ task' = [op |-> Head(queue).op, req |-> Head(queue).req, outcome |-> outcome]

\* stage_registered_prepared_media_install: a request that is no longer the
\* latest is cancelled without touching the slot.  The same-lineage path skips
\* the test.
ReceiveStage ==
    /\ owner = "receive" /\ queue # << >> /\ Head(queue).op = "Stage"
    /\ Begin("none")
    /\ LET r == Head(queue).req
       IN \/ /\ payload[r].same \/ staged.req = r
             /\ Goto("supersede")
             /\ UNCHANGED <<terminal, lastTerminal>>
          \/ /\ ~payload[r].same /\ staged.req # r
             /\ PublishTerminal(r, "Cancelled")
             /\ lastTerminal' = r
             /\ Goto("top")
    /\ UNCHANGED <<intentVars, wake, payload, phases, replies, committed, active,
                   current, playing, victim, taken>>

\* cancel_active_staged_media_install(Superseded)
Supersede ==
    /\ owner = "supersede"
    /\ \/ /\ active.req # 0
          /\ EndBeforeCommit(active.req, "Cancelled")
       \/ /\ active.req = 0
          /\ Goto("register")
          /\ UNCHANGED <<terminal, active, victim>>
    /\ UNCHANGED <<intentVars, queue, wake, payload, phases, replies, committed,
                   lastTerminal, current, playing, task, taken, handled>>

Register ==
    /\ owner = "register"
    /\ RegisterStagedRequest(task.req, payload[task.req])
    /\ Goto("accept")
    /\ UNCHANGED <<queue, wake, payload, receiptVars, sessionVars, task, victim,
                   taken, handled>>

\* The checks before the preflight: initial position, audio plan, shutdown.
Accept ==
    /\ owner = "accept"
    /\ \/ EndBeforeCommit(task.req, "Failed")
       \/ /\ active' = [req |-> task.req, state |-> "Accepted"]
          /\ Goto("preflight")
          /\ UNCHANGED <<terminal, victim>>
    /\ UNCHANGED <<intentVars, queue, wake, payload, phases, replies, committed,
                   lastTerminal, current, playing, task, taken, handled>>

AfterService == IF owner = "tick" THEN "wait" ELSE "top"

\* A same-lineage candidate needs its position before it is ready to commit.
ReadyPhase(r) == IF payload[r].same THEN "ReadyForPosition" ELSE "ReadyToCommit"

\* service_pending_staged_preflight that ends the preflight: ready, or failed
\* by the planner, the window, the backend or the deadline.
PreflightSettles ==
    /\ owner \in {"preflight", "tick"} /\ active.state = "Accepted"
    /\ task' = IF owner = "tick" THEN [NoTask EXCEPT !.op = "Tick"] ELSE task
    /\ \/ EndBeforeCommit(active.req, "Failed") /\ UNCHANGED phases
       \/ /\ PublishPhase(active.req, ReadyPhase(active.req))
          /\ active' = [active EXCEPT !.state = ReadyPhase(active.req)]
          /\ Goto(AfterService)
          /\ UNCHANGED <<terminal, victim>>
    /\ UNCHANGED <<intentVars, queue, wake, payload, replies, committed,
                   lastTerminal, current, playing, taken, handled>>

\* The demuxer is not ready: a later tick tries again before the deadline.
PreflightPending ==
    /\ owner \in {"preflight", "tick"} /\ active.state = "Accepted"
    /\ Goto(AfterService)
    /\ UNCHANGED <<intentVars, queue, wake, payload, receiptVars, sessionVars,
                   task, victim, taken, handled>>

OldInstanceIsCurrent(r) == current = payload[r].old

\* The position gate ends: the candidate stands at the old instance's position,
\* or not.
PositionGate(r) ==
    \/ EndBeforeCommit(r, "Failed") /\ UNCHANGED phases
    \/ /\ OldInstanceIsCurrent(r)
       /\ PublishPhase(r, "ReadyToCommit")
       /\ active' = [active EXCEPT !.state = "ReadyToCommit"]
       /\ Goto(AfterService)
       /\ UNCHANGED <<terminal, victim>>

\* begin_staged_position_preparation
ReceivePrepare ==
    /\ owner = "receive" /\ queue # << >> /\ Head(queue).op = "Prepare"
    /\ Begin("none")
    /\ LET r == Head(queue).req
           begins == IsMatching(r) /\ active.state = "ReadyForPosition"
       IN \/ ~begins /\ Goto("top") /\ UNCHANGED <<phases, terminal, active, victim>>
          \/ begins /\ PositionGate(r)
          \/ /\ begins /\ OldInstanceIsCurrent(r)
             /\ active' = [active EXCEPT !.state = "PositionPreparing"]
             /\ Goto("top")
             /\ UNCHANGED <<phases, terminal, victim>>
    /\ UNCHANGED <<intentVars, wake, payload, replies, committed, lastTerminal,
                   current, playing, taken>>

\* service_staged_position_preparation with the receipt of the demux worker, or
\* past its deadline.
PositionSettles ==
    /\ owner = "tick" /\ active.state = "PositionPreparing"
    /\ task' = [NoTask EXCEPT !.op = "Tick"]
    /\ PositionGate(active.req)
    /\ UNCHANGED <<intentVars, queue, wake, payload, replies, committed,
                   lastTerminal, current, playing, taken, handled>>

PositionPending ==
    /\ owner = "tick" /\ active.state = "PositionPreparing"
    /\ Goto("wait")
    /\ UNCHANGED <<intentVars, queue, wake, payload, receiptVars, sessionVars,
                   task, victim, taken, handled>>

----------------------------------------------------------------------------
(* Control: authorize, cancel, stop, release *)

\* apply_staged_media_install_control(Authorize).  A same-lineage candidate is
\* validated once more against the old instance.
ReceiveAuthorize ==
    /\ owner = "receive" /\ queue # << >> /\ Head(queue).op = "Authorize"
    /\ LET r == Head(queue).req
           ready == IsMatching(r) /\ active.state = "ReadyToCommit"
       IN \/ /\ ~ready
             /\ Begin(IF IsMatching(r) THEN "NotReady" ELSE Mismatch(r))
             /\ Goto("reply")
             /\ UNCHANGED <<terminal, active, victim>>
          \/ /\ ready /\ payload[r].same
             /\ Begin("AuthorizationRejectedBeforeCommit")
             /\ EndBeforeCommit(r, "Failed")
          \/ /\ ready /\ (payload[r].same => OldInstanceIsCurrent(r))
             /\ Begin("AuthorizationAccepted")
             /\ Goto("commit")
             /\ UNCHANGED <<terminal, active, victim>>
    /\ UNCHANGED <<intentVars, wake, payload, phases, replies, committed,
                   lastTerminal, current, playing, taken>>

\* commit_staged_request around commit_staged_media: the staged intent becomes
\* the installed one and the session changes to the new instance, under the
\* intent lock.  Without its staged intent the owner panics.
Commit ==
    /\ owner = "commit"
    /\ \/ /\ CommitStagedRequest(task.req)
          /\ committed' = [committed EXCEPT ![task.req] = staged.rev]
          /\ current' = task.req
          /\ playing' = [inst |-> task.req, rev |-> staged.rev]
          /\ active' = NoActive
          /\ Goto("installed")
       \/ /\ staged.req # task.req
          /\ staged' = NoSlot
          /\ Goto("panicked")
          /\ UNCHANGED <<installed, pending, staleInstalled, forCurrent, answers,
                         committed, current, playing, active>>
    /\ UNCHANGED <<queue, wake, payload, phases, terminal, replies, lastTerminal,
                   task, victim, taken, handled>>

PublishInstalled ==
    /\ owner = "installed"
    /\ PublishTerminal(task.req, "Installed")
    /\ lastTerminal' = task.req
    /\ Goto("reply")
    /\ UNCHANGED <<intentVars, queue, wake, payload, phases, replies, committed,
                   active, current, playing, task, victim, taken, handled>>

ReceiveCancel ==
    /\ owner = "receive" /\ queue # << >> /\ Head(queue).op = "Cancel"
    /\ LET r == Head(queue).req
       IN \/ /\ IsMatching(r)
             /\ Begin("CancellationAccepted")
             /\ EndBeforeCommit(r, "Cancelled")
          \/ /\ ~IsMatching(r)
             /\ Begin(Mismatch(r))
             /\ Goto("reply")
             /\ UNCHANGED <<terminal, active, victim>>
    /\ UNCHANGED <<intentVars, wake, payload, phases, replies, committed,
                   lastTerminal, current, playing, taken>>

\* The control receipt is answered last, after the terminal record.
Reply ==
    /\ owner = "reply"
    /\ replies' = [replies EXCEPT ![task.req] = task.outcome]
    /\ Goto("top")
    /\ UNCHANGED <<intentVars, queue, wake, payload, phases, terminal, committed,
                   sessionVars, task, victim, taken, handled>>

\* handle_stop_command: the candidate is cancelled, then the media is closed.
\* The installed slot keeps its request.
ReceiveStop ==
    /\ owner = "receive" /\ queue # << >> /\ Head(queue).op = "Stop"
    /\ Begin("none")
    /\ \/ active.req # 0 /\ EndBeforeCommit(active.req, "Cancelled")
       \/ active.req = 0 /\ Goto("stop") /\ UNCHANGED <<terminal, active, victim>>
    /\ UNCHANGED <<intentVars, wake, payload, phases, replies, committed,
                   lastTerminal, current, playing, taken>>

Stop ==
    /\ owner = "stop"
    /\ current' = 0
    /\ Goto("top")
    /\ UNCHANGED <<intentVars, queue, wake, payload, receiptVars, active,
                   lastTerminal, playing, task, victim, taken, handled>>

\* match_installed_target = Matching
MatchesInstalled(r) == staged.req # r /\ installed.req = r

\* release_installed_media stops exactly the instance it names.
ReceiveRelease ==
    /\ owner = "receive" /\ queue # << >> /\ Head(queue).op = "Release"
    /\ Begin("none")
    /\ LET r == Head(queue).req
       IN Goto(IF MatchesInstalled(r) /\ current = r THEN "stop" ELSE "top")
    /\ UNCHANGED <<intentVars, wake, payload, receiptVars, sessionVars, victim,
                   taken>>

----------------------------------------------------------------------------
(* The end of a turn *)

\* No command is left, or the batch is full: the fairness checkpoint may run a
\* tick.
EndBatch ==
    /\ owner = "receive" /\ (queue = << >> \/ handled = MaxBatch)
    /\ Goto("tick")
    /\ UNCHANGED <<intentVars, queue, wake, payload, receiptVars, sessionVars,
                   task, victim, taken, handled>>

TickWithoutCandidate ==
    /\ owner = "tick" /\ active.state \notin {"Accepted", "PositionPreparing"}
    /\ Goto("wait")
    /\ UNCHANGED <<intentVars, queue, wake, payload, receiptVars, sessionVars,
                   task, victim, taken, handled>>

Mut_HasDeadline == active.state = "Accepted"

\* staged_preflight_wakeup_delay: the worker sleeps with a deadline while a
\* candidate waits.
HasDeadline == active.state \in {"Accepted", "PositionPreparing"}

\* After a full batch the next turn begins without a wait.
WakeUp ==
    /\ owner = "wait"
    /\ queue # << >> \/ wake \/ HasDeadline \/ handled = MaxBatch
    /\ Goto("top")
    /\ handled' = 0
    /\ UNCHANGED <<intentVars, queue, wake, payload, receiptVars, sessionVars,
                   task, victim, taken>>

Drain == DrainWake \/ DrainCurrent \/ DrainInstalled \/ DrainFinish

Staging ==
    \/ ReceiveStage \/ Supersede \/ Register \/ Accept
    \/ PreflightSettles \/ PreflightPending
    \/ ReceivePrepare \/ PositionSettles \/ PositionPending

Control ==
    \/ ReceiveAuthorize \/ Commit \/ PublishInstalled \/ ReceiveCancel
    \/ ForgetVictim \/ Reply \/ ReceiveStop \/ Stop \/ ReceiveRelease

PlayerStep ==
    \/ Drain \/ Staging \/ Control
    \/ EndBatch \/ TickWithoutCandidate \/ WakeUp
=============================================================================
