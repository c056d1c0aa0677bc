----------------------------- MODULE MediaOpen -----------------------------
(***************************************************************************)
(* Opening a medium, end to end: the media-open coordinator on the user     *)
(* interface thread (app-egui/src/media_open/coordinator.rs and its          *)
(* player_staging.rs) and the senders it calls (player-core/src/worker/      *)
(* sender.rs), composed with the player owner of MediaInstall.              *)
(*                                                                         *)
(* The coordinator has one request at a time.  It prepares the source,      *)
(* stages it at the player, authorizes or cancels the install and waits for *)
(* the owner's receipts; the user plays and pauses all the while.  The user *)
(* interface polls the receipts each frame and never blocks on them.        *)
(***************************************************************************)
EXTENDS MediaInstall

VARIABLES
    open,       \* the coordinator's current request
    ui,         \* program counter of the user interface thread
    previous,   \* the staged slot that a failed registration restores
    allocated,  \* the last player request allocated
    known       \* the installed request the application knows of

openVars == <<open, ui, previous, allocated, known>>
vars == <<intentVars, playerVars, openVars>>

\* terminal carries the violated expectation of a FatalInvariant.
Fatals ==
    {"UnexpectedAuthorizationOutcome", "MissingInstalledAfterPlayerEnqueue",
     "MissingTerminalAfterPlayerControl", "UnexpectedPlayerInstallPhase"}

NoOpen ==
    [phase |-> "Idle", req |-> 0, pos |-> "NotRequired", pending |-> "none",
     terminal |-> "none"]

OpenInit ==
    /\ open = NoOpen
    /\ ui = "idle"
    /\ previous = NoSlot
    /\ allocated = 0
    /\ known = 0

OpenTypeOK ==
    /\ open \in
        [phase : {"Idle", "Preparing", "Prepared", "PlayerStaging",
                  "ReadyToCommit", "DispatchPending", "Enqueued", "Installed",
                  "Failed"},
         req : 0 .. MaxRequests,
         pos : {"NotRequired", "WaitingForPlayerReady", "ReadyForPosition",
                "PreparationDispatched", "ReadyToCommit"},
         pending : {"none", "Authorization", "Cancellation"},
         terminal : {"none", "Installed", "Cancelled", "PreparationFailed",
                     "PlayerRejected", "PlayerFailed"} \cup Fatals]
    /\ ui \in {"idle", "send", "rollback", "wake"}
    /\ previous \in Slot
    /\ allocated \in 0 .. MaxRequests
    /\ known \in 0 .. MaxRequests

Fails(with) == open' = [open EXCEPT !.phase = "Failed", !.terminal = with]

----------------------------------------------------------------------------
(* Start and preparation *)

Mut_Start ==
    /\ ui = "idle" /\ allocated < MaxRequests
    /\ open' = [NoOpen EXCEPT !.phase = "Preparing"]
    /\ UNCHANGED <<intentVars, playerVars, ui, previous, allocated, known>>

\* start_with_task: refused as Busy until the terminal of the last request has
\* been taken.
Start ==
    /\ ui = "idle" /\ open.phase = "Idle" /\ allocated < MaxRequests
    /\ open' = [open EXCEPT !.phase = "Preparing"]
    /\ UNCHANGED <<intentVars, playerVars, ui, previous, allocated, known>>

\* start_prepared: the source owner brings its own demuxer.
StartPrepared ==
    /\ ui = "idle" /\ open.phase = "Idle" /\ allocated < MaxRequests
    /\ open' = [open EXCEPT !.phase = "Prepared"]
    /\ UNCHANGED <<intentVars, playerVars, ui, previous, allocated, known>>

\* drain_preparation takes the result of the preparation executor.
DrainPreparation ==
    /\ ui = "idle" /\ open.phase = "Preparing"
    /\ \/ open' = [open EXCEPT !.phase = "Prepared"]
       \/ Fails("PreparationFailed")
    /\ UNCHANGED <<intentVars, playerVars, ui, previous, allocated, known>>

----------------------------------------------------------------------------
(* Staging at the player *)

\* stage_at_player and stage_same_lineage_at_player: the sender registers the
\* intent before it sends the command.
BeginStage ==
    /\ ui = "idle" /\ open.phase = "Prepared" /\ allocated < MaxRequests
    /\ allocated' = allocated + 1
    /\ \E intent \in Intents, same \in BOOLEAN :
          /\ same => known # 0
          /\ payload' = [payload EXCEPT ![allocated'] =
                            [same |-> same, old |-> IF same THEN known ELSE 0,
                             rev |-> 1, intent |-> intent]]
          /\ BeginStagedRegistration(allocated', [rev |-> 1, intent |-> intent])
    /\ previous' = staged
    /\ ui' = "send"
    /\ UNCHANGED <<queue, wake, receiptVars, sessionVars, ownerVars, open, known>>

Room == Len(queue) < QueueCap

Send(op, r) ==
    /\ Room
    /\ queue' = Append(queue, [op |-> op, req |-> r])
    /\ UNCHANGED <<wake, payload, receiptVars, sessionVars, ownerVars>>

SendStage ==
    /\ ui = "send"
    /\ \/ /\ Send("Stage", allocated)
          /\ open' = [open EXCEPT !.phase = "PlayerStaging", !.req = allocated,
                        !.pos = IF payload[allocated].same
                                THEN "WaitingForPlayerReady" ELSE "NotRequired"]
          /\ previous' = NoSlot
          /\ ui' = "idle"
       \/ /\ ~Room
          /\ ui' = "rollback"
          /\ UNCHANGED <<playerVars, open, previous>>
    /\ UNCHANGED <<intentVars, allocated, known>>

RollbackStage ==
    /\ ui = "rollback"
    /\ RollbackStagedRegistration(allocated, previous)
    /\ previous' = NoSlot
    /\ Fails("PlayerRejected")
    /\ ui' = "idle"
    /\ UNCHANGED <<playerVars, allocated, known>>

\* drain_player_staging: the terminal record is looked at first, then one phase.
DrainStagingTerminal ==
    /\ ui = "idle" /\ open.phase = "PlayerStaging"
    /\ terminal[open.req] \notin {"none", "taken"}
    /\ PublishTerminal(open.req, "taken")
    /\ Fails("PlayerFailed")
    /\ UNCHANGED <<intentVars, queue, wake, payload, phases, replies, committed,
                   sessionVars, ownerVars, ui, previous, allocated, known>>

DrainStagingPhase ==
    /\ ui = "idle" /\ open.phase = "PlayerStaging"
    /\ terminal[open.req] \in {"none", "taken"}
    /\ phases[open.req] # << >>
    /\ phases' = [phases EXCEPT ![open.req] = Tail(@)]
    /\ LET phase == Head(phases[open.req])
       IN \/ /\ phase = "ReadyForPosition" /\ open.pos = "WaitingForPlayerReady"
             /\ open' = [open EXCEPT !.pos = "ReadyForPosition"]
          \/ /\ phase = "ReadyToCommit" /\ open.pos = "PreparationDispatched"
             /\ open' = [open EXCEPT !.phase = "ReadyToCommit",
                                     !.pos = "ReadyToCommit"]
          \/ /\ phase = "ReadyToCommit" /\ open.pos = "NotRequired"
             /\ open' = [open EXCEPT !.phase = "ReadyToCommit"]
          \/ /\ <<phase, open.pos>> \notin
                   {<<"ReadyForPosition", "WaitingForPlayerReady">>,
                    <<"ReadyToCommit", "PreparationDispatched">>,
                    <<"ReadyToCommit", "NotRequired">>}
             /\ Fails("UnexpectedPlayerInstallPhase")
    /\ UNCHANGED <<intentVars, queue, wake, payload, terminal, replies, committed,
                   sessionVars, ownerVars, ui, previous, allocated, known>>

\* prepare_same_lineage_position; on a full queue the caller cancels.
PreparePosition ==
    /\ ui = "idle" /\ open.phase = "PlayerStaging" /\ open.pos = "ReadyForPosition"
    /\ Send("Prepare", open.req)
    /\ open' = [open EXCEPT !.pos = "PreparationDispatched"]
    /\ UNCHANGED <<intentVars, ui, previous, allocated, known>>

----------------------------------------------------------------------------
(* Authorization and cancellation *)

\* A full queue leaves either form of the authorization in ReadyToCommit.
Authorize(same, phase) ==
    /\ ui = "idle" /\ open.phase = "ReadyToCommit"
    /\ same = (open.pos = "ReadyToCommit")
    /\ Send("Authorize", open.req)
    /\ open' = [open EXCEPT !.pending = "Authorization", !.phase = phase]
    /\ UNCHANGED <<intentVars, ui, previous, allocated, known>>

\* authorize_ready passes the enqueue barrier at once.
AuthorizeReady == Authorize(FALSE, "Enqueued")

\* authorize_ready_same_lineage waits for the owner's answer.
AuthorizeReadySameLineage == Authorize(TRUE, "DispatchPending")

\* cancel_request_with_dispatch before the player has the request; a failure that
\* was not taken yet becomes a cancellation.
CancelBeforeStaging ==
    /\ ui = "idle" /\ open.phase \in {"Preparing", "Prepared", "Failed"} /\ open.req = 0
    /\ Fails("Cancelled")
    /\ UNCHANGED <<intentVars, playerVars, ui, previous, allocated, known>>

Mut_CancelAtPlayer ==
    /\ ui = "idle" /\ open.req # 0 /\ open.phase # "DispatchPending"
    /\ Send("Cancel", open.req)
    /\ open' = [open EXCEPT !.phase = "DispatchPending", !.pending = "Cancellation"]
    /\ UNCHANGED <<intentVars, ui, previous, allocated, known>>

\* cancel_request_with_dispatch once the player has the request, and no control
\* of it is under way: also of a request that has ended and whose terminal was
\* not taken yet.  On a full queue nothing changes (the lossless form waits for
\* room).
CancelAtPlayer ==
    /\ ui = "idle" /\ open.req # 0
    /\ open.phase \in {"PlayerStaging", "ReadyToCommit", "Installed", "Failed"}
    /\ Send("Cancel", open.req)
    /\ open' = [open EXCEPT !.phase = "DispatchPending", !.pending = "Cancellation"]
    /\ UNCHANGED <<intentVars, ui, previous, allocated, known>>

\* What drain_control makes of a control, its outcome and the terminal record.
ControlResult(control, outcome, record) ==
    CASE control = "Cancellation" /\ outcome = "CancellationAccepted" ->
            IF record = "Cancelled" THEN "Cancelled"
            ELSE "MissingTerminalAfterPlayerControl"
      [] control = "Authorization" /\ outcome = "AuthorizationAccepted" ->
            IF record = "Installed" THEN "Installed"
            ELSE "MissingInstalledAfterPlayerEnqueue"
      [] control = "Authorization" /\ outcome = "AuthorizationRejectedBeforeCommit" ->
            IF record = "Failed" THEN "PlayerFailed"
            ELSE "MissingTerminalAfterPlayerControl"
      [] OTHER -> "UnexpectedAuthorizationOutcome"

TakesCompletion(control, outcome) ==
    \/ control = "Cancellation" /\ outcome = "CancellationAccepted"
    \/ /\ control = "Authorization"
       /\ outcome \in {"AuthorizationAccepted", "AuthorizationRejectedBeforeCommit"}

DrainControl ==
    /\ ui = "idle" /\ open.pending # "none"
    /\ replies[open.req] \notin {"none", "taken"}
    /\ replies' = [replies EXCEPT ![open.req] = "taken"]
    /\ LET outcome == replies[open.req]
           result == ControlResult(open.pending, outcome, terminal[open.req])
       IN /\ terminal' = IF TakesCompletion(open.pending, outcome)
                            /\ terminal[open.req] # "none"
                         THEN [terminal EXCEPT ![open.req] = "taken"]
                         ELSE terminal
          /\ open' = [open EXCEPT
                        !.pending = "none", !.terminal = result,
                        !.phase = IF result = "Installed" THEN "Installed"
                                  ELSE "Failed"]
    /\ UNCHANGED <<intentVars, queue, wake, payload, phases, committed,
                   sessionVars, ownerVars, ui, previous, allocated, known>>

\* take_terminal frees the coordinator for the next request.
TakeTerminal ==
    /\ ui = "idle" /\ open.terminal # "none"
    /\ known' = IF open.terminal = "Installed" THEN open.req ELSE known
    /\ open' = NoOpen
    /\ UNCHANGED <<intentVars, playerVars, ui, previous, allocated>>

----------------------------------------------------------------------------
(* The user's play and pause, stop, and the release of the installed medium *)

\* update_playback_intent: the slot first, then the wake token.
UpdatePlaybackIntent ==
    /\ ui = "idle"
    /\ \E r \in {open.req, known} \ {0}, rev \in Revisions, intent \in Intents,
          wakes \in BOOLEAN :
          /\ SubmitUpdate([req |-> r, rev |-> rev, intent |-> intent], wakes)
          /\ ui' = IF wakes THEN "wake" ELSE "idle"
    /\ UNCHANGED <<playerVars, open, previous, allocated, known>>

\* try_send of the token: a full channel already holds one.
WakeOwner ==
    /\ ui = "wake"
    /\ wake' = TRUE
    /\ ui' = "idle"
    /\ UNCHANGED <<intentVars, queue, payload, receiptVars, sessionVars, ownerVars,
                   open, previous, allocated, known>>

\* try_send(PlayerCommand::Stop)
SendStop ==
    /\ ui = "idle" /\ Send("Stop", 0)
    /\ UNCHANGED <<intentVars, openVars>>

\* release_installed_media
SendRelease ==
    /\ ui = "idle" /\ known # 0 /\ Send("Release", known)
    /\ UNCHANGED <<intentVars, openVars>>

----------------------------------------------------------------------------
(* Specification *)

Init == IntentInit /\ PlayerInit /\ OpenInit

Opening ==
    \/ Start \/ StartPrepared \/ DrainPreparation
    \/ BeginStage \/ SendStage \/ RollbackStage
    \/ DrainStagingTerminal \/ DrainStagingPhase \/ PreparePosition
    \/ AuthorizeReady \/ AuthorizeReadySameLineage
    \/ CancelBeforeStaging \/ CancelAtPlayer \/ DrainControl \/ TakeTerminal

UserStep == UpdatePlaybackIntent \/ WakeOwner \/ SendStop \/ SendRelease

OwnerStep == PlayerStep /\ UNCHANGED openVars

Next == Opening \/ UserStep \/ OwnerStep

Spec == Init /\ [][Next]_vars

\* The owner thread runs; its preflight and its position gate have deadlines.
\* The user interface finishes the call it is in and polls the receipts.
Fairness ==
    /\ WF_vars(OwnerStep)
    /\ SF_vars((PreflightSettles \/ PositionSettles) /\ UNCHANGED openVars)
    /\ WF_vars(SendStage \/ RollbackStage \/ WakeOwner \/ DrainControl)

FairSpec == Spec /\ Fairness

----------------------------------------------------------------------------
(* Properties *)

TypeOK == IntentTypeOK /\ PlayerTypeOK /\ OpenTypeOK

\* The owner never reaches the expect of commit_staged_request: the staged
\* intent of a request is there when its authorization is handled, although
\* every registration takes the one slot before the owner knows of it.
CommitFindsItsIntent == owner # "panicked"

\* AppliedToStaged is a promise ("the revision will enter the commit"): a
\* request that commits does so with every revision accepted for it, also one
\* that came before the owner registered the request.
AcceptedRevisionIsCommitted ==
    \A i \in DOMAIN answers :
        answers[i].outcome = "AppliedToStaged" /\ committed[answers[i].req] # 0
            => committed[answers[i].req] >= answers[i].rev

\* When the owner sleeps and an intent waits for it, a wake token is in the
\* channel or about to be sent: the drain consumes the token before it looks.
NoLostIntentWakeup ==
    owner = "wait" /\ (pending.rev # 0 \/ forCurrent.req # 0)
        => wake \/ ui = "wake"

\* The terminal record of a request is published once and taken once, and no
\* phase follows it.
OneTerminal ==
    [][\A r \in Requests :
          /\ terminal'[r] # terminal[r] =>
                \/ terminal[r] = "none" /\ terminal'[r] # "taken"
                \/ terminal[r] # "none" /\ terminal'[r] = "taken"
          /\ Len(phases'[r]) > Len(phases[r]) => terminal[r] = "none"]_vars

\* The player switches to a medium only while the application waits for the
\* authorization it gave it: no cancelled, failed or given-up request is ever
\* put on the screen, however late the owner handles its commands.
SwitchesOnlyWhileAuthorized ==
    [][current' \notin {current, 0} =>
          /\ current' = open.req /\ open.pending = "Authorization"
          /\ open.terminal = "none"]_vars

\* The receipt of an update that was not answered yet is in the hands of the
\* player owner, or on its way there: no commit, stop or newer update drops it.
NoReceiptIsLost ==
    \A i \in DOMAIN answers :
        answers[i].outcome = "none" => i \in pending.waiters \cup taken.waiters

\* An answer of the owner never arrives before the terminal record it promises,
\* and the phases arrive in the order the coordinator expects.
AnswersFollowRecords ==
    open.terminal \notin {"MissingInstalledAfterPlayerEnqueue",
                          "MissingTerminalAfterPlayerControl",
                          "UnexpectedPlayerInstallPhase"}

\* A dispatched authorization or cancellation is resolved.
DispatchIsResolved == []<>(open.pending = "none")

\* A candidate that waits for its demuxer ends its wait: the owner's deadline
\* wakes it.
CandidateSettles == []<>(active.state \notin {"Accepted", "PositionPreparing"})

\* Every update of the playback intent gets an outcome: the owner is woken for
\* it, and a commit or a stop that comes first answers it too.
UpdatesAreAnswered ==
    \A i \in 1 .. MaxUpdates :
        []<>(i \in DOMAIN answers => answers[i].outcome # "none")

\* The session never goes back to an older revision of the same instance.
RevisionNeverFalls ==
    [][playing'.inst = playing.inst => playing'.rev >= playing.rev]_vars

\* What always holds of opening media: the types, the revision promised for a
\* staged request is in its commit (submit_update), a sleeping owner has the wake
\* of a waiting intent, the receipt of every unanswered update is kept, and no
\* answer overtakes its record (drain_control).
OpenInv ==
    /\ TypeOK
    /\ AcceptedRevisionIsCommitted
    /\ NoLostIntentWakeup
    /\ NoReceiptIsLost
    /\ AnswersFollowRecords

=============================================================================
