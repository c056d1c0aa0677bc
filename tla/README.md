# Verification of fastiplayer's concurrent core

fastiplayer is a desktop media player written as a Rust workspace.  Most of its
crates parse, decode or draw; a few carry the protocols between its threads:
who may touch which position, which command reaches the player and in which
order, which medium and which picture is on the screen, what a crash leaves of a
playlist.  Those protocols are what these TLA+ modules model.  TLC checks them,
liveness included, on small instances; TLAPS proves the safety results about
every modelled component for every instance (section 4).  Where the code breaks
a rule that its own comments state, a run shows it (*Findings*, section 3).

Paths below are relative to `src/crates/`.

## 1. Inventory

| Component | State it keeps | Operations | Interacts with |
|---|---|---|---|
| **media-prefetch** | a window of chunks around a cursor, one seek request, one fetch in flight, one error, under one mutex | `read`, `seek`, `Drop`; the worker's choose, seek, read, publish | an inner `ByteSource` it owns on its own thread; the demuxer that reads |
| **player-core worker: command queue** | a bounded channel, an overflow reserve under a mutex, a wake channel of capacity one | `try_send`, sends with a receipt, lossless sends, `try_receive`, `Drop` of the inbox | every `PlayerCommandSender` (UI, settings, coordinator) and the worker thread |
| **player-core worker: loop and shutdown** | batch counter, wait mode, cancellation channel, terminal state, join handle | the batch, the two waits, `shutdown_before`, `shutdown`, `Drop` | the queue above; the owner of the player |
| **bounded-work-executor** | queue, task slots, cancel flags, worker handles under a mutex | submit, cancel, `try_take`, run, notify, the three shutdowns | app-egui's background jobs |
| **playback intent control** (player-core) | five slots under one mutex: staged, installed, pending update, stale tombstone, apply for the current medium | register, roll back, forget, commit, `submit_update`, take and finish | the sender's thread and the worker's |
| **staged media install** (player-core) | the active candidate and its protocol state, the last ended request, the receipts | stage, preflight, position gate, authorize, cancel, commit, Stop, release | the intent control; the coordinator |
| **media-open coordinator** (app-egui) | the one current request with its phase, its pending control and its terminal | start, prepare, stage, prepare position, authorize, cancel, drain, take terminal | its preparation executor, the player's queue and receipts |
| player-core seek and scrub | the seek or scrub transaction | begin, supersede, land | worker, demuxers |
| **render leases** (player-core, video-present-core, app-egui) | the frames offered to the UI; leases, deferred releases and retired decoders by render generation; the UI's cached picture | publish, clear, take, show, release, seek, stop, install, replace the backend | worker, decoder and UI thread |
| player-core event and snapshot publication | event queues, latest snapshot | publish, drain | worker and UI |
| player-core pipeline and tick | decode and audio queues, clocks | tick | devices |
| **atomic-file-store** | a file, its temporary, its directory | write, sync, rename, sync the directory | the disk |
| **playlist saving** (playlist-state, app-egui) | the newest snapshot, the attempt that is due, the mailbox; the owner's view of them | commit, retry, drain, shut down, set an unreadable file aside | a persistence thread, the disk, the next process |
| **resume position, track memory** (playlist-state, app-egui) | a slot for the newest snapshot, the last report | submit, write, shut down | a writer thread, the disk |
| playlist-core | items, selection, undo | edits | UI |
| settings-core, fastiplayer-settings | the transaction in progress | apply, persist, compensate | player, UI, disk |
| frame-server-core | admitted preview jobs, cached frames | request, evict | preview decoder |
| browser-bridge, pushed-media-source | pairing and session; credit and buffered segments | pair, push, end | browser extension |
| source-core, media-source-open, web-media, demuxers, codecs, audio, rendering, subtitles, services, desktop integration, configuration | data of their own formats | parse, decode, draw, transfer | the outside world |

The hard behaviours are the same in all of them: two or three threads that
share a few slots under short critical sections, with a wake channel beside
them.  What goes wrong there goes wrong between two critical sections:

* something read under a lock and used after it (a fetch for an old position, a
  channel found empty, a staged slot kept for a rollback);
* a wakeup sent before the sleeper sleeps, or consumed before it looks;
* a request and its cancellation, or its deadline, crossing each other;
* shutdown meeting work that has passed the gate but not yet arrived;
* a resource whose owner has been replaced while somebody still holds it (a
  picture of the last decoder);
* a failure or a power loss between two system calls.

`PROJECT.json` lists each hazard at the line where it bites, with the
properties that would catch it.

What makes each modelled component correct:

* *prefetch*: to its reader it is the inner source (`ImplementsByteSource`), and
  no call waits for ever;
* *queue and worker*: accepted commands are not lost and are served in order,
  except in the one window that *Findings* describes, and shutdown ends the
  thread exactly once;
* *executor*: an accepted task is answered, once, whatever shuts down when;
* *saving*: the file is always one whole snapshot, a snapshot reported as durable
  survives a power loss, and the newest one gets there;
* *render leases*: no slot is reused while its picture may be shown, each is
  given back once, and the picture on the screen only moves forward;
* *intent, install, open*: every request has one end; what the user asked last
  is what the player does; only what the application authorized, and has not
  given up, comes on the screen.

## 2. Modules

| Module | Models | Source |
|---|---|---|
| `ByteSource` | what a reader may see of a byte source: a position and the outcome of the last call | the `ByteSource` trait as `media-prefetch/src/source.rs` implements it |
| `Prefetch` | the prefetcher: window, worker, foreground | `media-prefetch/src/*` |
| `PrefetchProofs` | the theorems about `Prefetch` | |
| `CommandQueue` | channel, reserve, wake, senders | `player-core/src/worker/command_queue.rs`, `sender.rs` |
| `PlayerWorker` | extends `CommandQueue` by the loop, its waits, and the owner's shutdown | `runtime_wait.rs`, `runtime_commands.rs`, `terminal.rs`, `handle.rs` |
| `PlayerWorkerProofs` | the theorems about `PlayerWorker` and `CommandQueue` | |
| `BoundedExecutor` | submission, workers, shutdown | `bounded-work-executor/src/lib.rs` |
| `BoundedExecutorProofs` | the theorems about `BoundedExecutor` | |
| `PlaybackIntent` | the five intent slots and every method that changes them | `player-core/src/media_install/playback_intent.rs` |
| `MediaInstall` | extends `PlaybackIntent` by the worker's side of an install | `media_install.rs`, `session/staged_media_install/*`, `worker/runtime_*.rs` |
| `MediaOpen` | extends `MediaInstall` by the application's side | `app-egui/src/media_open/coordinator*` |
| `MediaOpenProofs` | the theorems about `MediaOpen`, with its `MediaInstall` and `PlaybackIntent` | |
| `AtomicFile` | the replacement of a file, with what a power loss may leave | `atomic-file-store/src/lib.rs` |
| `AtomicFileProofs` | what one step of a replacement keeps, for the proofs about its two users | |
| `SaveWorker` | extends `AtomicFile` by the playlist's save thread and its mailbox | `playlist-state/src/worker/*`, `atomic_write.rs` |
| `PlaylistSave` | extends `SaveWorker` by its owner, from start to exit, and by the next process | `app-egui/src/playlist_runtime/*` |
| `SavedState` | what saving promises the user, without threads and temporaries | implemented by `PlaylistSave` |
| `PlaylistSaveProofs` | the theorems about `PlaylistSave`, with its `SaveWorker`, and the refinement of `SavedState` | |
| `ResumeWriter` | extends `AtomicFile` by the writer of the resume position and its owner | `playlist-state/src/resume/*`, `app-egui/src/playlist_runtime/resume_persistence.rs` |
| `ResumeWriterProofs` | the theorems about `ResumeWriter` | |
| `PresentHandoff` | the ordered slot between worker and UI | `player-core/src/render_lease_bridge/ordered_present_handoff.rs` |
| `RenderLeases` | extends `PresentHandoff` by the lease accounting, the publication and the UI's pass | `player-core/src/render_lease_bridge.rs`, `pipeline/*`, `session/*`, `app-egui/src/state/*` |
| `RenderLeasesProofs` | the theorems about `RenderLeases` and `PresentHandoff` | |
| `MC*` | the instances TLC checks | |

`PROJECT.json` maps every definition to its lines.

### Prefetch

A chunk is a record of the position it was read at (`src`) and the offset at
which it ends in the window; the byte at offset *a* is the place in the medium
it was read from, so a byte in the wrong place is visible as a wrong number.
The window (`chunks`, `base`, `cursor`, `eof`, `total`), the seek request, the
active fetch and the error are the fields behind the mutex.  `wpc` is where the
worker is: it chooses under the lock, seeks and reads the inner source without
it, and publishes under it again; between any two of these the foreground may
seek, cancel, or drop the source.  `logical` is `PrefetchingByteSource`'s own idea
of its position, `result` the last outcome it returned.  The inner source is
external: it reads any number of bytes, ends, fails, and observes the
cancellation of its fetch.  Its length and whether it can seek are chosen once,
from `Media`, and never change.

The offset space is `0..MaxOffset` in place of `u64`: the checked additions of
`append_chunk` and of the fetch's range compare against it.

### CommandQueue and PlayerWorker

A command is its number in the order of acceptance and its kind: latest values
(`LatestKinds`, the ones that coalesce), ordered commands, commands with a
receipt, lossless ones, and the owner's terminal request (number 0).  A sender
is idle, past the admission gate, or about to send its wake: the three places
where another thread can come between its steps.  The worker's program counter
follows `try_receive` (channel, reserve, channel again), the end of the batch,
the last look at the cancellation, and the wait, where *select* is the poll of
the ready channels and *asleep* the block.  `OtherWakeup` stands for every
other thing the worker wakes for (releases of the renderer, decoder activity,
the next tick, the intent wake).  A sender of an ordered command may stay for
its reply, as `apply_runtime_settings` does: it waits until the command, and with
it the reply channel, is gone from the queues and from the worker's hands.  When
the worker leaves, the `Drop` of the inbox empties the reserve; the drop of the
channel's receiver (`DropMain`) only disconnects the channel.  What a bounded
crossbeam channel holds then stays until its last sender goes, and the caller
that waits has a sender.  `seen` is a history variable: the newest number
accepted when the worker last found the channel empty.

### BoundedExecutor

Each task has its submission, its cancel flag, its one-shot result slot and the
number of times its notifier ran.  `begin_shutdown` and the removal of the
sender are two steps, as in the code, and the mutex of the handles is held by
`joiner` for as long as that thread joins.  `CallerSets` are the sets of threads
that may shut the executor down in one behaviour; a caller may be a worker (the
`Drop` of the last `Arc` inside a task).

### PlaybackIntent, MediaInstall, MediaOpen

Requests are numbered in the order the coordinator allocates them; the number
is also that of the media instance its commit creates.  Every method of the
intent control is one atomic step, since it runs under one mutex.  The worker
(`owner`) is split wherever the sender's thread can observe an intermediate
state: receipts are published before the staged slot is forgotten, the update
is taken before it is applied, the commit changes the slots before `Installed`
is published, and the control's answer is sent last.  The coordinator is split
in the same way around the player's queue: it registers the slot, sends the
command, and rolls the slot back when the queue is full.  What the planner, the
detached video backend, the demux seek and the preparation compute is a choice
of outcome.

`MediaOpen` allows intent updates with any revision: the application numbers
them from two counters (`stable_intent_revision` and the pending request's
`intent_revision + 1`), so the control cannot rely on increasing numbers.

### AtomicFile, SaveWorker, PlaylistSave, ResumeWriter

A content is the number of the snapshot a file holds, with numbers of their own
for a file cut short, an unreadable one and one of a newer version.  `disk` is
what a reader sees; `survivors` are the directories a power loss may leave.  A
rename adds the new directory to them, a directory sync removes all others, and
a rename of a temporary that was not synced would add a file cut short.  Every
call may fail (`FailStep`): before the rename the target is untouched, after it
only its durability is uncertain.

`work` is `WorkerState` with the thread's program counter; time is reduced to
whether the scheduled attempt is due.  The mailbox is split where the code
releases its lock: the worker publishes the report and then the wake edge; the
owner takes the payload, clears the flag, and looks again.  `owner` holds the
fields of `PlaylistPersistenceOwner` that decide something: the newest, the
retained and the submitted revision, and what the user is shown.  `Restart` ends
the process, or the machine, at any point and starts the next, which reads what
is left.  In the code each process counts its revisions from one; here they go
on counting, so that the number also says which snapshot a file holds (they are
only compared within a process).  `promised` records what a user was told.

`ResumeWriter` has the same file under a simpler thread: one slot, one wake
cell, a shutdown flag.  Which checkpoint is due comes from the player, so any may
come at any time.  The writer of the track memory is the same code.

### PresentHandoff and RenderLeases

A lease is the render generation, the decoder that made the frame, its handle
and its decoded (seek) generation.  `pl` is the pipeline: active decoder, queue,
present frame, `leased_video_textures`, `deferred_video_texture_releases`,
`retired_video_decoders`, and the pool of slots each decoder has in use.  A
lease lives as long as the handoff, the UI's hand or its cache holds it; when the
last of them lets go, its acknowledgement joins the release channel in the same
step (`DropDead`), which is what `Drop` of the last clone does.  The worker's
publication is split as in `publish_session_outputs`: take the acknowledgements
from the release channel one by one, until it is empty; look at the newest
identity, lease and push, or clear; then the snapshot; then the wake.  The UI's
pass is split at its own reads: peek, acquire, show, and the look for a frame
that waits.  The handoff is locked in the worker's states probe, push and clear,
and the UI's `try_lock` fails there (`Busy`).  What the renderer does with a
frame is a choice of five outcomes.

## 3. Runs

| Run | Instance | What it asks |
|---|---|---|
| `prefetch` | a file of 4 bytes, a stream of 3 and a stream of 6, in offsets 0..5; chunks of 1 then 2 bytes, window 3, reads of 1 or 2 | with seeks, errors, cancellations and `Drop` at every point of a fetch: the invariant of the proof, the refinement of `ByteSource`, every read returns, every `Drop` joins |
| `worker_queue` | 2 senders, channel 1, reserve 1, 3 commands, batch 2 | order, bounds, losses and wakeups of the queues while the owner retries its shutdown; every accepted command leaves the queues while the worker lives, shutdown ends the worker |
| `executor` | 2 tasks, 2 workers, queue 1; shut down by 2 other threads, or by worker 1 | every accepted task has its result and its notification; every shutdown call returns |
| `open` | 2 requests, 2 revisions, 1 intent, 1 update, queue 1, batch 1 | receipts, intent and the medium on the screen stay coherent; dispatches resolve, candidates settle, updates are answered |
| `playlist_save` | 2 snapshots, 1 failed call, channel 1, mailbox 2, 2 processes, 1 control | with a crash or a power loss anywhere: nothing promised is lost, the newest snapshot is never dropped and becomes durable, the thread ends; `SavedState` is implemented |
| `resume_writer` | 3 snapshots, 2 failed calls, resuming switched once | accepted checkpoints reach the file or are reported as failed, reports are true, exactly a failed newest checkpoint can be asked for again, the writer ends |
| `render_leases` | 2 decoders of 3 slots, 3 frames, 1 operation, 1 refusal, playing | leases and slots are accounted across generations, the picture moves forward, the newest is shown |
| `worker_order`, `worker_settings`, `open_revision_order`, `resume_newest`, `render_owner` | the smallest that shows it | see *Findings* |

Why the bounds are enough.  The prefetcher's bounds let a window hold several
chunks, evict the first, end inside a chunk, at the end of the medium and, in the
stream that is longer than the offset space, at the largest offset; the safety results are proved for all bounds anyway.  A channel
of one cell and a reserve of one is full, and full behind a coalescible
neighbour, with three commands.  Two tasks and a queue of one make a submission
fail with a full queue and meet both halves of a shutdown.  Two snapshots are
what it takes to coalesce, to have a newer one arrive during the retry of the
older, and to find the channel full; a mailbox of two has its normal slot and the
one kept for shutdown; one failure meets each of the five calls; two processes
are one crash.  The resume writer is small enough for three snapshots and two
failures, so a retry may itself be overtaken.  Three frames fill the handoff and
make it drop the oldest; one operation is one change of generation with leases
outstanding on both sides of it, and a second decoder its successor.  What needs
two changes of generation one after the other (two retired decoders at once) is
beyond this instance: `MaxOperations` is 1, and the proofs cover it.  Two
requests are what it takes to supersede, to keep a previous slot, and to open
over an installed medium; one update meets every slot.  A second update, which
takes the place of the first and its receipt with it, and two intents that
conflict under one revision are beyond `open`, whose million states fill its
time: two updates meet in `open_revision_order`, and `NoReceiptIsLost` is proved
for any number of them.  Counters that would grow for ever are capped in the guards by
the constants of the same name (`MaxCommands`, `MaxRequests`, `MaxRevision`,
`MaxUpdates`, `MaxCalls`, `MaxSnapshots`, `MaxFaults`, `MaxBoots`, `MaxControls`,
`MaxSwitches`, `MaxFrames`, `MaxDecoders`, `MaxOperations`, `MaxRefusals`).

Deadlock is checked where the system has no final rest.  It is not in the
executor (it ends when it is shut down), in `MediaOpen` (the event loop waits for
the user), nor in the two savers (they end with the last process).  `Prefetch`
and `PlayerWorker` have an explicit final stutter, `RenderLeases` a timer, and
they do check it.  No run uses symmetry, which most liveness checks rule out.

### Properties

A module's state invariants are named one by one, and most of them are checked
together, as the conjunction that a proof by induction would start from:

| Invariant | Its parts |
|---|---|
| `IInv` (`Prefetch`) | `TypeOK`, `WindowIsMedium`, `PositionCoherent`, `FetchCoherent`, `LiveFetchExtendsWindow`, `ErrorBelongsToWindow`, `CursorNearWindow`, `EofTruthful`, `CallerCoherent` |
| `WorkerInv` | `TypeOK`, `QueuesInAcceptanceOrder`, `ReserveHoldsItsBound`, `NoLostWakeup`, `OneTerminalRequest`, `ReleaseOnlyAfterExit` |
| `ExecutorInv` | `TypeOK`, `NotifierFollowsResult`, `NothingPendingAfterJoin` |
| `OpenInv` | `TypeOK`, `AcceptedRevisionIsCommitted`, `NoLostIntentWakeup`, `NoReceiptIsLost`, `AnswersFollowRecords` |
| `SaveInv` | `TypeOK`, `NoTornFile`, `PromiseSurvives`, `LatestIsHeld`, `RetrySyncsWhatIsThere`, `NoReportDropped`, `NoLostWake` |
| `ResumeInv` | `TypeOK`, `NoTornFile`, `NoLostWake`, `DurableReportSurvives`, `FailureIsRetryable` |
| `LeaseInv` | `TypeOK`, `ReleasedOnce`, `LeasesAreAccounted`, `SlotsAreAccounted`, `OldLeaseHasItsDecoder`, `RetiredOnlyWhileLeased`, `OneSequence`, `WokenAfterEveryChange` |

Of these only `IInv` is inductive as it stands; section 4 says what the others
need.  What the parts and the other properties say:

*Prefetch.*  `ImplementsByteSource`: each outcome the caller gets is one the
plain source could have given at that position; a read's bytes are the medium's
at the reported position.  `LiveFetchExtendsWindow`: a fetch that may still be
published starts where the window ends.  `PositionCoherent`: the reported
position is the cursor, or the target of the seek not yet taken.
`ErrorBelongsToWindow`, `CursorNearWindow`: an error never outlives a seek, and
a staged cursor is always within reach of the next chunk.
`ReadReturnsEventually`, `DropTerminates`: no wakeup is lost.

*Queue and worker.*  `QueuesInAcceptanceOrder`: all of the channel is older than
all of the reserve.  `OvertakesOnlyInTheWindow` (a theorem, where
`ReceivedInOrder` fails): a command may be served before an older one only if it
came from the reserve, and the older one was accepted after the worker last saw
the channel empty.  `LossOnlyByCoalescing`: a command disappears before the
worker takes it only into its immediate successor of the same latest kind, or
with the reserve in the `Drop` of the inbox.
`ReserveHoldsItsBound`: lossless commands may exceed the reserve, user commands
never.  `NothingLeftBehind`: the reserve of a closed inbox is empty and stays so,
and nothing but the terminal request enters its channel any more, also from a
sender that passed the gate before.  `NoLostWakeup`, `QueuedIsServed`.  `OneTerminalRequest`,
`ReleaseOnlyAfterExit`, `ShutdownCompletes`: retries and `Drop` send one request,
and the handle is joined once or leaked.

The wake channel of the reserve turns out to be redundant for liveness: the
reserve starts to fill only behind a full channel, and a non-empty channel wakes
the worker by itself.  `NoLostWakeup` is still checked as the code's own rule.

*Executor.*  `NotifierFollowsResult`, `NothingPendingAfterJoin`,
`ResultIsNeverLost` (the first answer is the task's own, never the
`ExecutorStopped` of a dropped slot), `AcceptedIsNotified`,
`ShutdownCallReturns`.

*Opening media.*  `OneTerminal`: each request ends once, and no phase follows its
end.  `SwitchesOnlyWhileAuthorized`: the player puts a medium on the screen only
while the coordinator's authorization of it is pending, never one that was
cancelled, failed or given up.  `NoReceiptIsLost`: an unanswered receipt of an
intent update is with the pending or with the taken update, also when a newer
one takes its place.  `AnswersFollowRecords`: no control
answer overtakes the record it promises.  `AcceptedRevisionIsCommitted`: an
update answered `AppliedToStaged` is in the commit.  `CommitFindsItsIntent`: the
`expect` in `commit_staged_request` is never reached.  This one holds only through
the coordinator's rule that one request is open at a time; a second user of the
public sender could stage between the authorization and the commit.
`NoLostIntentWakeup`, `UpdatesAreAnswered`, `DispatchIsResolved`,
`CandidateSettles`.

*Saving.*  `NoTornFile`, `PromiseSurvives`, `DurableReportSurvives`: what a power
loss may leave is a whole file, and not older than what was reported durable.
`SavesAsPromised`: the file moves forward through committed snapshots, except
that a power loss may take back what nobody was promised.  `LatestIsHeld`: the
newest snapshot is at every moment retained by the owner, in the channel or with
the worker.  `RetrySyncsWhatIsThere`: a retry that only syncs the directory
confirms the snapshot that is in the file.  `NoReportDropped`: the mailbox keeps
its last slot for the shutdown's own report.  `NoLostWake` (of both savers): a
payload, or a snapshot in the slot, has its wake on the way.
`ShutdownTellsTheTruth`: a completed shutdown says of the newest snapshot what
is the case.  `UnreadableFileIsKept`: neither the move aside nor a power loss
after it destroys a file the application cannot read.  `FailureIsRetryable`: the
owner forgets the newest position it asked for exactly when it has seen that
position's write fail, so the same position is written when it comes again, and
the failure of an older one resets nothing.
`FileFollowsRevisions`: no older checkpoint replaces a newer one.
`AcceptedIsWrittenOrReported`: unless the writer is stopped, an accepted
checkpoint or a newer one is in the file, or the report says that it is not; the
writer does not try again by itself.  `CommitsBecomeDurable`, `WorkerEnds`,
`StopEndsWriter`.

*Render leases.*  `LeasedFrameIsHeld`: the decoder never gets back the slot of a
picture that the UI, the handoff or an unread acknowledgement still holds.
`ReleasedOnce`: of the five ways back a slot takes one.  `LeasesAreAccounted`,
`SlotsAreAccounted`: the tables are exactly what is outstanding, and each slot in
use has somebody who will release it.  `OldLeaseHasItsDecoder`,
`RetiredOnlyWhileLeased`, `RetiredDecoderIsFreed`: a decoder replaced by an
install stays for its last lease and no longer.  `OneSequence`: no picture of
before a seek waits behind one of after it.  `WokenAfterEveryChange`: the UI
never rests on an old slot or snapshot.  `PictureNeverGoesBack`,
`NewestIsShown`.

Every property of a passing run has a mutant: a `Mut_` definition beside the one
it changes, a plausible slip in that code, under which TLC finds the property
violated.

### Fairness

Threads that are not blocked keep running (weak fairness of a thread's steps);
nothing is assumed of the users.  Beyond that:

* `Prefetch`: the inner source's calls return, by success, failure or their
  cancellation, and a read that waits polls (every 10 ms, `shared.rs`).
* `PlayerWorker`: the handler of a command returns.
* `BoundedExecutor`: the operation of a task ends.
* `MediaOpen`: the preflight and the position gate have absolute deadlines, so
  they settle if the worker services them again and again (strong fairness of
  `PreflightSettles` and `PositionSettles` together); the UI finishes a call it
  has begun and polls its receipts on every frame (weak fairness of its own
  thread, `SendStage` to `DrainControl`).
  The user need not authorize, cancel or take anything.
* `PlaylistSave`: both threads run, and the application drains when it is woken
  or while it has background work (`has_background_work`, which the shell polls).
  File-system calls fail at most `MaxFaults` times, so retries end.
* `ResumeWriter`: both threads run; timeouts may strike at any time.
* `RenderLeases`: the worker finishes a publication and answers an
  acknowledgement; the UI finishes its pass and answers a wake, a redraw request
  and, while playing, its timer (`wants_continuous_redraw`).  Nothing is assumed
  of the decoder, of seeks or of installs.

### Findings

* `worker_order`: `try_receive` looks at the channel without the mutex and pops
  the reserve afterwards.  A sender that fills the empty channel and begins the
  reserve in between has its second command served first.  Rule 3 at the head of
  `command_queue.rs` says that the worker takes from the reserve only when the
  channel is empty, and `sender.rs` that a reserved command reaches the worker in
  the order of sending.  `OvertakingIsBounded` proves how far this goes.
* `worker_settings`: a worker that ends on the terminal cancellation leaves what
  is in the channel.  If that is an `apply_runtime_settings` command, its reply
  channel stays open inside it, and its caller, whose own sender keeps the
  channel, waits for ever; `PlayerRuntimeApplyError::Disconnected` is documented
  as the answer of a worker that has ended.
* `open_revision_order`: `take_pending_installed_update` takes the pending update
  out before it is applied; until `finish_installed_update` an older revision
  is accepted, and then applied after the newer one.
* `resume_newest`: the writer empties its slot and reads the shutdown flag in two
  steps.  A checkpoint submitted in between, followed by the shutdown, stays in
  the slot; the writer leaves, and the shutdown reports `Completed`.  The comment
  on `ResumeWorker::shutdown` says that the newest snapshot is not lost.
* `render_owner`: `reset_media_state` moves the render generation on with a lease
  outstanding and retires no decoder.  When that lease comes back unsubmitted,
  no decoder is found for it, and its slot stays in use in the active decoder's
  pool; the comment on `release_retired_video_frame` says that the frame is
  returned to the decoder that made it.  `SlotsAreAccounted` and
  `OldLeaseHasItsDecoder` say what does hold.

One further place where the code does less than a reader may expect:
`shutdown_and_join_until` takes the mutex of the handles before it looks at its
deadline, and another caller may hold it for as long as a task runs.

Some things the models reach that no text of the repository forbids.  When the
stage command of a request is refused, the rollback can bring back the slot of
the request before it, which the worker has forgotten meanwhile; the next
registration replaces it.  A cancel that crosses the player's own failure is
answered `AlreadyTerminal`, which the coordinator reports as a fatal invariant.
So is a cancel that comes after `Installed` and before the terminal is taken:
`dispatch_cancel` refuses only a request whose authorization is on its way
(`coordinator.rs:290`), and `publish_fatal` then takes the place of the
`Installed` terminal, so the application is told of a fatal invariant while the
medium it opened plays.  `OneTerminal` is about the player's records and holds
through it.
A tombstone of a cleared playlist that fails to be written is written again only
by another checkpoint, and with resuming turned off there is none.  A worker of
the executor whose task shuts it down while another thread joins would wait for
that thread and be waited for; no task of the repository holds its executor.

## 4. Proofs

Every theorem below holds for every value of the constants, the bounds that
keep TLC's instances finite included.  A safety proof has three parts: an
inductive invariant `IInv` at the head of the proof module, a lemma for the
initial state, and one lemma per action or group of actions, with one step per
conjunct the action can disturb.  What a theorem's property says is in the
comment at its definition.  Each `IInv` was checked by TLC on the instance of
its component before it was proved.

| Module | Theorem | States |
|---|---|---|
| `PrefetchProofs` | `PrefetchInvariant` | `Spec => []IInv` |
| | `TypeCorrect` | `Spec => []TypeOK` |
| | `PositionIsCoherent` | `Spec => []PositionCoherent` |
| | `LiveFetchAlwaysExtendsWindow` | `Spec => []LiveFetchExtendsWindow` |
| | `ErrorsAreLocal` | `Spec => []ErrorBelongsToWindow` |
| | `CursorStaysNearWindow` | `Spec => []CursorNearWindow` |
| | `PrefetchImplementsByteSource` | `Spec => ImplementsByteSource` |
| `PlayerWorkerProofs` | `WorkerCorrect` | `Spec => []WorkerInv` |
| | `InboxLeavesNothing` | `Spec => NothingLeftBehind` |
| | `NothingLostButCoalesced` | `Spec => LossOnlyByCoalescing` |
| | `OvertakingIsBounded` | `Spec => OvertakesOnlyInTheWindow` |
| `BoundedExecutorProofs` | `ExecutorCorrect` | `Spec => []ExecutorInv` |
| | `NoResultIsLost` | `Spec => []ResultIsNeverLost` |
| `ResumeWriterProofs` | `ResumeWriterCorrect` | `Spec => []ResumeInv` |
| | `FileOnlyMovesForward` | `Spec => FileFollowsRevisions` |
| `PlaylistSaveProofs` | `SavingIsSafe` | `Spec => []SaveInv` |
| | `ShutdownIsTruthful` | `Spec => []ShutdownTellsTheTruth` |
| | `UnreadableFilesSurvive` | `Spec => UnreadableFileIsKept` |
| | `SavingImplementsPromise` | `Spec => SavesAsPromised` |
| `MediaOpenProofs` | `OpeningIsSafe` | `Spec => []OpenInv` |
| | `CommitNeverPanics` | `Spec => []CommitFindsItsIntent` |
| | `OnlyAuthorizedIsShown` | `Spec => SwitchesOnlyWhileAuthorized` |
| | `OneTerminalPerRequest` | `Spec => OneTerminal` |
| `RenderLeasesProofs` | `LeasesAreSafe` | `Spec => []LeaseInv` |
| | `LeasedFramesAreHeld` | `Spec => []LeasedFrameIsHeld` |
| | `PictureMovesForward` | `Spec => PictureNeverGoesBack` |
| | `ChannelNeverFills` | `Spec => []ChannelHasRoom` |

Each module other than `PrefetchProofs` calls `Spec => []IInv` its theorem
`Invariance`.

### Assumptions

Each is an `ASSUME` of the module that declares the constants, which TLC
evaluates on its instance.

* `Prefetch`: what `PrefetchConfig::new` checks (`ConfigAssumption`: the sizes
  are positive and ordered); each medium has a length and either seeks or does
  not, and the start is in the offset space (`SourceAssumption`).
* `CommandQueue`, `PlayerWorker`: finitely many senders, a channel, a reserve
  and a batch that are not empty, and kinds of commands that do not overlap
  (they are variants of one enum).
* `BoundedExecutor`: what its constructor checks, a positive queue and at least
  one worker; `"none"` is the name of no task and no caller.
* `AtomicFile`, `ResumeWriter`, `PlaylistSave`, `SaveWorker`: at least one
  snapshot and one process; a command channel of one cell or more and an event
  channel of two or more, as the code's constants are; `"unset"` is no position.
* `PlaybackIntent`, `MediaInstall`: the intents are some of the code's two and
  contain `StartPaused`; one revision at least; a queue and a batch that are not
  empty.
* `RenderLeases`: the bounds are natural numbers, with one decoder and one slot
  at least (`RenderLeasesAssumption`); `NoLease`, which stands for `None`, is
  neither a lease nor a frame (`NoLeaseAssumption`).

### Prefetch

The refinement needs that the bytes copied by a read are the
medium's at `logical`.  That needs `WindowIsMedium` (each chunk was read at the
offset where it stands) and `PositionCoherent` (the cursor is `logical` when
bytes may be copied).  `WindowIsMedium` survives a publication only if the fetch
in flight starts at the window's end, `LiveFetchExtendsWindow`, which in turn
survives the foreground's seeks because those that move the window raise a
request or cancel the fetch, after which it is no longer live (`FetchIsStale`).
`FetchCoherent` ties the worker's private position to the fetch it has begun;
`EofTruthful` makes the end of the window the end of the medium or of the offset
space, for the refinement of end-of-file; `CallerCoherent` relates the caller's
state to the pending read.  None of these is inductive alone: their conjunction
with `TypeOK`, `ErrorBelongsToWindow` and `CursorNearWindow` is `IInv`.  The
proof has lemmas about the chunk operators (what eviction and appending keep).
The refinement then maps a copying read to `Deliver`, a seek to `Seek`, and every
step of the worker to a stutter.

### The player's worker

`Ordered` carries the order: channel and reserve are sorted by acceptance, the
channel's commands are older than the reserve's, and the newest is at the
reserve's end.  From it follows what a coalescing insertion may remove: the last
cell, when it holds a latest value of the same kind (`LossOnlyByCoalescing`).
`WorkerOK` says what the worker has in its hands at each program counter, and
that between its two looks, into the channel and into the reserve, the channel
holds only commands accepted after the first look; that is the whole window of
`OvertakesOnlyInTheWindow`.  `NoLostWakeup` is inductive with the types alone: a
sender that fills the reserve is at its wake when it leaves the lock.
`NothingLeftBehind` needs that a sender checks `inboxClosed` under the lock: its
state part, `ClosedInboxIsEmpty`, is in the invariant, and its action part, that
nothing enters the channel of a closed inbox, is read off each insertion.
`RequestOK` is why the terminal request is sent once (`OneTerminalRequest`): the
owner leaves `Running` with it and no retry returns.  `OwnerOK` ties a completed
shutdown to the end of the thread.  `WithinBound` is the bound of the model, and
a lemma of its own shows that it and the bound of the reserve are kept by every
insertion.

### The executor

`TasksHavePlaces` says that an accepted task is in exactly one place: the
channel, one worker, or answered and notified.  `WorkersHoldTasks` says when a
worker holds one.  `ExitIsLast` (a worker that left found the channel closed and
empty) and `HandlesAccounted` (once the handles were taken, each worker is
detached, ended, or still to be joined by the holder of the mutex) give that a
completed shutdown leaves nothing pending.

### The two files

`AtomicFileProofs` states once what a step of a replacement does: it keeps the
order write, sync, rename, sync of the directory; only the rename changes the
file, and puts the whole snapshot there; no step leaves a file cut short.

For the resume position, `RevisionsInOrder` orders the numbers the threads hold:
reported < taken < pending = accepted, with the owner one behind only between
its submission and its wake.  `WriterOwnsFile` and `FileHoldsRevisions` say
that only the taken revision reaches the file, and that no power loss leaves a
newer one than the report allows; hence `FileOnlyMovesForward`.
`DurableReportSurvives` is inductive only with them, and `NoLostWake` only as
`WakeIsComing`, which covers the writer's look at the flag too.
`FailureIsRetryable` rests on `SeenFailureIsForgotten`, which says for each
revision what the owner has seen of it.

For the playlist, `RevisionsOK`, `LatestIsHeld` and `AckOK` say where the newest
committed snapshot is (with the owner, in the channel, with the worker, or in
the file) and what a shutdown is told of it.  `AttemptOK`, `RetrySyncsWhatIsThere` and `DurableClaims` tie a
report of durability to what the directory would be after a power loss;
`StagesOK` relates the stages of start and shutdown on both threads; `RoomOK`
keeps the last cell of the events for the attempt of a shutdown; `WakeOK` and `NoLostWake` follow the wake.  The refinement maps
`PublishCommitted` to `Commit`, the rename to `Save`, the owner's receipt of a
report to `Promise` and a power loss to `Lose`; every other step is a stutter.

### Opening media

The invariant follows each request and each control through its life.
`PlaceOK`: a request with no terminal record is in exactly one place (the
command stream, the worker's registration, the candidate, or the medium being
installed).  `ControlOK`: a cancel, a commit or an update is in the stream, with
the worker, or answered, and its answer agrees with the record of its request.
`StreamOK`: each command of an install is in the stream at most once, and the
stage before its control.  `CoordinatorOK`, `CandidateOK` and
`UnsentIsFresh` tie the coordinator's and the worker's state to these places;
together they are `LifeOK`.  `RevisionsOK` says that an intent slot holds every
revision promised to a waiter, so `AcceptedRevisionIsCommitted` survives the
commit; `WakeOK` is the wake channel's part.  `OneTerminal` needs all of
`LifeOK`: a second record could only come from a second place.
`SwitchesOnlyWhileAuthorized` needs `ControlOK` and `CandidateOK`: a commit
finds its authorization unanswered, so the coordinator still waits for it.
`NoReceiptIsLost` is inductive with `ReceiptsOK`, which says that the worker has
no taken update left when it takes the next: each method of the intent control
that replaces an update takes the waiters along or answers them.

The invariant also shows code that this coordinator never runs.  With one
request at a time, the candidate is never superseded by a registration, a stage
command is never older than the latest registration, and a commit never finds
its candidate not ready.

### The render leases

A lease is followed as a token (generation, decoder, handle) from its
registration to the receipt of its acknowledgement.  `Held` are the tokens of the
live leases, of the acknowledgements in the channel, and of the lease registered
but not yet published.  `PlacesOK` says that a token is in one of these places
and there once, so a drop moves it (`DropsKeep`) and only a receipt removes it
(`HeldTail`).  The lemmas about the pipeline are then about one set of tokens *H*:
`Exact(p, H)` says that the tables of the pipeline *p* account for exactly *H*.
Giving up any frames keeps it (`GiveUp`), so does a new generation
(`AdvanceKeeps`, with `InstallKeeps` for the retired decoder); registering the
present frame adds its token (`RegisterKeeps`), and `record_release` takes away
the token of its acknowledgement, whichever way the slot goes back
(`RecordReleaseSettles`, `SettledKeeps`).  Each of these lemmas is for any
pipeline and any *H*, so that the steps of the worker and of the UI only say
which one they use.

`LeasesAreAccounted` is `TableOK` for `Held`; `LeasedFrameIsHeld` is `HeldOK`;
that no slot is released twice needs `TokensOK` (a slot has one token) and
`DeferOK` (a deferred frame is owned by nobody else), and `SlotsAreAccounted`
needs `OwnOK` too.  After the worker has ended only what the UI may still do is
kept, since the provider takes the slots from then on.

`StageOK` and `WakeOK` say what the publication has reached: between two
publications the newest frame in the handoff is the present one, a frame that is
leased already is the one published last, and a publication that does not wake
leaves snapshot and slot as the UI has seen them.  `BehindOK` (no live picture is
ahead of the queue or of the present frame) and `ShownOK` (screen, hand, taken and
untaken frames are in order) give `PictureNeverGoesBack` and `OneSequence`.

`RoomOK` counts: five pictures at most are alive (two untaken, one taken, one in
hand, one cached), one more is published between two drains, and an
acknowledgement in the channel was one of them.  So at most six of the channel's
512 cells are in use, and the fallback of `Drop` for a full channel never runs
while the worker lives.

### Only model-checked

* Liveness, everywhere: the prover does not do fairness or `ENABLED`.
* The properties of the runs that expect a violation, which are false.

## 5. Not modelled

* Of modelled components: diagnostics and counters; how a half-failed start of
  the executor undoes itself; the handlers of player commands other than those
  of the media install; the compatibility install (`LoadPreparedMedia`);
  restoring the state of an installed medium; in the coordinator, coalescing of
  equal starts, the blocking `wait_for_progress`, and the shell's suspend
  and shutdown.
* Of saving: the schema of the files and their migration; temporaries left by
  ended processes (they have names of their own and are never read); panics of
  the threads, poisoned locks, and a wake port that fails.
* Of the render leases: the override picture of a scrub; the hold of a backend
  swap; reports of render errors; pauses (`Playing` is TRUE in the run: without
  the UI's timer a `try_lock` lost to a publication that changes nothing is
  answered by the next interface event only, `present_frame_cache.rs:308`).  The
  fallback for a full release channel is modelled, and never runs
  (`ChannelNeverFills`).  The channel between decoder
  and player is folded into the queue, the source label into the generation, and
  the two locked sections of a clear into one.  Whether a slot goes back through
  the decoder or its resource provider is not told apart: it is the same slot.
* Parsers, codecs, audio processing, rendering and subtitles: sequential,
  numeric, over unbounded data.
* Network, files, D-Bus, external processes: input and output.
* Third-party code (`winit-patch`, `cros-codecs-patch`).

The note of each component in `PROJECT.json` says the same part by part.

## 6. Plan

In order of what a failure would cost its user:

1. done: `Prefetch` with its proofs, `CommandQueue` and `PlayerWorker`,
   `BoundedExecutor`, `PlaybackIntent`, `MediaInstall` and `MediaOpen`;
2. done: `AtomicFile`, `SaveWorker`, `PlaylistSave` over `SavedState`,
   `ResumeWriter`;
3. done: `PresentHandoff` and `RenderLeases`;
4. done: the proofs of section 4;
5. the settings transaction: apply, persist, compensation in reverse order;
6. `frame-server-core` admission and eviction; `pushed-media-source` credit;
   `browser-bridge` sessions;
7. seek and scrub transactions, the queues of the event stream, then the
   lifecycle of the shell (suspend, shutdown, `wait_for_outcome`) over
   `MediaOpen` and `PlayerWorker`, and the compatibility install.

The components of 5 to 7 are sequential or have one lock; those before them carry
the interleavings that tests hardly reach, which is why they come first.

## 7. Running

    tlc -workers 2 -config MCPrefetch.cfg MCPrefetch
    tlapm PrefetchProofs.tla

and likewise for the other pairs named under `runs` in `PROJECT.json` and the
other modules named `*Proofs`.  `MediaOpenProofs`, `PlaylistSaveProofs` and
`RenderLeasesProofs` take some minutes each.
