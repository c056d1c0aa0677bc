---------------------------- MODULE PlayerWorker ----------------------------
(***************************************************************************)
(* The player worker around its command queue: the loop of the worker       *)
(* thread (worker/runtime_wait.rs), and the owner that ends it              *)
(* (worker/terminal.rs: shutdown_before, shutdown, Drop).                   *)
(*                                                                         *)
(* What the worker does with a command is left to its delivery: it ends     *)
(* the loop when it is Shutdown, and may panic.  The wakeups that carry no  *)
(* command (playback intent, decoder, timeline, render release, deadline)   *)
(* are one event of the environment.                                        *)
(***************************************************************************)
EXTENDS CommandQueue

CONSTANT MaxBatch   \* MAX_COMMANDS_PER_LOOP

ASSUME BatchAssumption == MaxBatch \in Nat \ {0}

VARIABLES
    worker,     \* program counter of the worker thread
    batch,      \* processed_commands of the current batch
    mode,       \* who called try_receive or select: the batch, or a wait
    current,    \* the command the worker has taken, {} when it has none
    seen,       \* history: `accepted` when recvMain found the main channel empty
    cancel,     \* is a token in the capacity-one shutdown channel?
    terminal,   \* PlayerWorkerTerminalState, without the request outcome
    owner,      \* program counter of the thread that owns the PlayerWorker
    call,       \* which of its operations the owner is running
    handle      \* join_handle: held, joined, or leaked until process exit

workerVars == <<worker, batch, mode, current, seen>>
ownerVars == <<terminal, owner, call, handle>>
vars == <<queueVars, workerVars, cancel, ownerVars>>

WorkerPC ==
    {"turn", "recvMain", "recvReserve", "recvAgain", "handle", "plan",
     "cancelCheck", "select", "asleep", "closeInbox", "dropMain",
     "dropCancel", "exit", "finished"}

Init ==
    /\ QueueInit
    /\ worker = "turn"
    /\ batch = 0
    /\ mode = "batch"
    /\ current = {}
    /\ seen = 0
    /\ cancel = FALSE
    /\ terminal = "Running"
    /\ owner = "idle"
    /\ call = "none"
    /\ handle = "held"

TypeOK ==
    /\ QueueTypeOK
    /\ worker \in WorkerPC
    /\ batch \in 0 .. MaxBatch
    /\ mode \in {"batch", "timed", "idle"}
    /\ current \in SUBSET Command /\ Cardinality(current) <= 1
    /\ seen \in 0 .. MaxCommands
    /\ cancel \in BOOLEAN
    /\ terminal \in {"Running", "ShutdownRequested", "TimedOut", "Completed"}
    /\ owner \in {"idle", "sendCommand", "sendCancel", "poll", "join", "gone"}
    /\ call \in {"none", "shutdown_before", "shutdown", "drop"}
    /\ handle \in {"held", "joined", "leaked"}

-----------------------------------------------------------------------------
(* The worker thread.                                                      *)

Goto(pc) == worker' = pc

\* The PlayerWorker and every sender clone are dropped: main_rx and
\* shutdown_rx report Disconnected once they are empty.
SendersGone == owner = "gone" /\ \A s \in Senders : senders[s].pc = "dropped"

\* The worker takes a command, from a queue that the caller has popped.
Take(command) ==
    /\ current' = {command}
    /\ Goto("handle")

\* run: a pending cancellation ends the loop before the next batch.
Turn ==
    /\ worker = "turn"
    /\ \/ cancel /\ cancel' = FALSE /\ Goto("closeInbox")
       \/ ~cancel /\ UNCHANGED cancel /\ Goto("recvMain")
    /\ batch' = 0
    /\ mode' = "batch"
    /\ UNCHANGED <<current, seen, queueVars, ownerVars>>

\* try_receive, first look at the main channel.
ReceiveMain ==
    /\ worker = "recvMain"
    /\ \/ /\ main # <<>>
          /\ PopMain
          /\ Take(Head(main))
          /\ UNCHANGED seen
       \/ /\ main = <<>>
          /\ seen' = accepted
          /\ Goto("recvReserve")
          /\ UNCHANGED <<main, reserve, current>>
    /\ UNCHANGED <<wake, inboxClosed, mainGone, admissionClosed, senders,
                   accepted, batch, mode, cancel, ownerVars>>

\* try_receive, the reserve under its mutex.
ReceiveReserve ==
    /\ worker = "recvReserve"
    /\ \/ /\ reserve # <<>>
          /\ PopReserve
          /\ Take(Head(reserve))
       \/ /\ reserve = <<>>
          /\ Goto("recvAgain")
          /\ UNCHANGED <<main, reserve, current>>
    /\ seen' = 0
    /\ UNCHANGED <<wake, inboxClosed, mainGone, admissionClosed, senders,
                   accepted, batch, mode, cancel, ownerVars>>

\* try_receive, second look at the main channel.  Nothing there ends the
\* batch, or lets a timed wait go on; a disconnected channel is a Shutdown.
ReceiveMainAgain ==
    /\ worker = "recvAgain"
    /\ \/ /\ main # <<>>
          /\ PopMain
          /\ Take(Head(main))
       \/ /\ main = <<>> /\ SendersGone
          /\ Take(TerminalShutdown)
          /\ UNCHANGED <<main, reserve>>
       \/ /\ main = <<>> /\ ~SendersGone
          /\ Goto(IF mode = "batch" THEN "plan" ELSE "cancelCheck")
          /\ UNCHANGED <<main, reserve, current>>
    /\ UNCHANGED <<wake, inboxClosed, mainGone, admissionClosed, senders,
                   accepted, batch, mode, seen, cancel, ownerVars>>

\* A full batch waits like any other instead of going round the loop.
Mut_Handle ==
    /\ worker = "handle"
    /\ current' = {}
    /\ \/ /\ \E c \in current : c.kind = "Shutdown"
          /\ Goto("closeInbox")
          /\ UNCHANGED batch
       \/ /\ \A c \in current : c.kind # "Shutdown"
          /\ batch' = IF mode = "batch" THEN batch + 1 ELSE batch
          /\ Goto(IF mode # "batch" THEN "turn"
                  ELSE IF batch' < MaxBatch THEN "recvMain" ELSE "plan")
    /\ UNCHANGED <<mode, seen, queueVars, cancel, ownerVars>>

\* handle_worker_command, then the next command of the batch, the next turn of
\* the loop, or the end of it.  A panic unwinds into the same Drops.
Handle ==
    /\ worker = "handle"
    /\ current' = {}
    /\ \/ /\ \E c \in current : c.kind = "Shutdown"
          /\ Goto("closeInbox")
          /\ UNCHANGED batch
       \/ /\ \A c \in current : c.kind # "Shutdown"
          /\ batch' = IF mode = "batch" THEN batch + 1 ELSE batch
          /\ Goto(IF mode = "batch" /\ batch' < MaxBatch THEN "recvMain"
                                                         ELSE "turn")
       \/ Goto("closeInbox") /\ UNCHANGED batch                  \* panic
    /\ UNCHANGED <<mode, seen, queueVars, cancel, ownerVars>>

\* wait_for_worker_wakeup: a deadline already due runs its tick at once, a
\* later one is waited for with a timeout, and without one the wait is open.
PlanWait ==
    /\ worker = "plan"
    /\ \/ Goto("turn") /\ UNCHANGED mode
       \/ Goto("recvMain") /\ mode' = "timed"
       \/ Goto("select") /\ mode' = "idle"
    /\ batch' = 0
    /\ UNCHANGED <<current, seen, queueVars, cancel, ownerVars>>

\* handle_ready_command_or_shutdown_before_select, after its try_receive.
CancelCheck ==
    /\ worker = "cancelCheck"
    /\ \/ cancel /\ cancel' = FALSE /\ Goto("closeInbox")
       \/ ~cancel /\ UNCHANGED cancel /\ Goto("select")
    /\ UNCHANGED <<batch, mode, current, seen, queueVars, ownerVars>>

\* The arms of select_biased!.
MainReady == main # <<>> \/ SendersGone
Waiting == worker \in {"select", "asleep"}

\* Arms are tried in order on entry; a sleeping worker is woken by whichever
\* channel becomes ready first.
Before(ready) == worker = "asleep" \/ ~ready

SelectMain ==
    /\ Waiting
    /\ \/ main # <<>> /\ PopMain /\ Take(Head(main))
       \/ /\ main = <<>> /\ SendersGone
          /\ Goto("closeInbox")
          /\ UNCHANGED <<main, reserve, current>>
    /\ UNCHANGED <<wake, inboxClosed, mainGone, admissionClosed, senders,
                   accepted, batch, mode, seen, cancel, ownerVars>>

SelectWake ==
    /\ Waiting
    /\ Before(MainReady)
    /\ wake
    /\ wake' = FALSE
    /\ Goto("turn")
    /\ UNCHANGED <<main, reserve, inboxClosed, mainGone, admissionClosed,
                   senders, accepted, batch, mode, current, seen, cancel,
                   ownerVars>>

SelectCancel ==
    /\ Waiting
    /\ Before(MainReady \/ wake)
    /\ cancel
    /\ cancel' = FALSE
    /\ Goto("closeInbox")
    /\ UNCHANGED <<batch, mode, current, seen, queueVars, ownerVars>>

\* A wakeup without a command, or the deadline.  In a timed wait some of them
\* (a render release, a decoder pulse without news) go on waiting.
OtherWakeup ==
    /\ Waiting
    /\ Goto("turn") \/ (mode = "timed" /\ Goto("recvMain"))
    /\ UNCHANGED <<batch, mode, current, seen, queueVars, cancel, ownerVars>>

FallAsleep ==
    /\ worker = "select"
    /\ ~MainReady /\ ~wake /\ ~cancel
    /\ Goto("asleep")
    /\ UNCHANGED <<batch, mode, current, seen, queueVars, cancel, ownerVars>>

\* The fields of PlayerWorkerRuntime are dropped one after the other.
DropRuntime ==
    /\ \/ worker = "closeInbox" /\ CloseInbox /\ Goto("dropMain")
       \/ worker = "dropMain" /\ DropMain /\ Goto("dropCancel")
       \/ worker = "dropCancel" /\ UNCHANGED queueVars /\ Goto("exit")
       \/ worker = "exit" /\ UNCHANGED queueVars /\ Goto("finished")
    /\ UNCHANGED <<batch, mode, current, seen, cancel, ownerVars>>

WorkerStep ==
    \/ Turn \/ ReceiveMain \/ ReceiveReserve \/ ReceiveMainAgain \/ Handle
    \/ PlanWait \/ CancelCheck \/ SelectMain \/ SelectWake \/ SelectCancel
    \/ FallAsleep \/ DropRuntime

-----------------------------------------------------------------------------
(* The owner of the PlayerWorker.                                          *)

Finished == worker = "finished"

\* The operations of the owner, after their early returns: a completed worker
\* and one whose handle is gone answer at once.
OwnerCalls(operation) ==
    /\ owner = "idle"
    /\ operation \in {"shutdown_before", "shutdown"} =>
          terminal # "Completed" /\ handle = "held"
    /\ operation = "drop" => terminal \in {"Running", "ShutdownRequested"}
    /\ call' = operation
    /\ UNCHANGED <<terminal, handle, cancel, workerVars>>
    /\ \/ /\ terminal = "Running"       \* begin_terminal_shutdown
          /\ admissionClosed' = TRUE
          /\ owner' = "sendCommand"
          /\ UNCHANGED <<main, reserve, wake, inboxClosed, mainGone, senders,
                         accepted>>
       \/ /\ terminal # "Running"       \* the request was sent before
          /\ owner' = IF operation = "shutdown_before" THEN "poll" ELSE "join"
          /\ UNCHANGED queueVars

\* try_send_bypassing_reserve: without the mutex, past the reserve.
SendTerminalCommand ==
    /\ owner = "sendCommand"
    /\ main' = IF mainGone \/ Len(main) >= MainCap
               THEN main
               ELSE Append(main, TerminalShutdown)
    /\ owner' = "sendCancel"
    /\ UNCHANGED <<reserve, wake, inboxClosed, mainGone, admissionClosed,
                   senders, accepted, workerVars, cancel, terminal, call,
                   handle>>

\* The shutdown that trusts the command alone.
Mut_SendTerminalCancel ==
    /\ owner = "sendCancel"
    /\ terminal' = "ShutdownRequested"
    /\ owner' = IF call = "shutdown_before" THEN "poll" ELSE "join"
    /\ UNCHANGED <<queueVars, workerVars, cancel, call, handle>>

\* shutdown_tx.try_send: the second, independent way to the worker.
SendTerminalCancel ==
    /\ owner = "sendCancel"
    /\ cancel' = (cancel \/ worker \notin {"exit", "finished"})
    /\ terminal' = "ShutdownRequested"
    /\ owner' = IF call = "shutdown_before" THEN "poll" ELSE "join"
    /\ UNCHANGED <<queueVars, workerVars, call, handle>>

\* Where the owner's thread is once an operation returns.
OwnerReturns ==
    /\ owner' = IF call = "drop" THEN "gone" ELSE "idle"
    /\ call' = "none"

\* join_finished_thread, and the blocking join of shutdown().
JoinThread ==
    /\ owner \in {"poll", "join"}
    /\ Finished
    /\ handle' = "joined"
    /\ terminal' = "Completed"
    /\ OwnerReturns
    /\ UNCHANGED <<queueVars, workerVars, cancel>>

\* shutdown_before at its deadline: the handle stays with the owner.
DeadlinePasses ==
    /\ owner = "poll"
    /\ ~Finished
    /\ terminal' = "TimedOut"
    /\ OwnerReturns
    /\ UNCHANGED <<queueVars, workerVars, cancel, handle>>

\* Drop after a timeout, or after the worker was joined.
DropOwner ==
    /\ owner = "idle"
    /\ terminal \in {"TimedOut", "Completed"}
    /\ owner' = "gone"
    /\ \/ /\ terminal = "TimedOut" /\ Finished
          /\ handle' = "joined" /\ terminal' = "Completed"
       \/ /\ terminal = "TimedOut" /\ ~Finished
          /\ handle' = "leaked" /\ UNCHANGED terminal
       \/ terminal = "Completed" /\ UNCHANGED <<handle, terminal>>
    /\ UNCHANGED <<queueVars, workerVars, cancel, call>>

-----------------------------------------------------------------------------
\* A sender clone is dropped.  Only the last moments of the worker notice; what
\* a disconnected channel still holds goes with the last one, unseen.
DropSender(s) ==
    /\ owner = "gone"
    /\ senders[s].pc = "idle"
    /\ senders' = [senders EXCEPT ![s] = [pc |-> "dropped"]]
    /\ UNCHANGED <<main, reserve, wake, inboxClosed, mainGone,
                   admissionClosed, accepted, workerVars, cancel, ownerVars>>

AdmitCommand(s) ==
    /\ \E kind \in Kinds : Admit(s, kind)
    /\ UNCHANGED <<workerVars, cancel, ownerVars>>

\* The reply has come, or the command has been dropped with its reply channel by
\* the worker's panic.  One that still lies in the main channel holds it open.
ReceiveReply(s) ==
    /\ senders[s].pc = "reply"
    /\ \A c \in Queued \cup current : c.id # senders[s].id
    /\ SenderReturns(s)
    /\ UNCHANGED <<main, reserve, wake, inboxClosed, mainGone, admissionClosed,
                   accepted>>

SenderRuns(s) ==
    /\ SenderStep(s) \/ ReceiveReply(s)
    /\ UNCHANGED <<workerVars, cancel, ownerVars>>

\* The process has nothing left to do.  Whether a sender can still wait for a
\* reply then is for SettingsCallReturns to say.
Done ==
    /\ Finished
    /\ owner = "gone"
    /\ \A s \in Senders : senders[s].pc \in {"dropped", "reply"}
    /\ UNCHANGED vars

Next ==
    \/ \E s \in Senders : AdmitCommand(s) \/ SenderRuns(s) \/ DropSender(s)
    \/ WorkerStep
    \/ OtherWakeup
    \/ \E operation \in {"shutdown_before", "shutdown", "drop"} :
          OwnerCalls(operation)
    \/ SendTerminalCommand \/ SendTerminalCancel
    \/ JoinThread \/ DeadlinePasses \/ DropOwner
    \/ Done

Spec == Init /\ [][Next]_vars

\* Threads that are not blocked keep running: the worker, a sender in the
\* middle of a call, and an owner in the middle of one.
FairSpec ==
    /\ Spec
    /\ WF_vars(WorkerStep)
    /\ \A s \in Senders : WF_vars(SenderRuns(s))
    /\ WF_vars(SendTerminalCommand \/ SendTerminalCancel)

-----------------------------------------------------------------------------
(* What the worker promises.                                               *)

\* The worker never sleeps on a filled reserve for good: once it has looked
\* into the reserve and found nothing, a command put there has a wake in the
\* channel or a sender about to send one (wake_worker runs after the mutex is
\* released, and its token may be an old one).
NoLostWakeup ==
    /\ worker \in {"recvAgain", "plan", "cancelCheck", "select", "asleep"}
    /\ reserve # <<>>
    => wake \/ \E s \in Senders : senders[s].pc = "wake"

\* A terminal request is sent once, however often the owner retries after a
\* timeout: never two of them in the worker's hands and its channel.
OneTerminalRequest ==
    /\ \A i, j \in DOMAIN main : main[i].id = 0 /\ main[j].id = 0 => i = j
    /\ (\E c \in current : c.id = 0) => \A i \in DOMAIN main : main[i].id # 0

\* The owner reports the worker completed, which frees what the process keeps
\* alive for it, only when its thread has ended; the handle of a thread that
\* has not is leaked, never lost.
ReleaseOnlyAfterExit ==
    /\ terminal = "Completed" => Finished /\ handle = "joined"
    /\ owner = "gone" /\ ~Finished => handle = "leaked"

\* The command the worker takes in this step, if it takes one.
Taken == current' \ current

\* An accepted command leaves the queues only in the worker's hands, out of the
\* reserve in the Drop of the inbox, or because the command accepted right
\* after it is a latest value of the same kind and takes its cell
\* (push_into_reserve).
LossOnlyByCoalescing ==
    [][\A c \in Queued :
          \/ c \in Queued' \cup Taken
          \/ worker = "closeInbox" /\ c \in Range(reserve)
          \/ /\ c.id = accepted /\ accepted' = accepted + 1
             /\ c.kind \in LatestKinds
             /\ \E d \in Range(reserve') :
                   d.id = accepted' /\ d.kind = c.kind]_vars

\* Commands reach the worker in the order in which the queue accepted them, the
\* terminal Shutdown excepted: what the rules at the top of command_queue.rs and
\* try_send in sender.rs say.  It does not hold of try_receive, which looks at
\* the main channel before it has the reserve's mutex: in between the channel
\* may be filled and the reserve begun.
ReceivedInOrder ==
    [][\A c \in Taken : \A older \in Queued' : ~(0 < older.id /\ older.id < c.id)]_vars

\* How far that goes: a command overtakes an older one only when it comes from
\* the reserve, and only one that was accepted after the worker last found the
\* main channel empty.  What was waiting then is served first.
OvertakesOnlyInTheWindow ==
    [][\A c \in Taken : \A older \in Queued' :
          0 < older.id /\ older.id < c.id
             => c \in Range(reserve) /\ older.id > seen]_vars

\* As long as the worker lives every accepted command is served or replaced:
\* none stays in a queue for ever.  (At most MaxCommands are accepted, so one
\* that stayed would keep its queue from ever being empty again.)
QueuedIsServed == []<>(mainGone \/ \A c \in Queued : c.id = 0)

\* Once the owner has closed the admission the worker ends, with a full
\* command channel, senders past the gate and a sleeping worker alike.
ShutdownCompletes == admissionClosed ~> Finished

\* A caller of apply_runtime_settings is never left waiting for its reply: a
\* worker that has ended is an error of the call (PlayerRuntimeApplyError).  It
\* does not hold: a command that the worker leaves in the main channel keeps its
\* reply channel open, and the caller's own sender keeps the main channel.
\* (The calls are bounded likewise.)
SettingsCallReturns == []<>(\A s \in Senders : senders[s].pc # "reply")

\* What always holds of the queues and the worker: the types, the order between
\* channel and reserve (send_with_reply, try_send), the bound of the reserve, a
\* wake for every filled reserve, one terminal request however often shutdown is
\* called, and a handle that is joined after the thread's end or leaked.
WorkerInv ==
    /\ TypeOK
    /\ QueuesInAcceptanceOrder
    /\ ReserveHoldsItsBound
    /\ NoLostWakeup
    /\ OneTerminalRequest
    /\ ReleaseOnlyAfterExit

=============================================================================
