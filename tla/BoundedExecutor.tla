-------------------------- MODULE BoundedExecutor ---------------------------
(***************************************************************************)
(* The bounded executor of short CPU tasks                                  *)
(* (crates/bounded-work-executor/src/lib.rs): a fixed set of worker         *)
(* threads behind one bounded queue, cooperative cancellation, a terminal   *)
(* slot and a notifier per task, and a shutdown that joins the workers.     *)
(*                                                                         *)
(* The mutex around the receiver only decides which idle worker gets the    *)
(* next task, so any of them may.  The value of a task is its outcome.      *)
(***************************************************************************)
EXTENDS Integers, Sequences, FiniteSets

CONSTANTS
    Tasks,      \* the submissions of the model
    Workers,    \* worker_threads, in the order of the Vec of handles
    CallerSets, \* the sets of threads that may shut it down in one behaviour;
                \* a worker whose task drops the last Arc is such a thread
    QueueCap,   \* queue_capacity
    MaxCalls    \* model bound: how many shutdown calls each caller makes

ASSUME ExecutorAssumption ==
    /\ QueueCap \in Nat \ {0}
    /\ MaxCalls \in Nat
    /\ Workers \in Seq(STRING) /\ Workers # <<>>
    /\ "none" \notin Tasks /\ "none" \notin UNION CallerSets

VARIABLES
    stopping,   \* executor_stopping
    open,       \* is the sender still Some?
    queue,      \* the sync_channel
    task,       \* how far the submission of each task has come
    cancelled,  \* task_cancelled of each task
    slot,       \* the terminal channel of each task
    notified,   \* how often the terminal notifier of each task ran
    worker,     \* each worker thread: where it is, its task and its outcome
    caller,     \* each caller: where it is, in which call, whom it has to join
    joiner,     \* who holds the mutex of the handles
    handles,    \* workers: the handles not taken by a join yet
    detached    \* history: workers whose handle was dropped without a join

vars == <<stopping, open, queue, task, cancelled, slot, notified,
          worker, caller, joiner, handles, detached>>

Callers == UNION CallerSets

WorkerSet == {Workers[i] : i \in DOMAIN Workers}

\* What an operation returns and the failure of one that panicked are both the
\* result of the task; CancelledBeforeStart says that it never ran.
Outcomes == {"Result", "CancelledBeforeStart"}

NoTask == "none"
IdleWorker == [pc |-> "recv", task |-> NoTask, outcome |-> "none"]
IdleCaller(calls) ==
    [pc |-> "idle", call |-> "none", todo |-> <<>>, calls |-> calls]

\* start, after all threads were spawned.
Init ==
    /\ stopping = FALSE
    /\ open = TRUE
    /\ queue = <<>>
    /\ task = [t \in Tasks |-> "new"]
    /\ cancelled = [t \in Tasks |-> FALSE]
    /\ slot = [t \in Tasks |-> "empty"]
    /\ notified = [t \in Tasks |-> 0]
    /\ worker = [w \in WorkerSet |-> IdleWorker]
    /\ \E active \in CallerSets :
         caller = [c \in Callers |-> IdleCaller(IF c \in active THEN 0 ELSE MaxCalls)]
    /\ joiner = "none"
    /\ handles = Workers
    /\ detached = {}

TypeOK ==
    /\ stopping \in BOOLEAN
    /\ open \in BOOLEAN
    /\ queue \in Seq(Tasks) /\ Len(queue) <= QueueCap
    /\ task \in [Tasks -> {"new", "checked", "accepted", "rejected"}]
    /\ cancelled \in [Tasks -> BOOLEAN]
    /\ slot \in [Tasks -> {"empty", "taken"} \cup Outcomes]
    /\ notified \in [Tasks -> 0 .. 1]
    /\ worker \in [WorkerSet ->
          [pc : {"recv", "check", "run", "operation", "complete", "notify",
                 "exited"},
           task : Tasks \cup {NoTask},
           outcome : {"none"} \cup Outcomes]]
    /\ \A c \in Callers :
          /\ caller[c].pc \in {"idle", "takeSender", "lock", "join"}
          /\ caller[c].call \in {"none", "shutdown", "join", "until"}
          /\ caller[c].todo \in Seq(WorkerSet)
          /\ caller[c].calls \in 0 .. MaxCalls
    /\ joiner \in Callers \cup {"none"}
    /\ handles \in {Workers, <<>>}
    /\ detached \subseteq WorkerSet

-----------------------------------------------------------------------------
(* Submitting, cancelling and polling.                                     *)

submitUnchanged == <<stopping, open, slot, notified, worker, caller,
                     joiner, handles, detached>>

\* try_submit_with_terminal_notifier, the check before the task is built.
SubmitChecks(t) ==
    /\ task[t] = "new"
    /\ task' = [task EXCEPT ![t] = IF stopping THEN "rejected" ELSE "checked"]
    /\ UNCHANGED <<queue, cancelled, submitUnchanged>>

\* try_submit_with_terminal_notifier, try_send under the sender's mutex.
\* A full queue and a sender already taken reject the task.
SubmitSends(t) ==
    /\ task[t] = "checked"
    /\ \/ /\ open /\ Len(queue) < QueueCap
          /\ queue' = Append(queue, t)
          /\ task' = [task EXCEPT ![t] = "accepted"]
       \/ /\ ~open \/ Len(queue) >= QueueCap
          /\ task' = [task EXCEPT ![t] = "rejected"]
          /\ UNCHANGED queue
    /\ UNCHANGED <<cancelled, submitUnchanged>>

\* TaskHandle::cancel
Cancel(t) ==
    /\ task[t] = "accepted"
    /\ ~cancelled[t]
    /\ cancelled' = [cancelled EXCEPT ![t] = TRUE]
    /\ UNCHANGED <<queue, task, submitUnchanged>>

\* The queue goes with the sender and the last worker; until then a task in it,
\* or in the hands of a worker, keeps the sending end of its terminal slot.
Alive(t) ==
    \/ /\ \E i \in DOMAIN queue : queue[i] = t
       /\ open \/ \E w \in WorkerSet : worker[w].pc # "exited"
    \/ \E w \in WorkerSet : worker[w].task = t

\* try_take moves the result out of the slot.
TryTake(t) ==
    /\ slot[t] \in Outcomes
    /\ slot' = [slot EXCEPT ![t] = "taken"]
    /\ UNCHANGED <<stopping, open, queue, task, cancelled, notified, worker,
                   caller, joiner, handles, detached>>

-----------------------------------------------------------------------------
(* The worker threads.                                                     *)

workerUnchanged == <<stopping, open, task, cancelled, caller, joiner,
                     handles, detached>>

\* Leaves as soon as the sender is gone, whatever is still queued.
Mut_Receive(w) ==
    /\ worker[w].pc = "recv"
    /\ \/ /\ queue # <<>> /\ open
          /\ queue' = Tail(queue)
          /\ worker' = [worker EXCEPT
                          ![w] = [@ EXCEPT !.pc = "check", !.task = Head(queue)]]
       \/ /\ ~open
          /\ worker' = [worker EXCEPT ![w].pc = "exited"]
          /\ UNCHANGED queue
    /\ UNCHANGED <<slot, notified, workerUnchanged>>

\* worker_loop: recv drains the queue before it reports a closed sender.
Receive(w) ==
    /\ worker[w].pc = "recv"
    /\ \/ /\ queue # <<>>
          /\ queue' = Tail(queue)
          /\ worker' = [worker EXCEPT
                          ![w] = [@ EXCEPT !.pc = "check", !.task = Head(queue)]]
       \/ /\ queue = <<>> /\ ~open
          /\ worker' = [worker EXCEPT ![w].pc = "exited"]
          /\ UNCHANGED queue
    /\ UNCHANGED <<slot, notified, workerUnchanged>>

CompleteWith(w, outcome) ==
    worker' = [worker EXCEPT
                 ![w] = [@ EXCEPT !.pc = "complete", !.outcome = outcome]]

\* worker_loop: cancel_before_start once the executor is stopping.
CheckStopping(w) ==
    /\ worker[w].pc = "check"
    /\ IF stopping THEN CompleteWith(w, "CancelledBeforeStart")
                   ELSE worker' = [worker EXCEPT ![w].pc = "run"]
    /\ UNCHANGED <<queue, slot, notified, workerUnchanged>>

\* TypedTask::run: its own check, then the operation.
Run(w) ==
    /\ worker[w].pc = "run"
    /\ IF stopping \/ cancelled[worker[w].task]
       THEN CompleteWith(w, "CancelledBeforeStart")
       ELSE worker' = [worker EXCEPT ![w].pc = "operation"]
    /\ UNCHANGED <<queue, slot, notified, workerUnchanged>>

\* The operation returns or panics; a call it made into the executor is over.
OperationEnds(w) ==
    /\ worker[w].pc = "operation"
    /\ w \in Callers => caller[w].pc = "idle"
    /\ CompleteWith(w, "Result")
    /\ UNCHANGED <<queue, slot, notified, workerUnchanged>>

\* Forgets the slot of a task that was cancelled before its start.
Mut_Publish(w) ==
    /\ worker[w].pc = "complete"
    /\ slot' = IF worker[w].outcome = "CancelledBeforeStart"
               THEN slot
               ELSE [slot EXCEPT ![worker[w].task] = worker[w].outcome]
    /\ worker' = [worker EXCEPT ![w].pc = "notify"]
    /\ UNCHANGED <<queue, notified, workerUnchanged>>

\* complete: the slot first, the notifier after it.
Publish(w) ==
    /\ worker[w].pc = "complete"
    /\ slot' = [slot EXCEPT ![worker[w].task] = worker[w].outcome]
    /\ worker' = [worker EXCEPT ![w].pc = "notify"]
    /\ UNCHANGED <<queue, notified, workerUnchanged>>

\* A worker that leaves after a task it ran while the executor was stopping.
Mut_Notify(w) ==
    /\ worker[w].pc = "notify"
    /\ IF stopping
       THEN UNCHANGED notified
       ELSE notified' = [notified EXCEPT ![worker[w].task] = @ + 1]
    /\ worker' = [worker EXCEPT ![w] = IdleWorker]
    /\ UNCHANGED <<queue, slot, workerUnchanged>>

Notify(w) ==
    /\ worker[w].pc = "notify"
    /\ notified' = [notified EXCEPT ![worker[w].task] = @ + 1]
    /\ worker' = [worker EXCEPT ![w] = IdleWorker]
    /\ UNCHANGED <<queue, slot, workerUnchanged>>

WorkerStep(w) ==
    Receive(w) \/ CheckStopping(w) \/ Run(w) \/ Publish(w) \/ Notify(w)

-----------------------------------------------------------------------------
(* Shutting down: shutdown, shutdown_and_join, shutdown_and_join_until and  *)
(* Drop, which is shutdown_and_join.                                        *)

callerUnchanged == <<queue, task, cancelled, slot, notified, worker>>

\* shutdown, first half.  A worker calls it from the operation it runs.
BeginShutdown(c, call) ==
    /\ caller[c].pc = "idle"
    /\ caller[c].calls < MaxCalls
    /\ c \in WorkerSet => worker[c].pc = "operation"
    /\ stopping' = TRUE
    /\ caller' = [caller EXCEPT
                    ![c] = [@ EXCEPT !.pc = "takeSender", !.call = call,
                                     !.calls = caller[c].calls + 1]]
    /\ UNCHANGED <<open, joiner, handles, detached, callerUnchanged>>

\* shutdown, second half.
TakeSender(c) ==
    /\ caller[c].pc = "takeSender"
    /\ open' = FALSE
    /\ caller' = [caller EXCEPT ![c] = IF @.call = "shutdown"
                                       THEN IdleCaller(@.calls)
                                       ELSE [@ EXCEPT !.pc = "lock"]]
    /\ UNCHANGED <<stopping, joiner, handles, detached, callerUnchanged>>

\* shutdown_and_join_impl takes the mutex for as long as it joins.
LockHandles(c) ==
    /\ caller[c].pc = "lock"
    /\ joiner = "none"
    /\ joiner' = c
    /\ handles' = <<>>
    /\ caller' = [caller EXCEPT
                    ![c] = [@ EXCEPT !.pc = "join", !.todo = handles]]
    /\ UNCHANGED <<stopping, open, detached, callerUnchanged>>

\* Treats its own thread as one that can be joined.
Mut_JoinOne(c) ==
    /\ caller[c].pc = "join"
    /\ caller[c].todo # <<>>
    /\ LET w == Head(caller[c].todo)
       IN  \/ /\ caller[c].call = "until" /\ worker[w].pc # "exited"
              /\ detached' = detached \cup {w}
           \/ worker[w].pc = "exited" /\ UNCHANGED detached
    /\ caller' = [caller EXCEPT ![c].todo = Tail(@)]
    /\ UNCHANGED <<stopping, open, joiner, handles, callerUnchanged>>

\* One handle: its own is detached, a finished worker is joined, and a worker
\* that is late for the deadline is detached.
JoinOne(c) ==
    /\ caller[c].pc = "join"
    /\ caller[c].todo # <<>>
    /\ LET w == Head(caller[c].todo)
       IN  \/ /\ w = c \/ (caller[c].call = "until" /\ worker[w].pc # "exited")
              /\ detached' = detached \cup {w}
           \/ /\ w # c /\ worker[w].pc = "exited"
              /\ UNCHANGED detached
    /\ caller' = [caller EXCEPT ![c].todo = Tail(@)]
    /\ UNCHANGED <<stopping, open, joiner, handles, callerUnchanged>>

ShutdownReturns(c) ==
    /\ caller[c].pc = "join"
    /\ caller[c].todo = <<>>
    /\ joiner' = "none"
    /\ caller' = [caller EXCEPT ![c] = IdleCaller(@.calls)]
    /\ UNCHANGED <<stopping, open, handles, detached, callerUnchanged>>

CallerStep(c) ==
    TakeSender(c) \/ LockHandles(c) \/ JoinOne(c) \/ ShutdownReturns(c)

-----------------------------------------------------------------------------
Next ==
    \/ \E t \in Tasks :
          SubmitChecks(t) \/ SubmitSends(t) \/ Cancel(t) \/ TryTake(t)
    \/ \E w \in WorkerSet : WorkerStep(w) \/ OperationEnds(w)
    \/ \E c \in Callers :
          \/ \E call \in {"shutdown", "join", "until"} : BeginShutdown(c, call)
          \/ CallerStep(c)

\* Threads that are not blocked keep running, and the operations are the short
\* CPU tasks the executor is for: each ends.
Spec ==
    /\ Init /\ [][Next]_vars
    /\ \A w \in WorkerSet : WF_vars(WorkerStep(w)) /\ WF_vars(OperationEnds(w))
    /\ \A c \in Callers : WF_vars(CallerStep(c))

-----------------------------------------------------------------------------
\* The notifier wakes an owner that finds the result: it runs only after the
\* slot is filled, also for a task cancelled before its start.
NotifierFollowsResult == \A t \in Tasks : notified[t] > 0 => slot[t] # "empty"

\* When every worker was joined, every task that was ever accepted has its
\* result and its owner was told: none is forgotten in the queue, not even one
\* accepted between the two halves of shutdown.
NothingPendingAfterJoin ==
    handles = <<>> /\ joiner = "none" /\ detached = {}
        => \A t \in Tasks :
              task[t] = "accepted" => slot[t] # "empty" /\ notified[t] = 1

\* An accepted task keeps its way to the owner until it has an answer: the
\* first answer of try_take is the task's own result, never the ExecutorStopped
\* of a slot whose sending end was dropped.
ResultIsNeverLost ==
    \A t \in Tasks : task[t] = "accepted" /\ slot[t] = "empty" => Alive(t)

\* Every accepted task is answered and its owner told, exactly once.
AcceptedIsNotified ==
    \A t \in Tasks : (task[t] = "accepted") ~> (notified[t] = 1)

\* A shutdown call returns, also when it is made by two threads at once, or by
\* a task on a worker, which must not join itself.
ShutdownCallReturns ==
    \A c \in Callers : (caller[c].pc # "idle") ~> (caller[c].pc = "idle")

\* What always holds of the executor: the types, no notification without its
\* result (run_task), and no task left behind once every worker is joined
\* (shutdown_and_join).
ExecutorInv == TypeOK /\ NotifierFollowsResult /\ NothingPendingAfterJoin

=============================================================================
