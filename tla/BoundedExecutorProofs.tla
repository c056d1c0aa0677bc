----------------------- MODULE BoundedExecutorProofs ------------------------
(***************************************************************************)
(* Proofs about BoundedExecutor: where a task is at every moment, from      *)
(* which ExecutorInv and ResultIsNeverLost follow.                          *)
(***************************************************************************)
EXTENDS BoundedExecutor, TLAPS

-----------------------------------------------------------------------------
(* The inductive invariant *)

CallerStates ==
    [pc : {"idle", "takeSender", "lock", "join"},
     call : {"none", "shutdown", "join", "until"},
     todo : Seq(WorkerSet), calls : 0 .. MaxCalls]

WorkerStates ==
    [pc : {"recv", "check", "run", "operation", "complete", "notify", "exited"},
     task : Tasks \cup {NoTask}, outcome : {"none"} \cup Outcomes]

Queued(q, t) == \E i \in DOMAIN q : q[i] = t
Held(f, t) == \E w \in WorkerSet : f[w].task = t

\* A worker has a task from its receipt to its notification, and an outcome
\* from its end on.
WorkersHoldTasks ==
    \A w \in WorkerSet :
        /\ worker[w].pc \in {"recv", "exited"} <=> worker[w].task = NoTask
        /\ worker[w].pc \in {"complete", "notify"} => worker[w].outcome \in Outcomes

\* An accepted task is in one place only: in the queue, with one worker, or
\* answered and notified.  Its slot is filled between the last two.
TasksHavePlaces ==
    /\ \A t \in Tasks :
          /\ task[t] = "accepted" => Queued(queue, t) \/ Held(worker, t) \/ notified[t] = 1
          /\ task[t] # "accepted" => ~Queued(queue, t) /\ ~Held(worker, t) /\ notified[t] = 0
          /\ Queued(queue, t) => ~Held(worker, t) /\ notified[t] = 0
          /\ notified[t] = 1 => slot[t] # "empty"
    /\ \A i, j \in DOMAIN queue : queue[i] = queue[j] => i = j
    /\ \A w \in WorkerSet : worker[w].task # NoTask =>
          /\ notified[worker[w].task] = 0
          /\ worker[w].pc = "notify" => slot[worker[w].task] # "empty"
          /\ \A v \in WorkerSet : worker[v].task = worker[w].task => v = w

\* A worker leaves only an empty queue behind a sender that is gone.
ExitIsLast ==
    \A w \in WorkerSet : worker[w].pc = "exited" => ~open /\ queue = <<>>

\* Whoever joins holds the mutex; once the handles were taken each worker is
\* detached, ended, or still to be joined by the holder.
HandlesAccounted ==
    /\ caller \in [Callers -> CallerStates]
    /\ \A c \in Callers :
          /\ caller[c].pc = "join" <=> joiner = c
          /\ caller[c].pc # "join" => caller[c].todo = <<>>
    /\ handles = <<>> =>
          \A w \in WorkerSet :
             \/ w \in detached \/ worker[w].pc = "exited"
             \/ \E c \in Callers : /\ joiner = c
                                   /\ \E i \in DOMAIN caller[c].todo : caller[c].todo[i] = w

IInv ==
    /\ TypeOK
    /\ WorkersHoldTasks
    /\ TasksHavePlaces
    /\ ExitIsLast
    /\ HandlesAccounted

-----------------------------------------------------------------------------
(* Facts about the constants and the types *)

\* Every handle is a worker, there is one, and the markers are no task and no caller.
LEMMA Constants ==
  /\ QueueCap \in Nat /\ MaxCalls \in Nat /\ Workers \in Seq(WorkerSet)
  /\ DOMAIN Workers = 1 .. Len(Workers) /\ Len(Workers) \in Nat /\ Len(Workers) # 0
  /\ WorkerSet # {} /\ Workers # <<>>
  /\ NoTask \notin Tasks /\ "none" \notin Callers /\ NoTask \notin Outcomes
  /\ "empty" \notin Outcomes /\ "taken" \notin Outcomes
<1>1. Workers \in Seq(STRING) /\ Workers # <<>>
  BY ExecutorAssumption
<1>2. DOMAIN Workers = 1 .. Len(Workers) /\ Len(Workers) \in Nat /\ Len(Workers) # 0
  BY <1>1
<1>3. \A i \in 1 .. Len(Workers) : Workers[i] \in WorkerSet
  BY <1>2 DEF WorkerSet
<1>4. Workers \in Seq(WorkerSet)
  BY <1>1, <1>2, <1>3
<1>5. WorkerSet # {}
  BY <1>2, <1>3
<1> QED
  BY <1>1, <1>2, <1>4, <1>5, ExecutorAssumption DEF Callers, NoTask, Outcomes

\* The types in the form the steps use them.
LEMMA Types ==
  ASSUME IInv
  PROVE  /\ queue \in Seq(Tasks) /\ Len(queue) \in Nat /\ DOMAIN queue = 1 .. Len(queue)
         /\ Len(queue) <= QueueCap
         /\ worker \in [WorkerSet -> WorkerStates]
         /\ task \in [Tasks -> {"new", "checked", "accepted", "rejected"}]
         /\ slot \in [Tasks -> {"empty", "taken"} \cup Outcomes]
         /\ notified \in [Tasks -> 0 .. 1]
         /\ cancelled \in [Tasks -> BOOLEAN]
         /\ caller \in [Callers -> CallerStates]
         /\ joiner \in Callers \cup {"none"} /\ handles \in {Workers, <<>>}
         /\ detached \subseteq WorkerSet
  BY DEF IInv, TypeOK, HandlesAccounted, WorkerStates

\* The callers are typed by the states they may be in.
LEMMA CallerTypes ==
  ASSUME NEW f \in [Callers -> CallerStates], NEW c \in Callers
  PROVE  /\ f[c].pc \in {"idle", "takeSender", "lock", "join"}
         /\ f[c].call \in {"none", "shutdown", "join", "until"}
         /\ f[c].todo \in Seq(WorkerSet)
         /\ f[c].calls \in 0 .. MaxCalls
<1>1. f[c] \in CallerStates
  OBVIOUS
<1> QED
  BY <1>1 DEF CallerStates

\* Who is in the queue after a send, and after a receipt.
LEMMA QueuedAppend ==
  ASSUME NEW q \in Seq(Tasks), NEW t \in Tasks, NEW u \in Tasks
  PROVE  Queued(Append(q, t), u) <=> Queued(q, u) \/ u = t
<1>1. /\ DOMAIN q = 1 .. Len(q) /\ Len(q) \in Nat
      /\ DOMAIN Append(q, t) = 1 .. Len(q) + 1
      /\ \A i \in 1 .. Len(q) : Append(q, t)[i] = q[i]
      /\ Append(q, t)[Len(q) + 1] = t
  OBVIOUS
<1>2. ASSUME Queued(q, u) PROVE Queued(Append(q, t), u)
  BY <1>1, <1>2 DEF Queued
<1>3. ASSUME u = t PROVE Queued(Append(q, t), u)
  <2>1. Len(q) + 1 \in DOMAIN Append(q, t)
    BY <1>1
  <2> QED
    BY <1>1, <1>3, <2>1 DEF Queued
<1>4. ASSUME Queued(Append(q, t), u), u # t PROVE Queued(q, u)
  BY <1>1, <1>4 DEF Queued
<1> QED
  BY <1>2, <1>3, <1>4

\* Receiving the head of the queue leaves the other tasks queued, each once.
LEMMA QueuedTail ==
  ASSUME NEW q \in Seq(Tasks), q # <<>>,
         \A i, j \in DOMAIN q : q[i] = q[j] => i = j
  PROVE  /\ Tail(q) \in Seq(Tasks) /\ Head(q) \in Tasks /\ Queued(q, Head(q))
         /\ Len(Tail(q)) = Len(q) - 1
         /\ \A u \in Tasks : Queued(Tail(q), u) <=> Queued(q, u) /\ u # Head(q)
         /\ \A i, j \in DOMAIN Tail(q) : Tail(q)[i] = Tail(q)[j] => i = j
<1>1. /\ DOMAIN q = 1 .. Len(q) /\ Len(q) \in Nat /\ Len(q) # 0
      /\ Head(q) = q[1] /\ Tail(q) \in Seq(Tasks) /\ Len(Tail(q)) = Len(q) - 1
      /\ DOMAIN Tail(q) = 1 .. Len(q) - 1
      /\ \A i \in 1 .. Len(q) - 1 : Tail(q)[i] = q[i + 1]
  OBVIOUS
<1>2. 1 \in DOMAIN q /\ \A i \in 1 .. Len(q) - 1 : i + 1 \in DOMAIN q /\ i + 1 # 1
  BY <1>1
<1>3. Head(q) \in Tasks /\ Queued(q, Head(q))
  BY <1>1, <1>2 DEF Queued
<1>4. ASSUME NEW u \in Tasks PROVE Queued(Tail(q), u) <=> Queued(q, u) /\ u # Head(q)
  <2>1. ASSUME Queued(Tail(q), u) PROVE Queued(q, u) /\ u # Head(q)
    <3>1. PICK i \in 1 .. Len(q) - 1 : q[i + 1] = u
      BY <2>1, <1>1 DEF Queued
    <3> QED
      BY <3>1, <1>1, <1>2 DEF Queued
  <2>2. ASSUME Queued(q, u), u # Head(q) PROVE Queued(Tail(q), u)
    <3>1. PICK i \in 1 .. Len(q) : q[i] = u
      BY <2>2, <1>1 DEF Queued
    <3>2. i - 1 \in 1 .. Len(q) - 1 /\ (i - 1) + 1 = i
      BY <3>1, <2>2, <1>1
    <3>3. Tail(q)[i - 1] = u
      BY <3>1, <3>2, <1>1
    <3> QED
      BY <3>2, <3>3, <1>1 DEF Queued
  <2> QED
    BY <2>1, <2>2
<1>5. \A i, j \in DOMAIN Tail(q) : Tail(q)[i] = Tail(q)[j] => i = j
  BY <1>1, <1>2
<1> QED
  BY <1>1, <1>3, <1>4, <1>5

-----------------------------------------------------------------------------
(* The steps of the submitters *)

\* A submission past its checks has taken no place yet (submit).
LEMMA SubmitChecksKeeps ==
  ASSUME IInv, NEW t \in Tasks, SubmitChecks(t)
  PROVE  IInv'
<1>1. /\ UNCHANGED <<queue, cancelled, stopping, open, slot, notified, worker, caller,
                     joiner, handles, detached>>
      /\ task[t] = "new"
      /\ task' \in [Tasks -> {"new", "checked", "accepted", "rejected"}]
      /\ \A u \in Tasks : task'[u] = "accepted" <=> task[u] = "accepted"
  BY Types DEF SubmitChecks, submitUnchanged
<1>2. TypeOK'
  BY <1>1 DEF IInv, TypeOK
<1>3. WorkersHoldTasks' /\ ExitIsLast' /\ HandlesAccounted'
  BY <1>1 DEF IInv, WorkersHoldTasks, ExitIsLast, HandlesAccounted
<1>4. TasksHavePlaces'
  BY <1>1 DEF IInv, TasksHavePlaces, Queued, Held
<1> QED
  BY <1>2, <1>3, <1>4 DEF IInv

\* The task enters the bounded queue, or is refused by one full or closed.
LEMMA SubmitSendsKeeps ==
  ASSUME IInv, NEW t \in Tasks, SubmitSends(t)
  PROVE  IInv'
<1>1. /\ UNCHANGED <<cancelled, stopping, open, slot, notified, worker, caller,
                     joiner, handles, detached>>
      /\ task[t] = "checked"
  BY DEF SubmitSends, submitUnchanged
<1>2. CASE /\ open /\ Len(queue) < QueueCap
           /\ queue' = Append(queue, t)
           /\ task' = [task EXCEPT ![t] = "accepted"]
  <2>1. /\ queue' \in Seq(Tasks) /\ Len(queue') = Len(queue) + 1
        /\ DOMAIN queue' = 1 .. Len(queue) + 1
        /\ \A i \in 1 .. Len(queue) : queue'[i] = queue[i]
        /\ queue'[Len(queue) + 1] = t
    BY <1>2, Types
  <2>2. /\ task' \in [Tasks -> {"new", "checked", "accepted", "rejected"}]
        /\ task'[t] = "accepted"
        /\ \A u \in Tasks : u # t => task'[u] = task[u]
    BY <1>2, Types
  <2>3. TypeOK'
    BY <1>1, <1>2, <2>1, <2>2, Types, Constants DEF IInv, TypeOK
  <2>4. WorkersHoldTasks' /\ HandlesAccounted'
    BY <1>1 DEF IInv, WorkersHoldTasks, HandlesAccounted
  <2>5. ExitIsLast'
    BY <1>1, <1>2 DEF IInv, ExitIsLast
  <2>6. \A u \in Tasks : Queued(queue', u) <=> Queued(queue, u) \/ u = t
    BY <1>2, Types, QueuedAppend
  <2>7. ~Queued(queue, t) /\ ~Held(worker, t) /\ notified[t] = 0
    BY <1>1 DEF IInv, TasksHavePlaces
  <2>8. \A i, j \in DOMAIN queue' : queue'[i] = queue'[j] => i = j
    BY <2>1, <2>7, Types DEF IInv, TasksHavePlaces, Queued
  <2>9. TasksHavePlaces'
    BY <1>1, <2>2, <2>6, <2>7, <2>8 DEF IInv, TasksHavePlaces
  <2> QED
    BY <2>3, <2>4, <2>5, <2>9 DEF IInv
<1>3. CASE task' = [task EXCEPT ![t] = "rejected"] /\ queue' = queue
  <2>1. /\ task' \in [Tasks -> {"new", "checked", "accepted", "rejected"}]
        /\ \A u \in Tasks : task'[u] = "accepted" <=> task[u] = "accepted"
    BY <1>1, <1>3, Types
  <2>2. TypeOK'
    BY <1>1, <1>3, <2>1 DEF IInv, TypeOK
  <2>3. WorkersHoldTasks' /\ ExitIsLast' /\ HandlesAccounted'
    BY <1>1, <1>3 DEF IInv, WorkersHoldTasks, ExitIsLast, HandlesAccounted
  <2>4. TasksHavePlaces'
    BY <1>1, <1>3, <2>1 DEF IInv, TasksHavePlaces, Queued, Held
  <2> QED
    BY <2>2, <2>3, <2>4 DEF IInv
<1> QED
  BY <1>2, <1>3 DEF SubmitSends

\* A cancellation only marks its task (cancel).
LEMMA CancelKeeps ==
  ASSUME IInv, NEW t \in Tasks, Cancel(t)
  PROVE  IInv'
<1>1. /\ UNCHANGED <<queue, task, stopping, open, slot, notified, worker, caller,
                     joiner, handles, detached>>
      /\ cancelled' \in [Tasks -> BOOLEAN]
  BY Types DEF Cancel, submitUnchanged
<1>2. TypeOK'
  BY <1>1 DEF IInv, TypeOK
<1>3. WorkersHoldTasks' /\ ExitIsLast' /\ HandlesAccounted'
  BY <1>1 DEF IInv, WorkersHoldTasks, ExitIsLast, HandlesAccounted
<1>4. TasksHavePlaces'
  BY <1>1 DEF IInv, TasksHavePlaces, Queued, Held
<1> QED
  BY <1>2, <1>3, <1>4 DEF IInv

\* The handle takes a published result, once (try_take).
LEMMA TryTakeKeeps ==
  ASSUME IInv, NEW t \in Tasks, TryTake(t)
  PROVE  IInv'
<1>1. /\ UNCHANGED <<stopping, open, queue, task, cancelled, notified, worker, caller,
                     joiner, handles, detached>>
      /\ slot' \in [Tasks -> {"empty", "taken"} \cup Outcomes]
      /\ \A u \in Tasks : slot'[u] = "empty" <=> slot[u] = "empty"
  BY Types, Constants DEF TryTake
<1>2. TypeOK'
  BY <1>1 DEF IInv, TypeOK
<1>3. WorkersHoldTasks' /\ ExitIsLast' /\ HandlesAccounted'
  BY <1>1 DEF IInv, WorkersHoldTasks, ExitIsLast, HandlesAccounted
<1>4. \A w \in WorkerSet : worker[w].task # NoTask => worker[w].task \in Tasks
  BY Types DEF WorkerStates
<1>5. TasksHavePlaces'
  BY <1>1, <1>4 DEF IInv, TasksHavePlaces, Queued, Held
<1> QED
  BY <1>2, <1>3, <1>5 DEF IInv

-----------------------------------------------------------------------------
(* The steps of the workers *)

\* A step of one worker that has not ended: the others are where they were.
WorkerMoves(w) ==
    /\ worker' \in [WorkerSet -> WorkerStates]
    /\ worker[w].pc # "exited"
    /\ \A v \in WorkerSet : v # w => worker'[v] = worker[v]

\* Such a step cannot disturb what is known of the handles.
LEMMA HandlesAfterWorker ==
  ASSUME IInv, NEW w \in WorkerSet, WorkerMoves(w),
         UNCHANGED <<caller, joiner, handles, detached>>
  PROVE  HandlesAccounted'
  BY DEF IInv, HandlesAccounted, WorkerMoves

\* A worker receives a task, finds the queue closed, or stops.
LEMMA ReceiveKeeps ==
  ASSUME IInv, NEW w \in WorkerSet, Receive(w)
  PROVE  IInv'
<1>1. /\ UNCHANGED <<slot, notified, stopping, open, task, cancelled, caller, joiner,
                     handles, detached>>
      /\ worker[w].pc = "recv" /\ worker[w].task = NoTask
      /\ worker[w] \in WorkerStates
  BY Types DEF Receive, workerUnchanged, IInv, WorkersHoldTasks
<1>2. CASE /\ queue # <<>>
           /\ queue' = Tail(queue)
           /\ worker' = [worker EXCEPT
                           ![w] = [@ EXCEPT !.pc = "check", !.task = Head(queue)]]
  <2>1. \A i, j \in DOMAIN queue : queue[i] = queue[j] => i = j
    BY DEF IInv, TasksHavePlaces
  <2>2. /\ queue' \in Seq(Tasks) /\ Head(queue) \in Tasks /\ Queued(queue, Head(queue))
        /\ Len(queue') = Len(queue) - 1
        /\ \A u \in Tasks : Queued(queue', u) <=> Queued(queue, u) /\ u # Head(queue)
        /\ \A i, j \in DOMAIN queue' : queue'[i] = queue'[j] => i = j
    BY <1>2, <2>1, Types, QueuedTail
  <2>3. PICK h \in Tasks : h = Head(queue)
    BY <2>2
  <2>4. /\ worker' \in [WorkerSet -> WorkerStates]
        /\ worker'[w].pc = "check" /\ worker'[w].task = h
        /\ \A v \in WorkerSet : v # w => worker'[v] = worker[v]
    BY <1>1, <1>2, <2>3, Types DEF WorkerStates
  <2>5. TypeOK'
    BY <1>1, <2>2, <2>4, Types, Constants DEF IInv, TypeOK, WorkerStates
  <2>6. WorkersHoldTasks'
    BY <1>1, <2>3, <2>4, Constants DEF IInv, WorkersHoldTasks
  <2>7. ExitIsLast'
    BY <1>1, <1>2, <2>4 DEF IInv, ExitIsLast
  <2>8. HandlesAccounted'
    BY <1>1, <2>4, HandlesAfterWorker DEF WorkerMoves
  <2>9. /\ \A u \in Tasks : Held(worker', u) <=> Held(worker, u) \/ u = h
        /\ Queued(queue, h) /\ ~Held(worker, h) /\ notified[h] = 0
    <3>1. Queued(queue, h) /\ ~Held(worker, h) /\ notified[h] = 0
      BY <2>2, <2>3 DEF IInv, TasksHavePlaces
    <3> QED
      BY <1>1, <2>4, <3>1, Constants DEF Held
  <2>10. TasksHavePlaces'
    <3>1. ASSUME NEW t \in Tasks
          PROVE  /\ task'[t] = "accepted" =>
                       Queued(queue', t) \/ Held(worker', t) \/ notified'[t] = 1
                 /\ task'[t] # "accepted" =>
                       ~Queued(queue', t) /\ ~Held(worker', t) /\ notified'[t] = 0
                 /\ Queued(queue', t) => ~Held(worker', t) /\ notified'[t] = 0
                 /\ notified'[t] = 1 => slot'[t] # "empty"
      BY <1>1, <2>2, <2>3, <2>9 DEF IInv, TasksHavePlaces
    <3>2. ASSUME NEW v \in WorkerSet, worker'[v].task # NoTask
          PROVE  /\ notified'[worker'[v].task] = 0
                 /\ worker'[v].pc = "notify" => slot'[worker'[v].task] # "empty"
                 /\ \A x \in WorkerSet : worker'[x].task = worker'[v].task => x = v
      BY <1>1, <2>4, <2>9, <3>2 DEF IInv, TasksHavePlaces, Held
    <3> QED
      BY <2>2, <3>1, <3>2 DEF TasksHavePlaces
  <2> QED
    BY <2>5, <2>6, <2>7, <2>8, <2>10 DEF IInv
<1>3. CASE /\ queue = <<>> /\ ~open
           /\ worker' = [worker EXCEPT ![w].pc = "exited"]
           /\ queue' = queue
  <2>1. /\ worker' \in [WorkerSet -> WorkerStates]
        /\ worker'[w].pc = "exited" /\ worker'[w].task = NoTask
        /\ \A v \in WorkerSet : v # w => worker'[v] = worker[v]
        /\ \A v \in WorkerSet : worker'[v].task = worker[v].task
    BY <1>1, <1>3, Types DEF WorkerStates
  <2>2. TypeOK'
    BY <1>1, <1>3, <2>1 DEF IInv, TypeOK, WorkerStates
  <2>3. WorkersHoldTasks'
    BY <2>1 DEF IInv, WorkersHoldTasks
  <2>4. ExitIsLast'
    BY <1>1, <1>3 DEF ExitIsLast
  <2>5. HandlesAccounted'
    BY <1>1, <2>1, HandlesAfterWorker DEF WorkerMoves
  <2>6. TasksHavePlaces'
    BY <1>1, <1>3, <2>1 DEF IInv, TasksHavePlaces, Held
  <2> QED
    BY <2>2, <2>3, <2>4, <2>5, <2>6 DEF IInv
<1> QED
  BY <1>2, <1>3 DEF Receive

\* A worker that works on keeps its task; the checks before the operation and
\* its end change nothing else.
LEMMA WorkKeeps ==
  ASSUME IInv, NEW w \in WorkerSet, CheckStopping(w) \/ Run(w) \/ OperationEnds(w)
  PROVE  IInv'
<1>1. /\ UNCHANGED <<queue, slot, notified, stopping, open, task, cancelled, caller,
                     joiner, handles, detached>>
      /\ worker[w].pc \in {"check", "run", "operation"}
      /\ worker[w] \in WorkerStates
  BY Types DEF CheckStopping, Run, OperationEnds, workerUnchanged
<1>2. \/ \E pc \in {"run", "operation"} : worker' = [worker EXCEPT ![w].pc = pc]
      \/ \E o \in Outcomes : worker' = [worker EXCEPT
                                  ![w] = [@ EXCEPT !.pc = "complete", !.outcome = o]]
  BY DEF CheckStopping, Run, OperationEnds, CompleteWith, Outcomes
<1>3. /\ worker' \in [WorkerSet -> WorkerStates]
      /\ worker'[w].pc \in {"run", "operation", "complete"}
      /\ worker'[w].pc = "complete" => worker'[w].outcome \in Outcomes
      /\ worker'[w].task = worker[w].task
      /\ \A v \in WorkerSet : v # w => worker'[v] = worker[v]
  <2>1. ASSUME NEW pc \in {"run", "operation"}, worker' = [worker EXCEPT ![w].pc = pc]
        PROVE  /\ worker' \in [WorkerSet -> WorkerStates]
               /\ worker'[w].pc \in {"run", "operation", "complete"}
               /\ worker'[w].pc = "complete" => worker'[w].outcome \in Outcomes
               /\ worker'[w].task = worker[w].task
               /\ \A v \in WorkerSet : v # w => worker'[v] = worker[v]
    BY <1>1, <2>1, Types DEF WorkerStates
  <2>2. ASSUME NEW o \in Outcomes,
               worker' = [worker EXCEPT ![w] = [@ EXCEPT !.pc = "complete", !.outcome = o]]
        PROVE  /\ worker' \in [WorkerSet -> WorkerStates]
               /\ worker'[w].pc \in {"run", "operation", "complete"}
               /\ worker'[w].pc = "complete" => worker'[w].outcome \in Outcomes
               /\ worker'[w].task = worker[w].task
               /\ \A v \in WorkerSet : v # w => worker'[v] = worker[v]
    BY <1>1, <2>2, Types DEF WorkerStates
  <2> QED
    BY <1>2, <2>1, <2>2
<1>4. TypeOK'
  BY <1>1, <1>3 DEF IInv, TypeOK, WorkerStates
<1>5. WorkersHoldTasks'
  BY <1>1, <1>3 DEF IInv, WorkersHoldTasks
<1>6. ExitIsLast'
  BY <1>1, <1>3 DEF IInv, ExitIsLast
<1>7. HandlesAccounted'
  BY <1>1, <1>3, HandlesAfterWorker DEF WorkerMoves
<1>8. \A v \in WorkerSet : /\ worker'[v].task = worker[v].task
                           /\ worker'[v].pc = "notify" => worker[v].pc = "notify"
  BY <1>3
<1>9. TasksHavePlaces'
  <2>1. \A t \in Tasks : Held(worker', t) <=> Held(worker, t)
    BY <1>8 DEF Held
  <2>2. ASSUME NEW v \in WorkerSet, worker'[v].task # NoTask
        PROVE  /\ notified'[worker'[v].task] = 0
               /\ worker'[v].pc = "notify" => slot'[worker'[v].task] # "empty"
               /\ \A x \in WorkerSet : worker'[x].task = worker'[v].task => x = v
    BY <1>1, <1>8, <2>2 DEF IInv, TasksHavePlaces
  <2> QED
    BY <1>1, <2>1, <2>2 DEF IInv, TasksHavePlaces
<1> QED
  BY <1>4, <1>5, <1>6, <1>7, <1>9 DEF IInv

\* A worker publishes the result of its task, before anyone is notified.
LEMMA PublishKeeps ==
  ASSUME IInv, NEW w \in WorkerSet, Publish(w)
  PROVE  IInv'
<1>1. /\ UNCHANGED <<queue, notified, stopping, open, task, cancelled, caller,
                     joiner, handles, detached>>
      /\ worker[w].pc = "complete" /\ worker[w] \in WorkerStates
      /\ worker[w].task \in Tasks /\ worker[w].outcome \in Outcomes
      /\ worker' = [worker EXCEPT ![w].pc = "notify"]
      /\ slot' = [slot EXCEPT ![worker[w].task] = worker[w].outcome]
  BY Types DEF Publish, workerUnchanged, IInv, WorkersHoldTasks, WorkerStates
<1>2. /\ slot' \in [Tasks -> {"empty", "taken"} \cup Outcomes]
      /\ slot'[worker[w].task] # "empty"
      /\ \A t \in Tasks : slot[t] # "empty" => slot'[t] # "empty"
  BY <1>1, Types, Constants
<1>3. /\ worker' \in [WorkerSet -> WorkerStates] /\ worker'[w].pc = "notify"
      /\ worker'[w].outcome = worker[w].outcome
      /\ \A v \in WorkerSet : v # w => worker'[v] = worker[v]
      /\ \A v \in WorkerSet : worker'[v].task = worker[v].task
  BY <1>1, Types DEF WorkerStates
<1>4. TypeOK'
  BY <1>1, <1>2, <1>3 DEF IInv, TypeOK, WorkerStates
<1>5. WorkersHoldTasks'
  BY <1>1, <1>3 DEF IInv, WorkersHoldTasks
<1>6. ExitIsLast'
  BY <1>1, <1>3 DEF IInv, ExitIsLast
<1>7. HandlesAccounted'
  BY <1>1, <1>3, HandlesAfterWorker DEF WorkerMoves
<1>8. \A v \in WorkerSet : worker[v].task # NoTask => worker[v].task \in Tasks
  BY Types DEF WorkerStates
<1>9. TasksHavePlaces'
  BY <1>1, <1>2, <1>3, <1>8 DEF IInv, TasksHavePlaces, Held
<1> QED
  BY <1>4, <1>5, <1>6, <1>7, <1>9 DEF IInv

\* A worker notifies the submitter of a result that is there.
LEMMA NotifyKeeps ==
  ASSUME IInv, NEW w \in WorkerSet, Notify(w)
  PROVE  IInv'
<1>1. /\ UNCHANGED <<queue, slot, stopping, open, task, cancelled, caller,
                     joiner, handles, detached>>
      /\ worker[w].pc = "notify" /\ worker[w] \in WorkerStates
      /\ worker[w].task \in Tasks
      /\ worker' = [worker EXCEPT ![w] = IdleWorker]
      /\ notified' = [notified EXCEPT ![worker[w].task] = @ + 1]
  BY Types DEF Notify, workerUnchanged, IInv, WorkersHoldTasks, WorkerStates
<1>2. PICK h \in Tasks : h = worker[w].task
  BY <1>1
<1>3. /\ notified[h] = 0 /\ slot[h] # "empty"
      /\ \A v \in WorkerSet : worker[v].task = h => v = w
  BY <1>1, <1>2, Constants DEF IInv, TasksHavePlaces
<1>4. /\ notified' \in [Tasks -> 0 .. 1] /\ notified'[h] = 1
      /\ \A t \in Tasks : t # h => notified'[t] = notified[t]
  BY <1>1, <1>2, <1>3, Types
<1>5. /\ worker' \in [WorkerSet -> WorkerStates]
      /\ worker'[w].pc = "recv" /\ worker'[w].task = NoTask
      /\ \A v \in WorkerSet : v # w => worker'[v] = worker[v]
  BY <1>1, Types DEF WorkerStates, IdleWorker
<1>6. TypeOK'
  BY <1>1, <1>4, <1>5 DEF IInv, TypeOK, WorkerStates
<1>7. WorkersHoldTasks'
  BY <1>5 DEF IInv, WorkersHoldTasks
<1>8. ExitIsLast'
  BY <1>1, <1>5 DEF IInv, ExitIsLast
<1>9. HandlesAccounted'
  BY <1>1, <1>5, HandlesAfterWorker DEF WorkerMoves
<1>10. \A t \in Tasks : Held(worker', t) <=> Held(worker, t) /\ t # h
  BY <1>2, <1>3, <1>5, Constants DEF Held
<1>11. ~Queued(queue, h) /\ task[h] = "accepted"
  <2>1. Held(worker, h)
    BY <1>2 DEF Held
  <2> QED
    BY <2>1 DEF IInv, TasksHavePlaces
<1>12. TasksHavePlaces'
  <2>1. ASSUME NEW t \in Tasks
        PROVE  /\ task'[t] = "accepted" =>
                     Queued(queue', t) \/ Held(worker', t) \/ notified'[t] = 1
               /\ task'[t] # "accepted" =>
                     ~Queued(queue', t) /\ ~Held(worker', t) /\ notified'[t] = 0
               /\ Queued(queue', t) => ~Held(worker', t) /\ notified'[t] = 0
               /\ notified'[t] = 1 => slot'[t] # "empty"
    BY <1>1, <1>3, <1>4, <1>10, <1>11 DEF IInv, TasksHavePlaces
  <2>2. ASSUME NEW v \in WorkerSet, worker'[v].task # NoTask
        PROVE  /\ notified'[worker'[v].task] = 0
               /\ worker'[v].pc = "notify" => slot'[worker'[v].task] # "empty"
               /\ \A x \in WorkerSet : worker'[x].task = worker'[v].task => x = v
    <3>1. v # w /\ worker'[v] = worker[v] /\ worker[v].task # h /\ worker[v].task \in Tasks
      BY <1>3, <1>5, <2>2, Types DEF WorkerStates
    <3> QED
      BY <1>1, <1>4, <1>5, <2>2, <3>1 DEF IInv, TasksHavePlaces
  <2>3. \A i, j \in DOMAIN queue' : queue'[i] = queue'[j] => i = j
    BY <1>1 DEF IInv, TasksHavePlaces
  <2> QED
    BY <2>1, <2>2, <2>3 DEF TasksHavePlaces
<1> QED
  BY <1>6, <1>7, <1>8, <1>9, <1>12 DEF IInv

-----------------------------------------------------------------------------
(* The steps of the callers *)

\* What a step of one caller keeps whatever it does with the handles.
LEMMA CallerFrame ==
  ASSUME IInv, UNCHANGED callerUnchanged, open' => open,
         stopping' \in BOOLEAN, open' \in BOOLEAN,
         caller' \in [Callers -> CallerStates],
         joiner' \in Callers \cup {"none"}, handles' \in {Workers, <<>>},
         detached' \subseteq WorkerSet
  PROVE  TypeOK' /\ WorkersHoldTasks' /\ TasksHavePlaces' /\ ExitIsLast'
<1> USE DEF callerUnchanged
<1>1. TypeOK'
  BY CallerTypes DEF IInv, TypeOK
<1>2. WorkersHoldTasks' /\ ExitIsLast'
  BY DEF IInv, WorkersHoldTasks, ExitIsLast
<1>3. TasksHavePlaces'
  BY DEF IInv, TasksHavePlaces
<1> QED
  BY <1>1, <1>2, <1>3

\* A caller enters one of the three ways to shut down (begin_shutdown).
LEMMA BeginShutdownKeeps ==
  ASSUME IInv, NEW c \in Callers, NEW call \in {"shutdown", "join", "until"},
         BeginShutdown(c, call)
  PROVE  IInv'
<1>1. /\ UNCHANGED <<open, joiner, handles, detached, callerUnchanged>>
      /\ stopping' = TRUE /\ open \in BOOLEAN
      /\ caller[c].pc = "idle" /\ caller[c] \in CallerStates
      /\ caller[c].calls + 1 \in 0 .. MaxCalls
  BY Types, CallerTypes, Constants DEF BeginShutdown, IInv, TypeOK
<1>2. /\ caller' \in [Callers -> CallerStates]
      /\ caller'[c].pc = "takeSender" /\ caller'[c].todo = caller[c].todo
      /\ \A d \in Callers : d # c => caller'[d] = caller[d]
  <2>0. PICK n \in 0 .. MaxCalls : n = caller[c].calls + 1
    BY <1>1
  <2> DEFINE r == [caller[c] EXCEPT !.pc = "takeSender", !.call = call, !.calls = n]
  <2>1. r \in CallerStates /\ r.pc = "takeSender" /\ r.todo = caller[c].todo
    BY <1>1 DEF CallerStates
  <2>2. caller' = [caller EXCEPT ![c] = r]
    <3>1. caller' = [caller EXCEPT ![c] = [caller[c] EXCEPT !.pc = "takeSender",
                        !.call = call, !.calls = caller[c].calls + 1]]
      BY DEF BeginShutdown
    <3> QED
      BY <2>0, <3>1
  <2> HIDE DEF r
  <2> QED
    BY <2>1, <2>2, Types
<1>3. TypeOK' /\ WorkersHoldTasks' /\ TasksHavePlaces' /\ ExitIsLast'
  BY <1>1, <1>2, Types, CallerFrame
<1>4. HandlesAccounted'
  BY <1>1, <1>2 DEF IInv, HandlesAccounted, callerUnchanged
<1> QED
  BY <1>3, <1>4 DEF IInv

\* The first caller closes the queue by taking its sender.
LEMMA TakeSenderKeeps ==
  ASSUME IInv, NEW c \in Callers, TakeSender(c)
  PROVE  IInv'
<1>1. /\ UNCHANGED <<stopping, joiner, handles, detached, callerUnchanged>>
      /\ open' = FALSE /\ stopping \in BOOLEAN
      /\ caller[c].pc = "takeSender" /\ caller[c] \in CallerStates
      /\ caller[c].todo = <<>> /\ caller[c].calls \in 0 .. MaxCalls
  BY Types, CallerTypes DEF TakeSender, IInv, TypeOK, HandlesAccounted
<1>2. /\ caller' \in [Callers -> CallerStates]
      /\ caller'[c].pc \in {"idle", "lock"} /\ caller'[c].todo = <<>>
      /\ \A d \in Callers : d # c => caller'[d] = caller[d]
  <2>1. /\ IdleCaller(caller[c].calls) \in CallerStates
        /\ [caller[c] EXCEPT !.pc = "lock"] \in CallerStates
        /\ [caller[c] EXCEPT !.pc = "lock"].pc = "lock"
        /\ [caller[c] EXCEPT !.pc = "lock"].todo = <<>>
        /\ IdleCaller(caller[c].calls).pc = "idle"
        /\ IdleCaller(caller[c].calls).todo = <<>>
    BY <1>1 DEF IdleCaller, CallerStates
  <2>2. \/ caller' = [caller EXCEPT ![c] = IdleCaller(caller[c].calls)]
        \/ caller' = [caller EXCEPT ![c] = [caller[c] EXCEPT !.pc = "lock"]]
    BY DEF TakeSender
  <2> HIDE DEF IdleCaller
  <2>3. \/ /\ caller'[c] = IdleCaller(caller[c].calls)
           /\ caller' = [caller EXCEPT ![c] = IdleCaller(caller[c].calls)]
        \/ /\ caller'[c] = [caller[c] EXCEPT !.pc = "lock"]
           /\ caller' = [caller EXCEPT ![c] = [caller[c] EXCEPT !.pc = "lock"]]
    BY <2>2, Types
  <2> QED
    BY <2>1, <2>3, Types
<1>3. TypeOK' /\ WorkersHoldTasks' /\ TasksHavePlaces' /\ ExitIsLast'
  BY <1>1, <1>2, Types, CallerFrame
<1>4. HandlesAccounted'
  BY <1>1, <1>2 DEF IInv, HandlesAccounted, callerUnchanged
<1> QED
  BY <1>3, <1>4 DEF IInv

\* The first to lock takes every handle, whoever comes later finds none.
LEMMA LockHandlesKeeps ==
  ASSUME IInv, NEW c \in Callers, LockHandles(c)
  PROVE  IInv'
<1>1. /\ UNCHANGED <<stopping, open, detached, callerUnchanged>>
      /\ stopping \in BOOLEAN /\ open \in BOOLEAN
      /\ joiner = "none" /\ joiner' = c /\ handles' = <<>>
      /\ caller[c].pc = "lock" /\ caller[c] \in CallerStates
  BY Types DEF LockHandles, IInv, TypeOK
<1>0. handles \in Seq(WorkerSet)
  <2>1. <<>> \in Seq(WorkerSet)
    OBVIOUS
  <2> QED
    BY <2>1, Types, Constants
<1>2. /\ caller' \in [Callers -> CallerStates]
      /\ caller'[c].pc = "join" /\ caller'[c].todo = handles
      /\ \A d \in Callers : d # c => caller'[d] = caller[d]
  BY <1>0, <1>1, Types DEF LockHandles, CallerStates
<1>3. TypeOK' /\ WorkersHoldTasks' /\ TasksHavePlaces' /\ ExitIsLast'
  BY <1>1, <1>2, Types, CallerFrame
<1>4. ASSUME NEW w \in WorkerSet
      PROVE  \/ w \in detached \/ worker[w].pc = "exited"
             \/ \E i \in DOMAIN handles : handles[i] = w
  <2>1. CASE handles = Workers
    BY <2>1 DEF WorkerSet
  <2>2. CASE handles = <<>>
    BY <2>2, <1>1, Constants DEF IInv, HandlesAccounted
  <2> QED
    BY <2>1, <2>2, Types
<1>5. HandlesAccounted'
  <2>1. ASSUME NEW d \in Callers
        PROVE  /\ caller'[d].pc = "join" <=> joiner' = d
               /\ caller'[d].pc # "join" => caller'[d].todo = <<>>
    BY <1>1, <1>2, Constants DEF IInv, HandlesAccounted
  <2> QED
    BY <1>1, <1>2, <1>4, <2>1 DEF HandlesAccounted, callerUnchanged
<1> QED
  BY <1>3, <1>5 DEF IInv

\* A handle leaves the list for a worker that has ended or is detached.
LEMMA JoinOneKeeps ==
  ASSUME IInv, NEW c \in Callers, JoinOne(c)
  PROVE  IInv'
<1> DEFINE todo == caller[c].todo
           w == Head(todo)
<1>1. /\ UNCHANGED <<stopping, open, joiner, handles, callerUnchanged>>
      /\ stopping \in BOOLEAN /\ open \in BOOLEAN
      /\ caller[c].pc = "join" /\ caller[c] \in CallerStates
      /\ todo \in Seq(WorkerSet) /\ todo # <<>>
      /\ caller' = [caller EXCEPT ![c].todo = Tail(@)]
  BY Types, CallerTypes DEF JoinOne, IInv, TypeOK
<1>2. /\ w \in WorkerSet /\ Tail(todo) \in Seq(WorkerSet)
      /\ \A i \in DOMAIN todo :
            todo[i] = w \/ \E j \in DOMAIN Tail(todo) : Tail(todo)[j] = todo[i]
  <2>1. /\ DOMAIN todo = 1 .. Len(todo) /\ Len(todo) \in Nat /\ Len(todo) # 0
        /\ w = todo[1] /\ Tail(todo) \in Seq(WorkerSet)
        /\ DOMAIN Tail(todo) = 1 .. Len(todo) - 1
        /\ \A j \in 1 .. Len(todo) - 1 : Tail(todo)[j] = todo[j + 1]
    BY <1>1
  <2>2. 1 \in DOMAIN todo /\ w \in WorkerSet
    BY <2>1, <1>1
  <2>3. ASSUME NEW i \in DOMAIN todo
        PROVE  todo[i] = w \/ \E j \in DOMAIN Tail(todo) : Tail(todo)[j] = todo[i]
    <3>1. CASE i = 1
      BY <3>1, <2>1
    <3>2. CASE i # 1
      <4>1. i - 1 \in 1 .. Len(todo) - 1 /\ (i - 1) + 1 = i
        BY <3>2, <2>1
      <4> QED
        BY <4>1, <2>1
    <3> QED
      BY <3>1, <3>2
  <2> QED
    BY <2>1, <2>2, <2>3
<1>3. /\ caller' \in [Callers -> CallerStates]
      /\ caller'[c].pc = "join" /\ caller'[c].todo = Tail(todo)
      /\ \A d \in Callers : d # c => caller'[d] = caller[d]
  BY <1>1, <1>2, Types DEF CallerStates
<1>4. /\ detached' \subseteq WorkerSet /\ detached \subseteq detached'
      /\ w \in detached' \/ worker[w].pc = "exited"
  BY <1>2, Types DEF JoinOne
<1>5. TypeOK' /\ WorkersHoldTasks' /\ TasksHavePlaces' /\ ExitIsLast'
  BY <1>1, <1>3, <1>4, Types, CallerFrame
<1>6. HandlesAccounted'
  <2>1. ASSUME NEW d \in Callers
        PROVE  /\ caller'[d].pc = "join" <=> joiner' = d
               /\ caller'[d].pc # "join" => caller'[d].todo = <<>>
    BY <1>1, <1>3 DEF IInv, HandlesAccounted
  <2>2. joiner = c
    BY <1>1 DEF IInv, HandlesAccounted
  <2> HIDE DEF w
  <2>3. ASSUME handles' = <<>>, NEW v \in WorkerSet
        PROVE  \/ v \in detached' \/ worker'[v].pc = "exited"
               \/ \E j \in DOMAIN caller'[c].todo : caller'[c].todo[j] = v
    <3>1. \/ v \in detached \/ worker[v].pc = "exited"
          \/ \E i \in DOMAIN todo : todo[i] = v
      BY <1>1, <2>2, <2>3 DEF IInv, HandlesAccounted
    <3> QED
      BY <1>1, <1>2, <1>3, <1>4, <3>1 DEF callerUnchanged
  <2> QED
    BY <1>1, <1>3, <2>1, <2>2, <2>3 DEF HandlesAccounted
<1> QED
  BY <1>5, <1>6 DEF IInv

\* A caller returns from the shutdown.
LEMMA ShutdownReturnsKeeps ==
  ASSUME IInv, NEW c \in Callers, ShutdownReturns(c)
  PROVE  IInv'
<1>1. /\ UNCHANGED <<stopping, open, handles, detached, callerUnchanged>>
      /\ stopping \in BOOLEAN /\ open \in BOOLEAN
      /\ caller[c].pc = "join" /\ caller[c].todo = <<>> /\ joiner' = "none"
      /\ caller' = [caller EXCEPT ![c] = IdleCaller(caller[c].calls)]
      /\ caller[c].calls \in 0 .. MaxCalls
  BY Types, CallerTypes DEF ShutdownReturns, IInv, TypeOK
<1>2. /\ IdleCaller(caller[c].calls) \in CallerStates
      /\ IdleCaller(caller[c].calls).pc = "idle" /\ IdleCaller(caller[c].calls).todo = <<>>
  BY <1>1 DEF IdleCaller, CallerStates
<1>3. /\ caller' \in [Callers -> CallerStates]
      /\ caller'[c].pc = "idle" /\ caller'[c].todo = <<>>
      /\ \A d \in Callers : d # c => caller'[d] = caller[d]
  BY <1>1, <1>2, Types
<1>4. TypeOK' /\ WorkersHoldTasks' /\ TasksHavePlaces' /\ ExitIsLast'
  BY <1>1, <1>3, Types, CallerFrame
<1>5. HandlesAccounted'
  <2>1. joiner = c
    BY <1>1 DEF IInv, HandlesAccounted
  <2>2. ASSUME NEW d \in Callers
        PROVE  /\ caller'[d].pc = "join" <=> joiner' = d
               /\ caller'[d].pc # "join" => caller'[d].todo = <<>>
    BY <1>1, <1>3, <2>1, Constants DEF IInv, HandlesAccounted
  <2>3. ASSUME handles' = <<>>, NEW v \in WorkerSet
        PROVE  v \in detached' \/ worker'[v].pc = "exited"
    BY <1>1, <2>1, <2>3 DEF IInv, HandlesAccounted, callerUnchanged
  <2> QED
    BY <1>3, <2>2, <2>3 DEF HandlesAccounted
<1> QED
  BY <1>4, <1>5 DEF IInv

-----------------------------------------------------------------------------
(* The theorems *)

\* A new executor: no task, every worker waiting.
LEMMA InitEstablishes == Init => IInv
<1> SUFFICES ASSUME Init PROVE IInv
  OBVIOUS
<1>1. /\ worker \in [WorkerSet -> WorkerStates]
      /\ \A w \in WorkerSet : worker[w].pc = "recv" /\ worker[w].task = NoTask
  BY DEF Init, IdleWorker, WorkerStates
<1>2. /\ caller \in [Callers -> CallerStates]
      /\ \A c \in Callers : caller[c].pc = "idle" /\ caller[c].todo = <<>>
  <2>1. /\ IdleCaller(0) \in CallerStates /\ IdleCaller(MaxCalls) \in CallerStates
        /\ IdleCaller(0).pc = "idle" /\ IdleCaller(0).todo = <<>>
        /\ IdleCaller(MaxCalls).pc = "idle" /\ IdleCaller(MaxCalls).todo = <<>>
    BY Constants DEF IdleCaller, CallerStates
  <2>2. PICK active \in CallerSets :
          caller = [c \in Callers |-> IdleCaller(IF c \in active THEN 0 ELSE MaxCalls)]
    BY DEF Init
  <2>3. ASSUME NEW c \in Callers
        PROVE  caller[c] = IdleCaller(0) \/ caller[c] = IdleCaller(MaxCalls)
    BY <2>2
  <2>4. caller = [c \in Callers |-> caller[c]]
    BY <2>2
  <2> QED
    BY <2>1, <2>3, <2>4
<1>3. TypeOK
  <2>1. /\ queue \in Seq(Tasks) /\ Len(queue) <= QueueCap
        /\ task \in [Tasks -> {"new", "checked", "accepted", "rejected"}]
        /\ cancelled \in [Tasks -> BOOLEAN]
        /\ slot \in [Tasks -> {"empty", "taken"} \cup Outcomes]
        /\ notified \in [Tasks -> 0 .. 1]
    BY Constants DEF Init
  <2>2. /\ stopping \in BOOLEAN /\ open \in BOOLEAN /\ joiner \in Callers \cup {"none"}
        /\ handles \in {Workers, <<>>} /\ detached \subseteq WorkerSet
    BY DEF Init
  <2> QED
    BY <1>1, <1>2, <2>1, <2>2, CallerTypes DEF TypeOK, WorkerStates
<1>4. WorkersHoldTasks /\ ExitIsLast
  BY <1>1 DEF WorkersHoldTasks, ExitIsLast
<1>5. TasksHavePlaces
  <2>1. DOMAIN queue = {} /\ \A t \in Tasks : ~Queued(queue, t)
    BY DEF Init, Queued
  <2>2. \A t \in Tasks : ~Held(worker, t)
    BY <1>1, Constants DEF Held
  <2> QED
    BY <1>1, <2>1, <2>2 DEF Init, TasksHavePlaces
<1>6. HandlesAccounted
  BY <1>2, Constants DEF Init, HandlesAccounted
<1> QED
  BY <1>3, <1>4, <1>5, <1>6 DEF IInv

\* Every step keeps the invariant.
LEMMA NextKeeps == IInv /\ [Next]_vars => IInv'
<1> SUFFICES ASSUME IInv, [Next]_vars PROVE IInv'
  OBVIOUS
<1>1. ASSUME NEW t \in Tasks,
             SubmitChecks(t) \/ SubmitSends(t) \/ Cancel(t) \/ TryTake(t)
      PROVE  IInv'
  BY <1>1, SubmitChecksKeeps, SubmitSendsKeeps, CancelKeeps, TryTakeKeeps
<1>2. ASSUME NEW w \in WorkerSet, WorkerStep(w) \/ OperationEnds(w)
      PROVE  IInv'
  BY <1>2, ReceiveKeeps, WorkKeeps, PublishKeeps, NotifyKeeps DEF WorkerStep
<1>3. ASSUME NEW c \in Callers,
             \/ \E call \in {"shutdown", "join", "until"} : BeginShutdown(c, call)
             \/ CallerStep(c)
      PROVE  IInv'
  BY <1>3, BeginShutdownKeeps, TakeSenderKeeps, LockHandlesKeeps, JoinOneKeeps,
     ShutdownReturnsKeeps DEF CallerStep
<1>4. CASE UNCHANGED vars
  BY <1>4 DEF vars, IInv, TypeOK, WorkersHoldTasks, TasksHavePlaces, ExitIsLast,
              HandlesAccounted
<1> QED
  BY <1>1, <1>2, <1>3, <1>4 DEF Next

\* The inductive invariant holds of every behaviour.
THEOREM Invariance == Spec => []IInv
<1> QED
  BY InitEstablishes, NextKeeps, PTL DEF Spec

\* For every set of tasks, workers and callers and every capacity: the notifier
\* runs after the slot is filled, and once every worker was joined every
\* accepted task has its result and its owner was told (run_task,
\* shutdown_and_join).
THEOREM ExecutorCorrect == Spec => []ExecutorInv
<1>1. ASSUME IInv PROVE NotifierFollowsResult
  BY <1>1, Types DEF IInv, TasksHavePlaces, NotifierFollowsResult
<1>2. ASSUME IInv PROVE NothingPendingAfterJoin
  <2> SUFFICES ASSUME handles = <<>>, joiner = "none", detached = {},
                      NEW t \in Tasks, task[t] = "accepted"
               PROVE  slot[t] # "empty" /\ notified[t] = 1
    BY DEF NothingPendingAfterJoin
  <2>1. \A w \in WorkerSet : worker[w].pc = "exited" /\ worker[w].task = NoTask
    BY <1>2, Constants DEF IInv, HandlesAccounted, WorkersHoldTasks
  <2>2. queue = <<>>
    BY <1>2, <2>1, Constants DEF IInv, ExitIsLast
  <2>3. ~Queued(queue, t)
    BY <2>2 DEF Queued
  <2>4. ~Held(worker, t)
    BY <2>1, Constants DEF Held
  <2> QED
    BY <1>2, <2>3, <2>4 DEF IInv, TasksHavePlaces
<1>3. IInv => ExecutorInv
  BY <1>1, <1>2 DEF IInv, ExecutorInv
<1> QED
  BY <1>3, Invariance, PTL

\* An accepted task without an answer is in the queue of an executor that still
\* runs, or in the hands of a worker: its result cannot be lost (try_take).
THEOREM NoResultIsLost == Spec => []ResultIsNeverLost
<1>1. ASSUME IInv PROVE ResultIsNeverLost
  <2> SUFFICES ASSUME NEW t \in Tasks, task[t] = "accepted", slot[t] = "empty"
               PROVE  Alive(t)
    BY DEF ResultIsNeverLost
  <2>1. Queued(queue, t) \/ Held(worker, t)
    BY <1>1 DEF IInv, TasksHavePlaces
  <2>2. CASE Queued(queue, t)
    <3>1. queue # <<>>
      BY <2>2 DEF Queued
    <3>2. \E w \in WorkerSet : worker[w].pc # "exited"
      BY <1>1, <3>1, Constants DEF IInv, ExitIsLast
    <3> QED
      BY <2>2, <3>2 DEF Alive, Queued
  <2> QED
    BY <2>1, <2>2 DEF Alive, Held
<1> QED
  BY <1>1, Invariance, PTL

=============================================================================
