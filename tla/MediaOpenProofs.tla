-------------------------- MODULE MediaOpenProofs ---------------------------
(***************************************************************************)
(* Proofs about MediaOpen: a request lives in one place at a time, between  *)
(* the coordinator, the command stream and the owner, from which OpenInv    *)
(* and CommitFindsItsIntent follow, and SwitchesOnlyWhileAuthorized and     *)
(* OneTerminal as properties of the steps.                                  *)
(***************************************************************************)
EXTENDS MediaOpen, TLAPS, SequenceTheorems

-----------------------------------------------------------------------------
(* The inductive invariant *)

Dispatched == {"PlayerStaging", "ReadyToCommit", "DispatchPending", "Enqueued"}
Registering == {"supersede", "register", "accept"}
Controls == {"Authorize", "Cancel"}

\* The coordinator waits for the player with its request o.  A request whose end
\* it has reported may be dispatched once more, by a cancel that comes too late.
Waits(o) == o.phase \in Dispatched /\ o.terminal = "none"

\* A control c of the request the coordinator waits with, and one that is late.
Live(c, o) == c.op \in Controls /\ c.req = o.req /\ o.terminal = "none"
Late(c, o, t) ==
    /\ c.op = "Cancel" /\ c.req # 0 /\ t[c.req] # "none"
    /\ c.req = o.req => o.terminal # "none"

HasStage(q) == \E i \in DOMAIN q : q[i].op = "Stage"
HasControl(q, o) == \E i \in DOMAIN q : Live(q[i], o)

\* What the coordinator o waits for while a command op of its request is on the way.
Awaits(o, op) ==
    o.pending = IF op = "Authorize" THEN "Authorization" ELSE "Cancellation"

\* The commands of an install are those of the coordinator's request o, each
\* once and the stage before its control; only a position command and a late
\* cancel may outlive their request, whose record in t is then there.
StreamOK(q, o, t) ==
    /\ \A i \in DOMAIN q :
          /\ q[i].op = "Stage" => q[i].req = o.req
          /\ q[i].op \in Controls =>
                (Live(q[i], o) /\ Awaits(o, q[i].op)) \/ Late(q[i], o, t)
          /\ q[i].op = "Prepare" =>
                /\ q[i].req # 0
                /\ IF q[i].req = o.req
                   THEN o.pos \in {"PreparationDispatched", "ReadyToCommit"}
                   ELSE t[q[i].req] # "none"
    /\ \A i, j \in DOMAIN q :
          /\ q[i].op = "Stage" /\ q[j].op = "Stage" => i = j
          /\ Live(q[i], o) /\ Live(q[j], o) => i = j
          /\ q[i].op = "Stage" /\ Live(q[j], o) => i < j

LateOutcomes == {"AlreadyTerminal", "StaleRequest"}

\* The coordinator has a request at the player exactly while it waits for it,
\* and a control under way exactly in the phases after its dispatch.
CoordinatorOK ==
    /\ open.phase \in {"Idle", "Preparing", "Prepared"} =>
          open.req = 0 /\ open.terminal = "none"
    /\ open.phase \in Dispatched => open.req # 0
    /\ open.phase \in Dispatched /\ open.terminal # "none" =>
          open.phase = "DispatchPending" /\ open.pending = "Cancellation"
    /\ open.pending # "none" <=> open.phase \in {"DispatchPending", "Enqueued"}
    /\ open.phase = "Enqueued" => open.pending = "Authorization"
    /\ open.phase \in {"Failed", "Installed"} => open.terminal # "none"
    /\ open.terminal # "none" /\ open.req # 0 =>
          /\ terminal[open.req] # "none"
          /\ replies[open.req] \in {"none", "taken"} \cup LateOutcomes
    /\ open.req <= allocated /\ known <= allocated
    /\ open.req # 0 => known # open.req
    /\ ui \in {"send", "rollback"} =>
          open.phase = "Prepared" /\ allocated # 0 /\ known # allocated
                                  /\ staged.req = allocated

\* A request that was not sent to the player has left no trace.
UnsentIsFresh ==
    \A r \in Requests :
        r > allocated \/ (r = allocated /\ ui \in {"send", "rollback"}) =>
            /\ terminal[r] = "none" /\ phases[r] = << >>
            /\ replies[r] = "none" /\ committed[r] = 0

\* The request waits to become the candidate: nothing of it has been published.
NotYetActive ==
    /\ open.phase = "PlayerStaging" \/ open.pending = "Cancellation"
    /\ Waits(open)
    /\ open.pos = IF payload[open.req].same THEN "WaitingForPlayerReady"
                  ELSE "NotRequired"
    /\ phases[open.req] = << >>
    /\ terminal[open.req] = "none"
    /\ active = NoActive
    /\ staged.req = open.req

\* How far the candidate is, by what the owner published (ps), the coordinator
\* has taken and it has asked for since.
CandidateStages(state, pos, ps, same) ==
    \/ /\ state = "Accepted" /\ ps = << >>
       /\ pos = IF same THEN "WaitingForPlayerReady" ELSE "NotRequired"
    \/ /\ state = "ReadyForPosition" /\ same
       /\ pos = "WaitingForPlayerReady" /\ ps = <<"ReadyForPosition">>
    \/ /\ state = "ReadyForPosition" /\ same
       /\ pos \in {"ReadyForPosition", "PreparationDispatched"} /\ ps = << >>
    \/ /\ state = "PositionPreparing" /\ same
       /\ pos = "PreparationDispatched" /\ ps = << >>
    \/ /\ state = "ReadyToCommit" /\ ps = <<"ReadyToCommit">>
       /\ pos = IF same THEN "PreparationDispatched" ELSE "NotRequired"
    \/ /\ state = "ReadyToCommit" /\ ps = << >>
       /\ pos = IF same THEN "ReadyToCommit" ELSE "NotRequired"

\* The candidate is the coordinator's request, its intent is staged and its
\* end is not published.
CandidateOK ==
    /\ active.req = 0 => active = NoActive
    /\ active.req # 0 =>
          /\ active.req = open.req /\ Waits(open)
          /\ terminal[open.req] = "none" /\ staged.req = open.req
          /\ CandidateStages(active.state, open.pos, phases[open.req],
                             payload[open.req].same)
          /\ \/ open.phase = "PlayerStaging" \/ open.pending = "Cancellation"
             \/ active.state = "ReadyToCommit" /\ phases[open.req] = << >>

\* A request at the player without its record is in one place.
PlaceOK ==
    /\ HasStage(queue) => NotYetActive /\ owner \notin Registering
    /\ owner \in Registering =>
          NotYetActive /\ task.op = "Stage" /\ task.req = open.req
    /\ owner = "preflight" =>
          /\ task.op = "Stage" /\ task.req = active.req
          /\ active.state = "Accepted"
    /\ owner = "commit" =>
          /\ task.op = "Authorize" /\ task.outcome = "AuthorizationAccepted"
          /\ task.req = active.req /\ active.state = "ReadyToCommit"
    /\ owner = "installed" =>
          /\ task.op = "Authorize" /\ task.outcome = "AuthorizationAccepted"
          /\ task.req = open.req /\ terminal[open.req] = "none"
          /\ active = NoActive /\ current = open.req
    /\ Waits(open) /\ terminal[open.req] = "none" =>
          HasStage(queue) \/ owner \in Registering \/ active.req # 0 \/ owner = "installed"
    /\ owner = "forget" =>
          /\ victim # 0 /\ terminal[victim] # "none"
          /\ task.op = "Stage" => task.req = victim

\* The owner is between a control command and its answer.
Handling ==
    owner \in {"commit", "installed", "forget", "reply"} /\ Live(task, open)

\* It is about to answer a late cancel.
LateReply == Late(task, open, terminal) /\ task.outcome \in LateOutcomes

\* An answer x of the owner says what the record t of the request says.
Agree(x, t) ==
    /\ x \in ControlOutcomes \ {"NotReady"}
    /\ t # "none"
    /\ x = "CancellationAccepted" => t = "Cancelled"
    /\ x = "AuthorizationRejectedBeforeCommit" => t = "Failed"
    /\ x = "AuthorizationAccepted" <=> t = "Installed"

\* A control is in the stream, with the owner, or answered, never two of these.
ControlOK ==
    /\ HasControl(queue, open) =>
          /\ Waits(open) /\ replies[open.req] = "none"
          /\ terminal[open.req] # "Installed" /\ ~Handling
    /\ Handling =>
          /\ Awaits(open, task.op) /\ Waits(open) /\ replies[open.req] = "none"
          /\ owner \in {"forget", "reply"} => Agree(task.outcome, terminal[open.req])
    /\ owner \in {"commit", "installed", "forget"} /\ task.op \in Controls => Handling
    /\ owner = "reply" => Handling \/ LateReply
    /\ Waits(open) =>
          /\ terminal[open.req] # "taken"
          /\ replies[open.req] # "none" =>
                open.pending # "none" /\ Agree(replies[open.req], terminal[open.req])
          /\ terminal[open.req] = "Installed" => open.pending = "Authorization"

\* A staged slot s has every revision promised to its request.
Promised(s, xs) ==
    /\ s.req # 0 => s.rev >= 1
    /\ \A i \in DOMAIN xs :
          xs[i].outcome = "AppliedToStaged" /\ xs[i].req = s.req => s.rev >= xs[i].rev

RevisionsOK ==
    /\ Promised(staged, answers)
    /\ staged.req # 0 => committed[staged.req] = 0 /\ staged.req <= allocated
    /\ \A i \in DOMAIN answers :
          /\ answers[i].req <= allocated
          /\ ui \in {"send", "rollback"} => answers[i].req # allocated
    /\ ui \in {"send", "rollback"} =>
          /\ Promised(previous, answers)
          /\ previous.req # 0 => committed[previous.req] = 0 /\ previous.req < allocated

\* An intent that waits for the owner has a wake on the way, or the drain has
\* not looked at its slot yet.
WakeOK ==
    /\ forCurrent.req # 0 => wake \/ ui = "wake" \/ owner = "takeCurrent"
    /\ pending.rev # 0 =>
          wake \/ ui = "wake" \/ owner \in {"takeCurrent", "takeInstalled", "finish"}

\* No receipt of an update is lost, and the one place the owner keeps them in
\* between is empty when it takes the next.
ReceiptsOK ==
    /\ NoReceiptIsLost
    /\ owner # "finish" => taken.waiters = {}

\* The life of a request, from its registration to the taking of its terminal.
LifeOK ==
    /\ StreamOK(queue, open, terminal)
    /\ CoordinatorOK
    /\ UnsentIsFresh
    /\ CandidateOK
    /\ PlaceOK
    /\ ControlOK
    /\ AnswersFollowRecords
    /\ CommitFindsItsIntent

IInv ==
    /\ TypeOK
    /\ LifeOK
    /\ RevisionsOK
    /\ AcceptedRevisionIsCommitted
    /\ WakeOK
    /\ ReceiptsOK


-----------------------------------------------------------------------------
(* The types *)

\* The bounds are numbers, and the slots that stand for nothing are slots.
LEMMA Bounds ==
  /\ MaxRequests \in Nat /\ MaxRevision \in Nat /\ 1 <= MaxRevision
  /\ MaxUpdates \in Nat /\ QueueCap \in Nat /\ MaxBatch \in Nat
  /\ "StartPaused" \in Intents
  /\ NoSlot \in Slot
  /\ NoUpdate \in [rev : 0 .. MaxRevision, intent : Intents,
                   waiters : SUBSET (1 .. MaxUpdates)]
  /\ NoApply \in [req : 0 .. MaxRequests, inst : 0 .. MaxRequests, intent : Intents]
<1>1. MaxRequests \in Nat /\ MaxRevision \in Nat /\ 1 <= MaxRevision /\ MaxUpdates \in Nat
  BY IntentAssumption
<1>2. QueueCap \in Nat /\ MaxBatch \in Nat /\ "StartPaused" \in Intents
  BY IntentAssumption, QueueAssumption
<1>3. 0 \in 0 .. MaxRevision /\ 0 \in 0 .. MaxRequests /\ {} \in SUBSET (1 .. MaxUpdates)
  BY <1>1
<1>4. NoSlot \in Slot
  BY <1>2, <1>3 DEF NoSlot, Slot
<1>5. NoUpdate \in [rev : 0 .. MaxRevision, intent : Intents,
                   waiters : SUBSET (1 .. MaxUpdates)]
  BY <1>2, <1>3 DEF NoUpdate
<1>6. NoApply \in [req : 0 .. MaxRequests, inst : 0 .. MaxRequests, intent : Intents]
  BY <1>2, <1>3 DEF NoApply
<1> QED
  BY <1>1, <1>2, <1>4, <1>5, <1>6

\* The receipts after some of them got an outcome are receipts, as many.
LEMMA PublishTypes ==
  ASSUME IntentTypeOK, NEW ws, NEW x \in Outcomes
  PROVE  /\ Publish(ws, x) \in Seq([req : Requests, rev : Revisions, intent : Intents,
                                    outcome : Outcomes])
         /\ Len(Publish(ws, x)) = Len(answers)
         /\ DOMAIN Publish(ws, x) = DOMAIN answers
         /\ \A i \in DOMAIN answers :
              /\ Publish(ws, x)[i].req = answers[i].req
              /\ Publish(ws, x)[i].rev = answers[i].rev
              /\ Publish(ws, x)[i].outcome \in {answers[i].outcome, x}
<1> DEFINE A == [req : Requests, rev : Revisions, intent : Intents, outcome : Outcomes]
<1>1. answers \in Seq(A)
  BY DEF IntentTypeOK
<1>2. DOMAIN answers = 1 .. Len(answers) /\ Len(answers) \in Nat
  BY <1>1
<1>3. \A i \in DOMAIN answers : answers[i] \in A
  <2> HIDE DEF A
  <2> QED
    BY <1>1, <1>2
<1>4. \A a \in A : [a EXCEPT !.outcome = x] \in A
  <2> TAKE a \in A
  <2>1. [a EXCEPT !.outcome = x] = [req |-> a.req, rev |-> a.rev, intent |-> a.intent, outcome |-> x]
    OBVIOUS
  <2> QED
    BY <2>1
<1>5. \A i \in 1 .. Len(answers) : Publish(ws, x)[i] \in A
  BY <1>2, <1>3, <1>4 DEF Publish
<1>6. DOMAIN Publish(ws, x) = 1 .. Len(answers)
  BY <1>2 DEF Publish
<1>7. Publish(ws, x) \in Seq(A) /\ Len(Publish(ws, x)) = Len(answers)
  <2>1. Publish(ws, x) = [i \in 1 .. Len(answers) |-> Publish(ws, x)[i]]
    BY <1>2 DEF Publish
  <2> HIDE DEF A
  <2>2. [i \in 1 .. Len(answers) |-> Publish(ws, x)[i]] \in [1 .. Len(answers) -> A]
    BY <1>5
  <2> QED
    BY <2>1, <2>2, <1>2, <1>6, LenProperties, SeqDef
<1>8. \A i \in DOMAIN answers :
          /\ Publish(ws, x)[i].req = answers[i].req
          /\ Publish(ws, x)[i].rev = answers[i].rev
          /\ Publish(ws, x)[i].outcome \in {answers[i].outcome, x}
  BY <1>3 DEF Publish
<1> QED
  BY <1>2, <1>6, <1>7, <1>8

\* What a receipt with an answer is, at the end of the receipts so far.
LEMMA AnswerTypes ==
  ASSUME NEW xs, NEW u, NEW x \in Outcomes,
         u.req \in Requests, u.rev \in Revisions, u.intent \in Intents,
         xs \in Seq([req : Requests, rev : Revisions, intent : Intents,
                     outcome : Outcomes])
  PROVE  /\ Append(xs, Answer(u, x)) \in
              Seq([req : Requests, rev : Revisions, intent : Intents,
                   outcome : Outcomes])
         /\ Len(Append(xs, Answer(u, x))) = Len(xs) + 1 /\ Len(xs) \in Nat
         /\ DOMAIN xs = 1 .. Len(xs)
         /\ DOMAIN Append(xs, Answer(u, x)) = 1 .. Len(xs) + 1
         /\ \A i \in DOMAIN xs : Append(xs, Answer(u, x))[i] = xs[i]
         /\ Append(xs, Answer(u, x))[Len(xs) + 1] = Answer(u, x)
<1> DEFINE A == [req : Requests, rev : Revisions, intent : Intents, outcome : Outcomes]
           a == Answer(u, x)
<1>1. a \in A
  BY DEF Answer
<1> HIDE DEF A, a
<1>2. xs \in Seq(A)
  BY DEF A
<1>3. Len(xs) \in Nat /\ DOMAIN xs = 1 .. Len(xs)
  BY <1>2, LenProperties
<1>4. /\ Append(xs, a) \in Seq(A) /\ Len(Append(xs, a)) = Len(xs) + 1
      /\ DOMAIN Append(xs, a) = 1 .. Len(xs) + 1
      /\ \A i \in 1 .. Len(xs) : Append(xs, a)[i] = xs[i]
      /\ Append(xs, a)[Len(xs) + 1] = a
  <2>1. /\ Append(xs, a) \in Seq(A) /\ Len(Append(xs, a)) = Len(xs) + 1
        /\ \A i \in 1 .. Len(xs) : Append(xs, a)[i] = xs[i]
        /\ Append(xs, a)[Len(xs) + 1] = a
    BY <1>1, <1>2, AppendProperties
  <2>2. DOMAIN Append(xs, a) = 1 .. Len(xs) + 1
    BY <2>1, LenProperties
  <2> QED
    BY <2>1, <2>2
<1> QED
  BY <1>3, <1>4 DEF A, a

\* The methods of PlaybackIntentControl keep its types: the staged slot.
LEMMA SlotTypes ==
  ASSUME IntentTypeOK, NEW r \in 0 .. MaxRequests, NEW s \in Slot,
         NEW p, p.rev = 1, p.intent \in Intents
  PROVE  /\ BeginStagedRegistration(r, p) => IntentTypeOK'
         /\ RollbackStagedRegistration(r, s) => IntentTypeOK'
         /\ RegisterStagedRequest(r, p) => IntentTypeOK'
         /\ ForgetStagedRequest(r) => IntentTypeOK'
         /\ CommitStagedRequest(r) => IntentTypeOK'
<1>1. 1 \in 0 .. MaxRevision
  BY Bounds
<1>2. [req |-> r, rev |-> p.rev, intent |-> p.intent] \in Slot
  <2>1. p.rev \in 0 .. MaxRevision
    BY <1>1
  <2> QED
    BY <2>1 DEF Slot
<1>3. NoSlot \in Slot
  BY Bounds
<1>4. BeginStagedRegistration(r, p) => IntentTypeOK'
  BY <1>2 DEF BeginStagedRegistration, IntentTypeOK
<1>5. RollbackStagedRegistration(r, s) => IntentTypeOK'
  BY DEF RollbackStagedRegistration, IntentTypeOK
<1>6. RegisterStagedRequest(r, p) => IntentTypeOK'
  BY <1>2 DEF RegisterStagedRequest, IntentTypeOK
<1>7. ForgetStagedRequest(r) => IntentTypeOK'
  BY <1>3 DEF ForgetStagedRequest, IntentTypeOK
<1>8. CommitStagedRequest(r) => IntentTypeOK'
  <2> SUFFICES ASSUME CommitStagedRequest(r) PROVE IntentTypeOK'
    OBVIOUS
  <2>1. "StaleInstance" \in Outcomes
    BY DEF Outcomes
  <2>2. /\ answers' \in Seq([req : Requests, rev : Revisions, intent : Intents,
                             outcome : Outcomes])
        /\ Len(answers') <= MaxUpdates
    <3>1. answers' = Publish(pending.waiters, "StaleInstance")
      BY DEF CommitStagedRequest
    <3> QED
      BY <3>1, <2>1, PublishTypes DEF IntentTypeOK
  <2>3. installed.req \in 0 .. MaxRequests
    BY DEF IntentTypeOK, Slot
  <2>4. staged' \in Slot /\ installed' \in Slot /\ staleInstalled' \in 0 .. MaxRequests
    BY <1>3, <2>3 DEF CommitStagedRequest, IntentTypeOK
  <2>5. /\ pending' \in [rev : 0 .. MaxRevision, intent : Intents,
                         waiters : SUBSET (1 .. MaxUpdates)]
        /\ forCurrent' \in [req : 0 .. MaxRequests, inst : 0 .. MaxRequests, intent : Intents]
    BY Bounds DEF CommitStagedRequest, IntentTypeOK
  <2> QED
    BY <2>2, <2>4, <2>5 DEF IntentTypeOK
<1> QED
  BY <1>4, <1>5, <1>6, <1>7, <1>8

\* The methods of PlaybackIntentControl keep its types: the player owner's side.
LEMMA DrainTypes ==
  ASSUME IntentTypeOK
  PROVE  /\ TakePendingCurrent => IntentTypeOK'
         /\ TakePendingInstalled => IntentTypeOK'
         /\ \A t \in [rev : 0 .. MaxRevision, intent : Intents,
                      waiters : SUBSET (1 .. MaxUpdates)],
               n \in 0 .. MaxRequests, b \in BOOLEAN :
               FinishInstalledUpdate(t, n, b) => IntentTypeOK'
<1>1. TakePendingCurrent => IntentTypeOK'
  BY Bounds DEF TakePendingCurrent, IntentTypeOK
<1>2. TakePendingInstalled => IntentTypeOK'
  BY Bounds DEF TakePendingInstalled, IntentTypeOK
<1>3. ASSUME NEW t \in [rev : 0 .. MaxRevision, intent : Intents,
                        waiters : SUBSET (1 .. MaxUpdates)],
             NEW n \in 0 .. MaxRequests, NEW b \in BOOLEAN,
             FinishInstalledUpdate(t, n, b)
      PROVE  IntentTypeOK'
  <2>1. /\ answers' \in Seq([req : Requests, rev : Revisions, intent : Intents,
                             outcome : Outcomes])
        /\ Len(answers') <= MaxUpdates
    <3>1. PICK x \in {"AppliedToInstalled", "StaleInstance"} : answers' = Publish(t.waiters, x)
      BY <1>3 DEF FinishInstalledUpdate
    <3>2. x \in Outcomes
      BY DEF Outcomes
    <3> QED
      BY <3>1, <3>2, PublishTypes DEF IntentTypeOK
  <2>2. installed' \in Slot
    <3>1. installed \in Slot /\ t.rev \in 0 .. MaxRevision /\ t.intent \in Intents
      BY DEF IntentTypeOK
    <3>2. [installed EXCEPT !.rev = t.rev, !.intent = t.intent] \in Slot
      BY <3>1 DEF Slot
    <3> QED
      BY <1>3, <3>1, <3>2 DEF FinishInstalledUpdate
  <2> QED
    BY <1>3, <2>1, <2>2 DEF FinishInstalledUpdate, IntentTypeOK
<1> QED
  BY <1>1, <1>2, <1>3

\* The methods of PlaybackIntentControl keep its types: submit_update.
LEMMA SubmitTypes ==
  ASSUME IntentTypeOK, NEW r \in Requests, NEW v \in Revisions, NEW n \in Intents,
         NEW w \in BOOLEAN,
         SubmitUpdate([req |-> r, rev |-> v, intent |-> n], w)
  PROVE  IntentTypeOK'
<1> DEFINE u == [req |-> r, rev |-> v, intent |-> n]
           A == [req : Requests, rev : Revisions, intent : Intents, outcome : Outcomes]
<1>1. /\ r \in 0 .. MaxRequests /\ v \in 0 .. MaxRevision
      /\ u.req = r /\ u.rev = v /\ u.intent = n
  BY Bounds DEF Requests, Revisions
<1>2. Len(answers) < MaxUpdates
  BY DEF SubmitUpdate
<1>3. answers \in Seq(A) /\ Len(answers) \in Nat /\ Len(answers) + 1 \in 1 .. MaxUpdates
      /\ Len(answers) + 1 <= MaxUpdates
  <2>1. answers \in Seq(A)
    BY DEF IntentTypeOK
  <2>2. Len(answers) \in Nat
    BY <2>1, LenProperties
  <2> QED
    BY <2>1, <2>2, <1>2, Bounds
<1>4. \A x \in Outcomes : /\ Append(answers, Answer(u, x)) \in Seq(A)
                          /\ Len(Append(answers, Answer(u, x))) = Len(answers) + 1
  <2>1. u.req \in Requests /\ u.rev \in Revisions /\ u.intent \in Intents
    BY <1>1
  <2> HIDE DEF u
  <2> QED
    BY <2>1, <1>3, AnswerTypes
<1>5. \A x \in Outcomes :
        /\ Append(Publish(pending.waiters, "StaleRevision"), Answer(u, x)) \in Seq(A)
        /\ Len(Append(Publish(pending.waiters, "StaleRevision"), Answer(u, x))) = Len(answers) + 1
  <2>1. "StaleRevision" \in Outcomes
    BY DEF Outcomes
  <2>2. /\ Publish(pending.waiters, "StaleRevision") \in Seq(A)
        /\ Len(Publish(pending.waiters, "StaleRevision")) = Len(answers)
    BY <2>1, PublishTypes
  <2>3. /\ Publish(pending.waiters, "StaleRevision") \in
             Seq([req : Requests, rev : Revisions, intent : Intents, outcome : Outcomes])
    BY <2>2
  <2>5. u.req \in Requests /\ u.rev \in Revisions /\ u.intent \in Intents
    BY <1>1
  <2> HIDE DEF A, u
  <2>4. ASSUME NEW x \in Outcomes
        PROVE  /\ Append(Publish(pending.waiters, "StaleRevision"), Answer(u, x)) \in Seq(A)
               /\ Len(Append(Publish(pending.waiters, "StaleRevision"), Answer(u, x)))
                    = Len(Publish(pending.waiters, "StaleRevision")) + 1
    BY <2>3, <2>5, AnswerTypes DEF A
  <2> QED
    BY <2>2, <2>4
<1>6. {"AppliedToStaged", "StaleRevision", "AppliedToInstalled", "none", "StaleInstance",
       "UnknownOrSuperseded"} \subseteq Outcomes
  BY DEF Outcomes
<1> HIDE DEF A
<1>7. CASE SubmitToStaged(u, w)
  <2>1. PICK x \in Outcomes : answers' = Append(answers, Answer(u, x))
    BY <1>6, <1>7 DEF SubmitToStaged
  <2>2. answers' \in Seq(A) /\ Len(answers') <= MaxUpdates
    BY <2>1, <1>3, <1>4
  <2>3. staged' \in Slot
    <3>1. staged \in Slot /\ [staged EXCEPT !.rev = u.rev, !.intent = u.intent] \in Slot
      BY <1>1 DEF IntentTypeOK, Slot
    <3> QED
      BY <3>1, <1>7 DEF SubmitToStaged
  <2>4. forCurrent' \in [req : 0 .. MaxRequests, inst : 0 .. MaxRequests, intent : Intents]
    <3>1. [req |-> u.req, inst |-> installed.req, intent |-> u.intent]
            \in [req : 0 .. MaxRequests, inst : 0 .. MaxRequests, intent : Intents]
      BY <1>1 DEF IntentTypeOK, Slot
    <3> QED
      BY <3>1, <1>7 DEF SubmitToStaged, IntentTypeOK
  <2> QED
    BY <2>2, <2>3, <2>4, <1>7 DEF SubmitToStaged, IntentTypeOK, A
<1>8. CASE SubmitToInstalled(u, w)
  <2>1. PICK x \in Outcomes :
           \/ answers' = Append(answers, Answer(u, x))
           \/ answers' = Append(Publish(pending.waiters, "StaleRevision"), Answer(u, x))
    BY <1>6, <1>8 DEF SubmitToInstalled
  <2>2. answers' \in Seq(A) /\ Len(answers') <= MaxUpdates
    BY <2>1, <1>3, <1>4, <1>5
  <2>3. pending' \in [rev : 0 .. MaxRevision, intent : Intents,
                      waiters : SUBSET (1 .. MaxUpdates)]
    <3>1. {Len(answers) + 1} \in SUBSET (1 .. MaxUpdates)
      BY <1>3
    <3>2. pending.waiters \cup {Len(answers) + 1} \in SUBSET (1 .. MaxUpdates)
      BY <1>3 DEF IntentTypeOK
    <3>3. [pending EXCEPT !.waiters = pending.waiters \cup {Len(answers) + 1}]
            \in [rev : 0 .. MaxRevision, intent : Intents, waiters : SUBSET (1 .. MaxUpdates)]
      BY <3>2 DEF IntentTypeOK
    <3>4. [rev |-> u.rev, intent |-> u.intent, waiters |-> {Len(answers) + 1}]
            \in [rev : 0 .. MaxRevision, intent : Intents, waiters : SUBSET (1 .. MaxUpdates)]
      BY <3>1, <1>1
    <3> QED
      BY <3>3, <3>4, <1>8 DEF SubmitToInstalled, IntentTypeOK
  <2> QED
    BY <2>2, <2>3, <1>8 DEF SubmitToInstalled, IntentTypeOK, A
<1>9. CASE SubmitToNobody(u, w)
  <2>1. PICK x \in Outcomes : answers' = Append(answers, Answer(u, x))
    BY <1>6, <1>9 DEF SubmitToNobody
  <2>2. answers' \in Seq(A) /\ Len(answers') <= MaxUpdates
    BY <2>1, <1>3, <1>4
  <2> QED
    BY <2>2, <1>9 DEF SubmitToNobody, IntentTypeOK, A
<1> QED
  BY <1>7, <1>8, <1>9 DEF SubmitUpdate

\* A step takes the head of the stream, in the form the provers use it.
LEMMA HeadFacts ==
  ASSUME PlayerTypeOK, queue # << >>
  PROVE  /\ Head(queue) \in Command /\ Tail(queue) \in Seq(Command)
         /\ Len(Tail(queue)) = Len(queue) - 1 /\ Len(queue) \in Nat /\ Len(queue) <= QueueCap
         /\ DOMAIN queue = 1 .. Len(queue) /\ 1 \in DOMAIN queue /\ queue[1] = Head(queue)
         /\ DOMAIN Tail(queue) = 1 .. Len(queue) - 1
         /\ \A i \in DOMAIN Tail(queue) : Tail(queue)[i] = queue[i + 1] /\ i + 1 \in DOMAIN queue
<1>1. queue \in Seq(Command) /\ Len(queue) <= QueueCap
  BY DEF PlayerTypeOK
<1> QED
  BY <1>1

\* The owner's next task is one.
LEMMA BeginTypes ==
  ASSUME PlayerTypeOK, NEW x \in ControlOutcomes \cup {"none"}, Begin(x)
  PROVE  /\ queue' \in Seq(Command) /\ Len(queue') <= QueueCap
         /\ handled' \in 0 .. MaxBatch
         /\ task' \in [op : Ops \cup {"none", "Tick"}, req : 0 .. MaxRequests,
                       outcome : ControlOutcomes \cup {"none"}]
<1>1. queue # << >>
  BY DEF Begin
<1>2. /\ Head(queue) \in Command /\ Tail(queue) \in Seq(Command)
      /\ Len(Tail(queue)) = Len(queue) - 1 /\ Len(queue) \in Nat /\ Len(queue) <= QueueCap
  BY <1>1, HeadFacts
<1>3. Head(queue).op \in Ops /\ Head(queue).req \in 0 .. MaxRequests
  BY <1>2 DEF Command
<1>4. task' \in [op : Ops \cup {"none", "Tick"}, req : 0 .. MaxRequests,
                 outcome : ControlOutcomes \cup {"none"}]
  BY <1>3 DEF Begin
<1>5. handled' \in 0 .. MaxBatch
  BY Bounds DEF Begin, PlayerTypeOK
<1>6. queue' \in Seq(Command) /\ Len(queue') <= QueueCap
  BY <1>2, Bounds DEF Begin
<1> QED
  BY <1>4, <1>5, <1>6

\* The end of a request before its commit, and the publications, keep the types.
LEMMA ReceiptTypes ==
  ASSUME PlayerTypeOK, NEW r \in 0 .. MaxRequests
  PROVE  /\ \A x \in {"Installed", "Failed", "Cancelled", "taken"} :
               PublishTerminal(r, x) =>
                 terminal' \in [Requests -> {"none", "Installed", "Failed", "Cancelled", "taken"}]
         /\ \A x \in {"ReadyForPosition", "ReadyToCommit"} :
               PublishPhase(r, x) =>
                 phases' \in [Requests -> Seq({"ReadyForPosition", "ReadyToCommit"})]
         /\ \A x \in {"Failed", "Cancelled"} :
               EndBeforeCommit(r, x) =>
                 /\ terminal' \in [Requests -> {"none", "Installed", "Failed", "Cancelled", "taken"}]
                 /\ active' \in [req : 0 .. MaxRequests,
                                 state : {"none", "Accepted", "ReadyForPosition",
                                          "PositionPreparing", "ReadyToCommit"}]
                 /\ victim' \in 0 .. MaxRequests /\ owner' \in OwnerPC
<1>1. \A x \in {"Installed", "Failed", "Cancelled", "taken"} :
               PublishTerminal(r, x) =>
                 terminal' \in [Requests -> {"none", "Installed", "Failed", "Cancelled", "taken"}]
  <2> DEFINE T == {"none", "Installed", "Failed", "Cancelled", "taken"}
  <2>1. terminal \in [Requests -> T]
    BY DEF PlayerTypeOK
  <2>2. \A x \in {"Installed", "Failed", "Cancelled", "taken"} : x \in T
    OBVIOUS
  <2> HIDE DEF T
  <2>3. \A x \in T : [terminal EXCEPT ![r] = x] \in [Requests -> T]
    BY <2>1
  <2> QED
    BY <2>2, <2>3 DEF PublishTerminal, T
<1>2. ASSUME NEW x \in {"ReadyForPosition", "ReadyToCommit"}, PublishPhase(r, x)
      PROVE  phases' \in [Requests -> Seq({"ReadyForPosition", "ReadyToCommit"})]
  <2>1. phases \in [Requests -> Seq({"ReadyForPosition", "ReadyToCommit"})]
    BY DEF PlayerTypeOK
  <2>2. \A q \in Seq({"ReadyForPosition", "ReadyToCommit"}) :
          Append(q, x) \in Seq({"ReadyForPosition", "ReadyToCommit"})
    OBVIOUS
  <2> QED
    BY <1>2, <2>1, <2>2 DEF PublishPhase
<1>3. ASSUME NEW x \in {"Failed", "Cancelled"}, EndBeforeCommit(r, x)
      PROVE  /\ terminal' \in [Requests -> {"none", "Installed", "Failed", "Cancelled", "taken"}]
             /\ active' \in [req : 0 .. MaxRequests,
                             state : {"none", "Accepted", "ReadyForPosition",
                                      "PositionPreparing", "ReadyToCommit"}]
             /\ victim' \in 0 .. MaxRequests /\ owner' \in OwnerPC
  <2>1. 0 \in 0 .. MaxRequests
    BY Bounds
  <2>2. NoActive \in [req : 0 .. MaxRequests,
                      state : {"none", "Accepted", "ReadyForPosition",
                               "PositionPreparing", "ReadyToCommit"}]
    BY <2>1 DEF NoActive
  <2> QED
    BY <1>1, <1>3, <2>2 DEF EndBeforeCommit, Goto, OwnerPC
<1> QED
  BY <1>1, <1>2, <1>3

\* The steps of the owner keep the types of the player.
LEMMA OwnerTypes == TypeOK /\ PlayerStep => PlayerTypeOK'
<1> SUFFICES ASSUME TypeOK, PlayerStep PROVE PlayerTypeOK'
  OBVIOUS
<1> USE DEF Goto
<1>1. PlayerTypeOK /\ IntentTypeOK
  BY DEF TypeOK
<1>2. /\ 0 \in 0 .. MaxRequests /\ 0 \in 0 .. MaxBatch
      /\ NoTask \in [op : Ops \cup {"none", "Tick"}, req : 0 .. MaxRequests,
                     outcome : ControlOutcomes \cup {"none"}]
      /\ [NoTask EXCEPT !.op = "Tick"]
            \in [op : Ops \cup {"none", "Tick"}, req : 0 .. MaxRequests,
                 outcome : ControlOutcomes \cup {"none"}]
  BY Bounds DEF NoTask
<1>3. /\ active.req \in 0 .. MaxRequests /\ task.req \in 0 .. MaxRequests
      /\ victim \in 0 .. MaxRequests
      /\ installed.req \in 0 .. MaxRequests /\ current \in 0 .. MaxRequests
      /\ pending.rev \in 0 .. MaxRevision /\ staged.rev \in 0 .. MaxRevision
  BY <1>1 DEF PlayerTypeOK, IntentTypeOK, Slot
<1>4. queue # << >> => Head(queue).req \in 0 .. MaxRequests
  BY <1>1, HeadFacts DEF Command
<1>5. CASE Drain
  <2>1. CASE DrainWake
    BY <2>1, <1>1, <1>2 DEF DrainWake, PlayerTypeOK, OwnerPC, receiptVars, sessionVars
  <2>2. CASE DrainCurrent
    BY <2>2, <1>1 DEF DrainCurrent, PlayerTypeOK, OwnerPC, receiptVars, sessionVars
  <2>3. CASE DrainInstalled
    <3>1. playing' \in [inst : 0 .. MaxRequests, rev : 0 .. MaxRevision]
      BY <2>3, <1>1, <1>3 DEF DrainInstalled, PlayerTypeOK
    <3>2. taken' \in [rev : 0 .. MaxRevision, intent : Intents,
                      waiters : SUBSET (1 .. MaxUpdates)]
      BY <2>3, <1>1 DEF DrainInstalled, PlayerTypeOK, IntentTypeOK
    <3> QED
      BY <2>3, <3>1, <3>2, <1>1 DEF DrainInstalled, PlayerTypeOK, OwnerPC, receiptVars
  <2>4. CASE DrainFinish
    BY <2>4, <1>1, Bounds DEF DrainFinish, PlayerTypeOK, OwnerPC, receiptVars, sessionVars
  <2> QED
    BY <1>5, <2>1, <2>2, <2>3, <2>4 DEF Drain
<1>6. CASE Staging
  <2>1. CASE ReceiveStage
    <3>1. Begin("none") /\ queue # << >>
      BY <2>1 DEF ReceiveStage
    <3>2. /\ terminal' \in [Requests -> {"none", "Installed", "Failed", "Cancelled", "taken"}]
          /\ lastTerminal' \in 0 .. MaxRequests /\ owner' \in OwnerPC
      BY <2>1, <3>1, <1>1, <1>4, ReceiptTypes DEF ReceiveStage, PlayerTypeOK, OwnerPC
    <3> QED
      BY <2>1, <3>1, <3>2, <1>1, BeginTypes DEF ReceiveStage, PlayerTypeOK
  <2>2. CASE Supersede
    BY <2>2, <1>1, <1>3, ReceiptTypes DEF Supersede, PlayerTypeOK, OwnerPC
  <2>3. CASE Register
    BY <2>3, <1>1 DEF Register, PlayerTypeOK, OwnerPC, receiptVars, sessionVars
  <2>4. CASE Accept
    <3>1. [req |-> task.req, state |-> "Accepted"]
            \in [req : 0 .. MaxRequests,
                 state : {"none", "Accepted", "ReadyForPosition",
                          "PositionPreparing", "ReadyToCommit"}]
      BY <1>3
    <3>2. /\ terminal' \in [Requests -> {"none", "Installed", "Failed", "Cancelled", "taken"}]
          /\ victim' \in 0 .. MaxRequests /\ owner' \in OwnerPC
          /\ active' \in [req : 0 .. MaxRequests,
                          state : {"none", "Accepted", "ReadyForPosition",
                                   "PositionPreparing", "ReadyToCommit"}]
      BY <2>4, <3>1, <1>1, <1>3, ReceiptTypes DEF Accept, PlayerTypeOK, OwnerPC
    <3> QED
      BY <2>4, <3>2, <1>1 DEF Accept, PlayerTypeOK
  <2>5. CASE PreflightSettles
    <3>1. task' \in [op : Ops \cup {"none", "Tick"}, req : 0 .. MaxRequests,
                     outcome : ControlOutcomes \cup {"none"}]
      BY <2>5, <1>1, <1>2 DEF PreflightSettles, PlayerTypeOK
    <3>2. ReadyPhase(active.req) \in {"ReadyForPosition", "ReadyToCommit"}
      BY DEF ReadyPhase
    <3>3. /\ terminal' \in [Requests -> {"none", "Installed", "Failed", "Cancelled", "taken"}]
          /\ phases' \in [Requests -> Seq({"ReadyForPosition", "ReadyToCommit"})]
          /\ victim' \in 0 .. MaxRequests /\ owner' \in OwnerPC
      <4>1. CASE EndBeforeCommit(active.req, "Failed") /\ UNCHANGED phases
        BY <4>1, <1>1, <1>3, ReceiptTypes DEF PlayerTypeOK
      <4>2. CASE /\ PublishPhase(active.req, ReadyPhase(active.req))
                 /\ Goto(AfterService)
                 /\ UNCHANGED <<terminal, victim>>
        BY <4>2, <1>1, <1>3, <3>2, ReceiptTypes DEF PlayerTypeOK, OwnerPC, AfterService
      <4> QED
        BY <2>5, <4>1, <4>2 DEF PreflightSettles
    <3>4. active' \in [req : 0 .. MaxRequests,
                       state : {"none", "Accepted", "ReadyForPosition",
                                "PositionPreparing", "ReadyToCommit"}]
      BY <2>5, <1>1, <1>3, <3>2, ReceiptTypes DEF PreflightSettles, PlayerTypeOK
    <3> QED
      BY <2>5, <3>1, <3>3, <3>4, <1>1 DEF PreflightSettles, PlayerTypeOK
  <2>6. CASE PreflightPending
    BY <2>6, <1>1 DEF PreflightPending, PlayerTypeOK, OwnerPC, AfterService, receiptVars, sessionVars
  <2>7. ASSUME NEW r \in 0 .. MaxRequests, PositionGate(r)
        PROVE  /\ terminal' \in [Requests -> {"none", "Installed", "Failed", "Cancelled", "taken"}]
               /\ phases' \in [Requests -> Seq({"ReadyForPosition", "ReadyToCommit"})]
               /\ victim' \in 0 .. MaxRequests /\ owner' \in OwnerPC
               /\ active' \in [req : 0 .. MaxRequests,
                               state : {"none", "Accepted", "ReadyForPosition",
                                        "PositionPreparing", "ReadyToCommit"}]
    BY <2>7, <1>1, ReceiptTypes DEF PositionGate, PlayerTypeOK, OwnerPC, AfterService
  <2>8. CASE ReceivePrepare
    <3>1. Begin("none") /\ queue # << >>
      BY <2>8 DEF ReceivePrepare
    <3>2. /\ terminal' \in [Requests -> {"none", "Installed", "Failed", "Cancelled", "taken"}]
          /\ phases' \in [Requests -> Seq({"ReadyForPosition", "ReadyToCommit"})]
          /\ victim' \in 0 .. MaxRequests /\ owner' \in OwnerPC
          /\ active' \in [req : 0 .. MaxRequests,
                          state : {"none", "Accepted", "ReadyForPosition",
                                   "PositionPreparing", "ReadyToCommit"}]
      BY <2>8, <2>7, <3>1, <1>1, <1>4 DEF ReceivePrepare, PlayerTypeOK, OwnerPC
    <3> QED
      BY <2>8, <3>1, <3>2, <1>1, BeginTypes DEF ReceivePrepare, PlayerTypeOK
  <2>9. CASE PositionSettles
    <3>1. /\ terminal' \in [Requests -> {"none", "Installed", "Failed", "Cancelled", "taken"}]
          /\ phases' \in [Requests -> Seq({"ReadyForPosition", "ReadyToCommit"})]
          /\ victim' \in 0 .. MaxRequests /\ owner' \in OwnerPC
          /\ active' \in [req : 0 .. MaxRequests,
                          state : {"none", "Accepted", "ReadyForPosition",
                                   "PositionPreparing", "ReadyToCommit"}]
      BY <2>9, <2>7, <1>3 DEF PositionSettles
    <3> QED
      BY <2>9, <3>1, <1>1, <1>2 DEF PositionSettles, PlayerTypeOK
  <2>10. CASE PositionPending
    BY <2>10, <1>1 DEF PositionPending, PlayerTypeOK, OwnerPC, receiptVars, sessionVars
  <2> QED
    BY <1>6, <2>1, <2>2, <2>3, <2>4, <2>5, <2>6, <2>8, <2>9, <2>10 DEF Staging
<1>7. CASE Control
  <2>1. CASE ReceiveAuthorize
    <3>1. PICK x \in ControlOutcomes : Begin(x)
      BY <2>1 DEF ReceiveAuthorize, ControlOutcomes, Mismatch
    <3>2. /\ terminal' \in [Requests -> {"none", "Installed", "Failed", "Cancelled", "taken"}]
          /\ victim' \in 0 .. MaxRequests /\ owner' \in OwnerPC
          /\ active' \in [req : 0 .. MaxRequests,
                          state : {"none", "Accepted", "ReadyForPosition",
                                   "PositionPreparing", "ReadyToCommit"}]
      BY <2>1, <1>1, <1>4, ReceiptTypes DEF ReceiveAuthorize, PlayerTypeOK, OwnerPC
    <3> QED
      BY <2>1, <3>1, <3>2, <1>1, BeginTypes DEF ReceiveAuthorize, PlayerTypeOK
  <2>2. CASE Commit
    <3>1. committed' \in [Requests -> 0 .. MaxRevision]
      BY <2>2, <1>1, <1>3 DEF Commit, PlayerTypeOK
    <3>2. /\ playing' \in [inst : 0 .. MaxRequests, rev : 0 .. MaxRevision]
          /\ current' \in 0 .. MaxRequests /\ owner' \in OwnerPC
      BY <2>2, <1>1, <1>3 DEF Commit, PlayerTypeOK, OwnerPC
    <3>3. active' \in [req : 0 .. MaxRequests,
                       state : {"none", "Accepted", "ReadyForPosition",
                                "PositionPreparing", "ReadyToCommit"}]
      BY <2>2, <1>1, <1>2 DEF Commit, PlayerTypeOK, NoActive
    <3> QED
      BY <2>2, <3>1, <3>2, <3>3, <1>1 DEF Commit, PlayerTypeOK
  <2>3. CASE PublishInstalled
    BY <2>3, <1>1, <1>3, ReceiptTypes DEF PublishInstalled, PlayerTypeOK, OwnerPC
  <2>4. CASE ReceiveCancel
    <3>1. PICK x \in ControlOutcomes : Begin(x)
      BY <2>4 DEF ReceiveCancel, ControlOutcomes, Mismatch
    <3>2. /\ terminal' \in [Requests -> {"none", "Installed", "Failed", "Cancelled", "taken"}]
          /\ victim' \in 0 .. MaxRequests /\ owner' \in OwnerPC
          /\ active' \in [req : 0 .. MaxRequests,
                          state : {"none", "Accepted", "ReadyForPosition",
                                   "PositionPreparing", "ReadyToCommit"}]
      BY <2>4, <1>1, <1>4, ReceiptTypes DEF ReceiveCancel, PlayerTypeOK, OwnerPC
    <3> QED
      BY <2>4, <3>1, <3>2, <1>1, BeginTypes DEF ReceiveCancel, PlayerTypeOK
  <2>5. CASE ForgetVictim
    BY <2>5, <1>1, <1>2, <1>3
       DEF ForgetVictim, AfterForget, PlayerTypeOK, OwnerPC, receiptVars
  <2>6. CASE Reply
    <3>1. replies' \in [Requests -> ControlOutcomes \cup {"none", "taken"}]
      <4>1. task.outcome \in ControlOutcomes \cup {"none", "taken"}
        BY <1>1 DEF PlayerTypeOK
      <4> QED
        BY <2>6, <4>1, <1>1 DEF Reply, PlayerTypeOK
    <3> QED
      BY <2>6, <3>1, <1>1 DEF Reply, PlayerTypeOK, OwnerPC, sessionVars
  <2>7. CASE ReceiveStop
    <3>1. Begin("none")
      BY <2>7 DEF ReceiveStop
    <3>2. /\ terminal' \in [Requests -> {"none", "Installed", "Failed", "Cancelled", "taken"}]
          /\ victim' \in 0 .. MaxRequests /\ owner' \in OwnerPC
          /\ active' \in [req : 0 .. MaxRequests,
                          state : {"none", "Accepted", "ReadyForPosition",
                                   "PositionPreparing", "ReadyToCommit"}]
      BY <2>7, <1>1, <1>3, ReceiptTypes DEF ReceiveStop, PlayerTypeOK, OwnerPC
    <3> QED
      BY <2>7, <3>1, <3>2, <1>1, BeginTypes DEF ReceiveStop, PlayerTypeOK
  <2>8. CASE Stop
    BY <2>8, <1>1, <1>2 DEF Stop, PlayerTypeOK, OwnerPC, receiptVars
  <2>9. CASE ReceiveRelease
    <3>1. Begin("none") /\ owner' \in OwnerPC
      BY <2>9 DEF ReceiveRelease, OwnerPC
    <3> QED
      BY <2>9, <3>1, <1>1, BeginTypes DEF ReceiveRelease, PlayerTypeOK, receiptVars, sessionVars
  <2> QED
    BY <1>7, <2>1, <2>2, <2>3, <2>4, <2>5, <2>6, <2>7, <2>8, <2>9 DEF Control
<1>8. CASE EndBatch
  BY <1>8, <1>1 DEF EndBatch, PlayerTypeOK, OwnerPC, receiptVars, sessionVars
<1>9. CASE TickWithoutCandidate
  BY <1>9, <1>1 DEF TickWithoutCandidate, PlayerTypeOK, OwnerPC, receiptVars, sessionVars
<1>10. CASE WakeUp
  BY <1>10, <1>1, <1>2 DEF WakeUp, PlayerTypeOK, OwnerPC, receiptVars, sessionVars
<1> QED
  BY <1>5, <1>6, <1>7, <1>8, <1>9, <1>10 DEF PlayerStep

\* The steps of the owner keep the types of the intent slots.
LEMMA OwnerIntentTypes == IInv /\ PlayerStep => IntentTypeOK'
<1> SUFFICES ASSUME IInv, PlayerStep PROVE IntentTypeOK'
  OBVIOUS
<1>1. PlayerTypeOK /\ IntentTypeOK
  BY DEF TypeOK, IInv
<1>2. UNCHANGED intentVars => IntentTypeOK'
  BY <1>1 DEF intentVars, IntentTypeOK
<1>3. CASE Drain
  <2>1. CASE DrainWake
    BY <2>1, <1>2 DEF DrainWake
  <2>2. CASE DrainCurrent
    BY <2>2, <1>1, <1>2, DrainTypes DEF DrainCurrent
  <2>3. CASE DrainInstalled
    BY <2>3, <1>1, <1>2, DrainTypes DEF DrainInstalled
  <2>4. CASE DrainFinish
    <3>1. taken \in [rev : 0 .. MaxRevision, intent : Intents,
                     waiters : SUBSET (1 .. MaxUpdates)]
      BY <1>1 DEF PlayerTypeOK
    <3>2. installed.req \in 0 .. MaxRequests /\ (current = installed.req) \in BOOLEAN
      BY <1>1 DEF IntentTypeOK, Slot
    <3> QED
      BY <2>4, <3>1, <3>2, <1>1, DrainTypes DEF DrainFinish
  <2> QED
    BY <1>3, <2>1, <2>2, <2>3, <2>4 DEF Drain
<1>4. CASE Staging
  <2>1. CASE Register
    <3>1. task.req \in 0 .. MaxRequests /\ NoSlot \in Slot
      BY <1>1, Bounds DEF PlayerTypeOK
    <3>2. owner = "register" /\ RegisterStagedRequest(task.req, payload[task.req])
      BY <2>1 DEF Register
    <3>3. task.req \in Requests
      <4>1. task.req # 0
        BY <3>2 DEF IInv, LifeOK, PlaceOK, CoordinatorOK, NotYetActive, Registering, Dispatched, Waits
      <4> QED
        BY <3>1, <4>1, Bounds DEF Requests
    <3>4. payload[task.req].rev = 1 /\ payload[task.req].intent \in Intents
      BY <1>1, <3>3 DEF PlayerTypeOK
    <3> QED
      BY <3>1, <3>2, <3>4, <1>1, SlotTypes
  <2> QED
    BY <1>4, <2>1, <1>2
       DEF Staging, ReceiveStage, Supersede, Accept, PreflightSettles, PreflightPending,
           ReceivePrepare, PositionSettles, PositionPending
<1>5. CASE Control
  <2>1. CASE Commit
    <3>1. task.req \in 0 .. MaxRequests /\ NoSlot \in Slot
      BY <1>1, Bounds DEF PlayerTypeOK
    <3>2. CASE CommitStagedRequest(task.req)
      <4>1. NoSlot.rev = 0 /\ NoSlot.intent \in Intents
        BY Bounds DEF NoSlot
      <4>2. [rev |-> 1, intent |-> NoSlot.intent].rev = 1
            /\ [rev |-> 1, intent |-> NoSlot.intent].intent \in Intents
        BY <4>1
      <4> QED
        BY <3>1, <3>2, <4>2, <1>1, SlotTypes
    <3>3. CASE /\ staged' = NoSlot
               /\ UNCHANGED <<installed, pending, staleInstalled, forCurrent, answers>>
      BY <3>1, <3>3, <1>1 DEF IntentTypeOK
    <3> QED
      BY <2>1, <3>2, <3>3 DEF Commit
  <2>2. CASE ForgetVictim
    <3>1. ForgetStagedRequest(victim) /\ NoSlot \in Slot
      BY <2>2, Bounds DEF ForgetVictim
    <3> QED
      BY <3>1, <1>1 DEF ForgetStagedRequest, IntentTypeOK
  <2> QED
    BY <1>5, <2>1, <2>2, <1>2
       DEF Control, ReceiveAuthorize, PublishInstalled, ReceiveCancel, Reply, ReceiveStop,
           Stop, ReceiveRelease
<1>6. CASE EndBatch \/ TickWithoutCandidate \/ WakeUp
  BY <1>6, <1>2 DEF EndBatch, TickWithoutCandidate, WakeUp
<1> QED
  BY <1>3, <1>4, <1>5, <1>6 DEF PlayerStep

\* The steps of the user interface keep the types.
LEMMA InterfaceTypes == IInv /\ (Opening \/ UserStep) => TypeOK'
<1> SUFFICES ASSUME IInv, Opening \/ UserStep PROVE TypeOK'
  OBVIOUS
<1>1. PlayerTypeOK /\ IntentTypeOK /\ OpenTypeOK /\ CoordinatorOK
  BY DEF IInv, TypeOK, LifeOK
<1>2. UNCHANGED intentVars => IntentTypeOK'
  BY <1>1 DEF intentVars, IntentTypeOK
<1>3. UNCHANGED playerVars => PlayerTypeOK'
  BY <1>1 DEF playerVars, receiptVars, sessionVars, ownerVars, PlayerTypeOK
<1>4. UNCHANGED openVars => OpenTypeOK'
  BY <1>1 DEF openVars, OpenTypeOK
<1>5. ASSUME NEW op \in Ops, NEW r \in 0 .. MaxRequests, Send(op, r) PROVE PlayerTypeOK'
  <2>1. [op |-> op, req |-> r] \in Command
    BY DEF Command
  <2>2. queue \in Seq(Command) /\ Len(queue) < QueueCap
    BY <1>1, <1>5 DEF PlayerTypeOK, Send, Room
  <2>3. queue' \in Seq(Command) /\ Len(queue') <= QueueCap
    BY <1>5, <2>1, <2>2, Bounds DEF Send
  <2> QED
    BY <1>1, <1>5, <2>3 DEF Send, PlayerTypeOK, receiptVars, sessionVars, ownerVars
<1>6. /\ open.req \in 0 .. MaxRequests /\ known \in 0 .. MaxRequests
      /\ 0 \in 0 .. MaxRequests /\ NoSlot \in Slot
      /\ allocated \in 0 .. MaxRequests /\ allocated \in Nat /\ previous \in Slot
      /\ staged \in Slot
  BY <1>1, Bounds DEF OpenTypeOK, IntentTypeOK
<1>7. {"Stage", "Prepare", "Authorize", "Cancel", "Stop", "Release"} \subseteq Ops
  BY DEF Ops
<1>8. CASE Start \/ StartPrepared \/ DrainPreparation \/ CancelBeforeStaging
  BY <1>8, <1>1, <1>2, <1>3
     DEF Start, StartPrepared, DrainPreparation, CancelBeforeStaging, Fails, OpenTypeOK, TypeOK
<1>9. CASE BeginStage
  <2>1. PICK intent \in Intents, same \in BOOLEAN :
          /\ payload' = [payload EXCEPT ![allocated'] =
                            [same |-> same, old |-> IF same THEN known ELSE 0,
                             rev |-> 1, intent |-> intent]]
          /\ BeginStagedRegistration(allocated', [rev |-> 1, intent |-> intent])
    BY <1>9 DEF BeginStage
  <2>2. allocated' \in 0 .. MaxRequests
    BY <1>9, <1>6, Bounds DEF BeginStage
  <2>3. [rev |-> 1, intent |-> intent].rev = 1 /\ [rev |-> 1, intent |-> intent].intent \in Intents
    OBVIOUS
  <2>4. IntentTypeOK'
    <3>1. /\ staged' = [req |-> allocated', rev |-> 1, intent |-> intent]
          /\ UNCHANGED <<installed, pending, staleInstalled, forCurrent, answers>>
      BY <2>1, <2>3 DEF BeginStagedRegistration
    <3>2. 1 \in 0 .. MaxRevision
      BY Bounds
    <3>3. staged' \in Slot
      BY <3>1, <3>2, <2>2 DEF Slot
    <3> QED
      BY <3>1, <3>3, <1>1 DEF IntentTypeOK
  <2>5. payload' \in [Requests -> [same : BOOLEAN, old : 0 .. MaxRequests,
                                   rev : {1}, intent : Intents]]
    <3>1. [same |-> same, old |-> IF same THEN known ELSE 0, rev |-> 1, intent |-> intent]
            \in [same : BOOLEAN, old : 0 .. MaxRequests, rev : {1}, intent : Intents]
      BY <1>6
    <3> QED
      BY <2>1, <3>1, <1>1 DEF PlayerTypeOK
  <2>6. PlayerTypeOK'
    BY <1>9, <2>5, <1>1 DEF BeginStage, PlayerTypeOK, receiptVars, sessionVars, ownerVars
  <2>7. OpenTypeOK'
    BY <1>9, <2>2, <1>1, <1>6 DEF BeginStage, OpenTypeOK
  <2> QED
    BY <2>4, <2>6, <2>7 DEF TypeOK
<1>10. CASE SendStage
  <2>1. PlayerTypeOK'
    BY <1>10, <1>3, <1>5, <1>6, <1>7 DEF SendStage
  <2>2. OpenTypeOK'
    BY <1>10, <1>1, <1>6 DEF SendStage, OpenTypeOK
  <2> QED
    BY <1>10, <2>1, <2>2, <1>2 DEF SendStage, TypeOK
<1>11. CASE RollbackStage
  <2>1. IntentTypeOK'
    BY <1>11, <1>1, <1>6 DEF RollbackStage, RollbackStagedRegistration, IntentTypeOK
  <2>2. OpenTypeOK'
    BY <1>11, <1>1, <1>6 DEF RollbackStage, Fails, OpenTypeOK
  <2> QED
    BY <1>11, <2>1, <2>2, <1>3 DEF RollbackStage, TypeOK
<1>12. CASE DrainStagingTerminal
  <2>1. PlayerTypeOK'
    BY <1>12, <1>1, <1>6, ReceiptTypes
       DEF DrainStagingTerminal, PlayerTypeOK, sessionVars, ownerVars
  <2>2. OpenTypeOK'
    BY <1>12, <1>1 DEF DrainStagingTerminal, Fails, OpenTypeOK
  <2> QED
    BY <1>12, <2>1, <2>2, <1>2 DEF DrainStagingTerminal, TypeOK
<1>13. CASE DrainStagingPhase
  <2>1. phases' \in [Requests -> Seq({"ReadyForPosition", "ReadyToCommit"})]
    <3>1. phases \in [Requests -> Seq({"ReadyForPosition", "ReadyToCommit"})]
      BY <1>1 DEF PlayerTypeOK
    <3>2. open.req \in Requests
      BY <1>13, <1>1, <1>6, Bounds DEF DrainStagingPhase, CoordinatorOK, Dispatched, Waits, Requests
    <3>3. phases[open.req] \in Seq({"ReadyForPosition", "ReadyToCommit"})
          /\ phases[open.req] # << >>
      BY <1>13, <3>1, <3>2 DEF DrainStagingPhase
    <3>4. Tail(phases[open.req]) \in Seq({"ReadyForPosition", "ReadyToCommit"})
      BY <3>3
    <3> QED
      BY <1>13, <3>1, <3>4 DEF DrainStagingPhase
  <2>2. PlayerTypeOK'
    BY <1>13, <2>1, <1>1 DEF DrainStagingPhase, PlayerTypeOK, sessionVars, ownerVars
  <2>3. OpenTypeOK'
    BY <1>13, <1>1 DEF DrainStagingPhase, Fails, OpenTypeOK, Fatals
  <2> QED
    BY <1>13, <2>2, <2>3, <1>2 DEF DrainStagingPhase, TypeOK
<1>14. CASE PreparePosition \/ AuthorizeReady \/ AuthorizeReadySameLineage \/ CancelAtPlayer
  <2>1. PlayerTypeOK'
    BY <1>14, <1>5, <1>6, <1>7
       DEF PreparePosition, AuthorizeReady, AuthorizeReadySameLineage, Authorize, CancelAtPlayer
  <2>2. OpenTypeOK'
    BY <1>14, <1>1
       DEF PreparePosition, AuthorizeReady, AuthorizeReadySameLineage, Authorize,
           CancelAtPlayer, OpenTypeOK
  <2> QED
    BY <1>14, <2>1, <2>2, <1>2
       DEF PreparePosition, AuthorizeReady, AuthorizeReadySameLineage, Authorize,
           CancelAtPlayer, TypeOK
<1>15. CASE DrainControl
  <2>1. replies' \in [Requests -> ControlOutcomes \cup {"none", "taken"}]
    BY <1>15, <1>1 DEF DrainControl, PlayerTypeOK
  <2>2. terminal' \in [Requests -> {"none", "Installed", "Failed", "Cancelled", "taken"}]
    BY <1>15, <1>1 DEF DrainControl, PlayerTypeOK
  <2>3. PlayerTypeOK'
    BY <1>15, <2>1, <2>2, <1>1 DEF DrainControl, PlayerTypeOK, sessionVars, ownerVars
  <2>4. OpenTypeOK'
    <3>1. ControlResult(open.pending, replies[open.req], terminal[open.req])
            \in {"Installed", "Cancelled", "PlayerFailed"} \cup Fatals
      BY DEF ControlResult, Fatals
    <3> QED
      BY <1>15, <3>1, <1>1 DEF DrainControl, OpenTypeOK
  <2> QED
    BY <1>15, <2>3, <2>4, <1>2 DEF DrainControl, TypeOK
<1>16. CASE TakeTerminal
  <2>1. OpenTypeOK'
    BY <1>16, <1>1, <1>6 DEF TakeTerminal, OpenTypeOK, NoOpen
  <2> QED
    BY <1>16, <2>1, <1>2, <1>3 DEF TakeTerminal, TypeOK
<1>17. CASE UpdatePlaybackIntent
  <2>1. PICK r \in {open.req, known} \ {0}, rev \in Revisions, intent \in Intents,
             wakes \in BOOLEAN :
          /\ SubmitUpdate([req |-> r, rev |-> rev, intent |-> intent], wakes)
          /\ ui' = IF wakes THEN "wake" ELSE "idle"
    BY <1>17 DEF UpdatePlaybackIntent
  <2>2. r \in Requests
    BY <1>6, Bounds DEF Requests
  <2>3. IntentTypeOK'
    BY <2>1, <2>2, <1>1, SubmitTypes
  <2>4. OpenTypeOK'
    BY <1>17, <2>1, <1>1 DEF UpdatePlaybackIntent, OpenTypeOK
  <2> QED
    BY <1>17, <2>3, <2>4, <1>3 DEF UpdatePlaybackIntent, TypeOK
<1>18. CASE WakeOwner
  <2>1. wake' \in BOOLEAN
    BY <1>18 DEF WakeOwner
  <2>2. PlayerTypeOK' /\ OpenTypeOK'
    BY <1>18, <2>1, <1>1
       DEF WakeOwner, PlayerTypeOK, OpenTypeOK, receiptVars, sessionVars, ownerVars
  <2> QED
    BY <1>18, <2>2, <1>2 DEF WakeOwner, TypeOK
<1>19. CASE SendStop \/ SendRelease
  <2>1. PlayerTypeOK'
    BY <1>19, <1>5, <1>6, <1>7 DEF SendStop, SendRelease
  <2> QED
    BY <1>19, <2>1, <1>2, <1>4 DEF SendStop, SendRelease, TypeOK
<1> QED
  BY <1>8, <1>9, <1>10, <1>11, <1>12, <1>13, <1>14, <1>15, <1>16, <1>17, <1>18, <1>19
     DEF Opening, UserStep

\* Every step keeps the types.
LEMMA TypesKept == IInv /\ Next => TypeOK'
<1>1. ASSUME IInv, OwnerStep PROVE TypeOK'
  <2>1. TypeOK /\ PlayerStep /\ UNCHANGED openVars
    BY <1>1 DEF IInv, OwnerStep
  <2>2. OpenTypeOK'
    BY <2>1 DEF TypeOK, openVars, OpenTypeOK
  <2> QED
    BY <2>1, <2>2, <1>1, OwnerTypes, OwnerIntentTypes DEF TypeOK
<1> QED
  BY <1>1, InterfaceTypes DEF Next

-----------------------------------------------------------------------------
(* Wakes *)

\* No step leaves an intent without a wake on the way: the token is consumed
\* before the slots are looked at, and an update that the owner has to see
\* leads to one.
LEMMA WakesKept == IInv /\ Next => WakeOK'
<1> SUFFICES ASSUME IInv, Next PROVE WakeOK'
  OBVIOUS
<1>1. WakeOK
  BY DEF IInv
<1> USE DEF Goto
<1>2. CASE OwnerStep
  <2>1. UNCHANGED ui
    BY <1>2 DEF OwnerStep, openVars
  <2>2. CASE Drain
    BY <2>2, <2>1, <1>1
       DEF Drain, DrainWake, DrainCurrent, DrainInstalled, DrainFinish, TakePendingCurrent,
           TakePendingInstalled, FinishInstalledUpdate, WakeOK, intentVars, NoApply, NoUpdate
  <2>3. CASE Commit
    BY <2>3, <2>1, <1>1 DEF Commit, CommitStagedRequest, WakeOK, NoApply, NoUpdate
  <2>4. CASE Register \/ ForgetVictim
    BY <2>4, <2>1, <1>1
       DEF Register, ForgetVictim, RegisterStagedRequest, ForgetStagedRequest, WakeOK
  <2>5. CASE Staging /\ ~Register
    BY <2>5, <2>1, <1>1
       DEF Staging, ReceiveStage, Supersede, Accept, PreflightSettles, PreflightPending,
           ReceivePrepare, PositionSettles, PositionPending, WakeOK, intentVars
  <2>6. CASE Control /\ ~Commit /\ ~ForgetVictim
    BY <2>6, <2>1, <1>1
       DEF Control, ReceiveAuthorize, PublishInstalled, ReceiveCancel, Reply, ReceiveStop,
           Stop, ReceiveRelease, WakeOK, intentVars
  <2>7. CASE EndBatch \/ TickWithoutCandidate \/ WakeUp
    BY <2>7, <2>1, <1>1 DEF EndBatch, TickWithoutCandidate, WakeUp, WakeOK, intentVars
  <2> QED
    BY <1>2, <2>2, <2>3, <2>4, <2>5, <2>6, <2>7 DEF OwnerStep, PlayerStep
<1>3. CASE UserStep
  <2>1. CASE UpdatePlaybackIntent
    BY <2>1, <1>1
       DEF UpdatePlaybackIntent, SubmitUpdate, SubmitToStaged, SubmitToInstalled,
           SubmitToNobody, WakeOK, playerVars, ownerVars
  <2>2. CASE WakeOwner \/ SendStop \/ SendRelease
    BY <2>2, <1>1
       DEF WakeOwner, SendStop, SendRelease, Send, WakeOK, intentVars, openVars, ownerVars
  <2> QED
    BY <1>3, <2>1, <2>2 DEF UserStep
<1>4. CASE Opening
  <2>1. UNCHANGED <<forCurrent, pending, wake, owner>> /\ ui # "wake"
    BY <1>4
       DEF Opening, Start, StartPrepared, DrainPreparation, BeginStage, SendStage,
           RollbackStage, DrainStagingTerminal, DrainStagingPhase, PreparePosition,
           AuthorizeReady, AuthorizeReadySameLineage, Authorize, CancelBeforeStaging,
           CancelAtPlayer, DrainControl, TakeTerminal, Send, BeginStagedRegistration,
           RollbackStagedRegistration, intentVars, playerVars, ownerVars
  <2> QED
    BY <2>1, <1>1 DEF WakeOK
<1> QED
  BY <1>2, <1>3, <1>4 DEF Next

-----------------------------------------------------------------------------
(* The command stream *)

\* The first command of the stream is taken: the rest is in order.
LEMMA StreamTail ==
  ASSUME PlayerTypeOK, queue # << >>, NEW o, NEW t, StreamOK(queue, o, t)
  PROVE  /\ StreamOK(Tail(queue), o, t)
         /\ HasStage(Tail(queue)) => HasStage(queue)
         /\ HasControl(Tail(queue), o) => HasControl(queue, o)
         /\ Head(queue).op = "Stage" =>
               HasStage(queue) /\ ~HasStage(Tail(queue)) /\ Head(queue).req = o.req
         /\ Head(queue).op # "Stage" /\ HasStage(queue) => HasStage(Tail(queue))
         /\ Head(queue).op \in Controls => Live(Head(queue), o) \/ Late(Head(queue), o, t)
         /\ Live(Head(queue), o) =>
               /\ HasControl(queue, o) /\ ~HasStage(queue) /\ ~HasControl(Tail(queue), o)
               /\ Awaits(o, Head(queue).op)
         /\ Head(queue).op = "Prepare" =>
               /\ Head(queue).req # 0
               /\ IF Head(queue).req = o.req
                  THEN o.pos \in {"PreparationDispatched", "ReadyToCommit"}
                  ELSE t[Head(queue).req] # "none"
<1>1. /\ Len(queue) \in Nat /\ DOMAIN queue = 1 .. Len(queue)
      /\ 1 \in DOMAIN queue /\ queue[1] = Head(queue)
      /\ DOMAIN Tail(queue) = 1 .. Len(queue) - 1
      /\ \A i \in DOMAIN Tail(queue) : Tail(queue)[i] = queue[i + 1] /\ i + 1 \in DOMAIN queue
  BY HeadFacts
<1>2. \A i \in DOMAIN queue : i # 1 => i - 1 \in DOMAIN Tail(queue) /\ queue[i] = Tail(queue)[i - 1]
  BY <1>1
<1>3. \A i \in DOMAIN Tail(queue) : i \in Nat /\ i # 0
  BY <1>1
<1>4. \A i, j \in DOMAIN Tail(queue) : (i + 1 = j + 1 => i = j) /\ (i + 1 < j + 1 => i < j)
  BY <1>3
<1>5. StreamOK(Tail(queue), o, t)
  BY <1>1, <1>4 DEF StreamOK
<1>6. /\ HasStage(Tail(queue)) => HasStage(queue)
      /\ HasControl(Tail(queue), o) => HasControl(queue, o)
  BY <1>1 DEF HasStage, HasControl
<1>7. /\ Head(queue).op # "Stage" /\ HasStage(queue) => HasStage(Tail(queue))
  BY <1>1, <1>2 DEF HasStage
<1>8. Head(queue).op = "Stage" =>
         HasStage(queue) /\ ~HasStage(Tail(queue)) /\ Head(queue).req = o.req
  <2>1. \A i \in DOMAIN Tail(queue) : i + 1 # 1
    BY <1>3
  <2> QED
    BY <1>1, <2>1 DEF HasStage, StreamOK
<1>9. /\ Head(queue).op \in Controls => Live(Head(queue), o) \/ Late(Head(queue), o, t)
      /\ Live(Head(queue), o) =>
           /\ HasControl(queue, o) /\ ~HasStage(queue) /\ ~HasControl(Tail(queue), o)
           /\ Awaits(o, Head(queue).op)
  <2>1. \A i \in DOMAIN Tail(queue) : i + 1 # 1
    BY <1>3
  <2>2. \A i \in DOMAIN queue : ~(i < 1)
    BY <1>1
  <2>3. Head(queue).op \in Controls =>
          (Live(Head(queue), o) /\ Awaits(o, Head(queue).op)) \/ Late(Head(queue), o, t)
    BY <1>1 DEF StreamOK
  <2>4. Live(Head(queue), o) => Head(queue).op \in Controls /\ ~Late(Head(queue), o, t)
    BY DEF Live, Late
  <2>5. Live(Head(queue), o) => HasControl(queue, o) /\ ~HasStage(queue)
    BY <1>1, <2>2 DEF HasStage, HasControl, StreamOK
  <2>6. Live(Head(queue), o) => ~HasControl(Tail(queue), o)
    BY <1>1, <2>1 DEF HasControl, StreamOK
  <2> QED
    BY <2>3, <2>4, <2>5, <2>6
<1>10. Head(queue).op = "Prepare" =>
         /\ Head(queue).req # 0
         /\ IF Head(queue).req = o.req
            THEN o.pos \in {"PreparationDispatched", "ReadyToCommit"}
            ELSE t[Head(queue).req] # "none"
  BY <1>1 DEF StreamOK
<1> QED
  BY <1>5, <1>6, <1>7, <1>8, <1>9, <1>10

\* A command that is sent goes behind the others.
LEMMA StreamAppend ==
  ASSUME PlayerTypeOK, NEW o, NEW t, StreamOK(queue, o, t), NEW c,
         c.op = "Stage" => c.req = o.req /\ ~HasStage(queue) /\ ~HasControl(queue, o),
         c.op \in Controls =>
            \/ Live(c, o) /\ Awaits(o, c.op) /\ ~HasControl(queue, o)
            \/ Late(c, o, t),
         c.op = "Prepare" => /\ c.req # 0 /\ c.req = o.req
                             /\ o.pos \in {"PreparationDispatched", "ReadyToCommit"}
  PROVE  /\ StreamOK(Append(queue, c), o, t)
         /\ HasStage(Append(queue, c)) <=> HasStage(queue) \/ c.op = "Stage"
         /\ HasControl(Append(queue, c), o) <=> HasControl(queue, o) \/ Live(c, o)
<1>1. queue \in Seq(Command)
  BY DEF PlayerTypeOK
<1>2. Len(queue) \in Nat /\ DOMAIN queue = 1 .. Len(queue)
  BY <1>1
<1>3. /\ DOMAIN Append(queue, c) = 1 .. Len(queue) + 1
      /\ \A i \in DOMAIN queue : Append(queue, c)[i] = queue[i]
      /\ Append(queue, c)[Len(queue) + 1] = c
  BY <1>1
<1> DEFINE z == Len(queue) + 1
           q == Append(queue, c)
<1>4. /\ \A i \in DOMAIN q : i = z \/ (i \in DOMAIN queue /\ i < z)
      /\ \A i \in DOMAIN queue : i \in DOMAIN q /\ i < z /\ i # z
      /\ z \in DOMAIN q /\ q[z] = c /\ ~(z < z)
      /\ \A i \in DOMAIN queue : q[i] = queue[i]
  BY <1>2, <1>3
<1> HIDE DEF z, q
<1>5. /\ HasStage(q) <=> HasStage(queue) \/ c.op = "Stage"
      /\ HasControl(q, o) <=> HasControl(queue, o) \/ Live(c, o)
  BY <1>4 DEF HasStage, HasControl
<1>6. /\ c.op = "Stage" => ~Live(c, o) /\ c.op \notin Controls
      /\ Live(c, o) => c.op # "Stage" /\ c.op # "Prepare" /\ ~HasControl(queue, o)
  BY DEF Controls, Live, Late
<1>7. StreamOK(q, o, t)
  <2>1. \A i \in DOMAIN q :
          /\ q[i].op = "Stage" => q[i].req = o.req
          /\ q[i].op \in Controls =>
                (Live(q[i], o) /\ Awaits(o, q[i].op)) \/ Late(q[i], o, t)
          /\ q[i].op = "Prepare" =>
                /\ q[i].req # 0
                /\ IF q[i].req = o.req
                   THEN o.pos \in {"PreparationDispatched", "ReadyToCommit"}
                   ELSE t[q[i].req] # "none"
    BY <1>4 DEF StreamOK
  <2>2. \A i, j \in DOMAIN q :
          /\ q[i].op = "Stage" /\ q[j].op = "Stage" => i = j
          /\ Live(q[i], o) /\ Live(q[j], o) => i = j
          /\ q[i].op = "Stage" /\ Live(q[j], o) => i < j
    BY <1>4, <1>6 DEF StreamOK, HasStage, HasControl
  <2> QED
    BY <2>1, <2>2 DEF StreamOK
<1> QED
  BY <1>5, <1>7 DEF q

\* The stream stays in order while its request stays and its record is kept.
LEMMA StreamSameRequest ==
  ASSUME PlayerTypeOK, NEW o, NEW t, NEW o2, NEW t2, StreamOK(queue, o, t),
         o2.req = o.req, o.terminal # "none" => o2.terminal # "none",
         HasControl(queue, o) => o2.pending = o.pending /\ o2.terminal = o.terminal,
         o.pos \in {"PreparationDispatched", "ReadyToCommit"} =>
            o2.pos \in {"PreparationDispatched", "ReadyToCommit"},
         \A r \in Requests : t[r] # "none" => t2[r] # "none"
  PROVE  /\ StreamOK(queue, o2, t2)
         /\ HasControl(queue, o2) => HasControl(queue, o)
<1>1. \A i \in DOMAIN queue : queue[i].req # 0 => queue[i].req \in Requests
  <2>1. queue \in Seq(Command)
    BY DEF PlayerTypeOK
  <2>2. \A c \in Command : c.req # 0 => c.req \in Requests
    BY Bounds DEF Command, Requests
  <2> QED
    BY <2>1, <2>2
<1>2. \A i \in DOMAIN queue : Live(queue[i], o2) => Live(queue[i], o)
  BY DEF Live
<1>3. \A i \in DOMAIN queue : Late(queue[i], o, t) => Late(queue[i], o2, t2)
  BY <1>1 DEF Late
<1>4. \A i \in DOMAIN queue : Live(queue[i], o) /\ Awaits(o, queue[i].op) =>
          Live(queue[i], o2) /\ Awaits(o2, queue[i].op)
  BY DEF HasControl, Live, Awaits
<1>5. \A i \in DOMAIN queue :
          /\ queue[i].op = "Stage" => queue[i].req = o2.req
          /\ queue[i].op = "Prepare" =>
                /\ queue[i].req # 0
                /\ IF queue[i].req = o2.req
                   THEN o2.pos \in {"PreparationDispatched", "ReadyToCommit"}
                   ELSE t2[queue[i].req] # "none"
  BY <1>1 DEF StreamOK
<1> QED
  BY <1>2, <1>3, <1>4, <1>5 DEF StreamOK, HasControl

\* The request ends, or a new one begins, when no stage and no control is left.
LEMMA StreamNewRequest ==
  ASSUME NEW q, NEW o, NEW t, NEW o2, StreamOK(q, o, t),
         ~HasStage(q), ~HasControl(q, o),
         o.req # 0 => t[o.req] # "none",
         o2.req # 0 => t[o2.req] = "none"
  PROVE  StreamOK(q, o2, t) /\ ~HasControl(q, o2)
<1>1. \A i \in DOMAIN q : q[i].op \in Controls => Late(q[i], o, t)
  BY DEF StreamOK, HasControl
<1>2. \A i \in DOMAIN q : q[i].op \in Controls => Late(q[i], o2, t) /\ ~Live(q[i], o2)
  BY <1>1 DEF Late, Live
<1>3. \A i \in DOMAIN q : ~Live(q[i], o2)
  BY <1>2 DEF Live
<1> QED
  BY <1>2, <1>3 DEF StreamOK, HasStage, HasControl

-----------------------------------------------------------------------------
(* The life of a request *)

Quiet == {"top", "takeCurrent", "takeInstalled", "finish", "receive", "stop", "tick", "wait"}

\* The numbers of requests, and the functions over them.
LEMMA RequestFacts ==
  ASSUME IInv
  PROVE  /\ open.req \in 0 .. MaxRequests /\ known \in 0 .. MaxRequests
         /\ allocated \in 0 .. MaxRequests /\ active.req \in 0 .. MaxRequests
         /\ task.req \in 0 .. MaxRequests /\ victim \in 0 .. MaxRequests
         /\ staged.req \in 0 .. MaxRequests
         /\ current \in 0 .. MaxRequests
         /\ Requests = 1 .. MaxRequests /\ MaxRequests \in Nat
         /\ \A r \in 0 .. MaxRequests : r # 0 => r \in Requests
         /\ DOMAIN terminal = Requests /\ DOMAIN phases = Requests
         /\ DOMAIN replies = Requests /\ DOMAIN committed = Requests
         /\ DOMAIN payload = Requests
BY Bounds DEF IInv, TypeOK, IntentTypeOK, PlayerTypeOK, OpenTypeOK, Slot, Requests

\* A step that leaves the request and its records alone, and is no step of the
\* owner or one between two of its handlers.
LEMMA LifeFrame ==
  ASSUME IInv,
         UNCHANGED <<queue, payload, phases, terminal, replies, committed, active,
                     open, allocated, known>>,
         staged'.req = staged.req,
         ui' \in {"send", "rollback"} <=> ui \in {"send", "rollback"},
         current' \in {current, 0},
         \/ UNCHANGED <<owner, task, victim, current>>
         \/ owner \in Quiet \cup {"preflight"} /\ owner' \in Quiet
  PROVE  LifeOK'
<1>1. LifeOK
  BY DEF IInv
<1>2. owner \notin Quiet \cup {"preflight"} => UNCHANGED <<owner, task, victim, current>>
  OBVIOUS
<1>3. owner' \notin Quiet => UNCHANGED <<owner, task, victim, current>>
  OBVIOUS
<1>4. \/ UNCHANGED <<owner, task, victim>>
      \/ /\ owner' \notin Registering \cup {"preflight", "commit", "installed", "forget",
                                            "reply", "panicked"}
         /\ owner \notin Registering \cup {"commit", "installed", "forget", "reply", "panicked"}
  BY <1>2, <1>3 DEF Quiet, Registering
<1>5. StreamOK(queue, open, terminal)' /\ CoordinatorOK' /\ UnsentIsFresh'
  BY <1>1 DEF LifeOK, CoordinatorOK, UnsentIsFresh
<1>6. CandidateOK'
  BY <1>1 DEF LifeOK, CandidateOK, CandidateStages
<1>7. PlaceOK'
  <2>1. NotYetActive => NotYetActive'
    BY DEF NotYetActive
  <2>2. CASE UNCHANGED <<owner, task, victim, current>>
    BY <1>1, <2>1, <2>2 DEF LifeOK, PlaceOK, HasStage
  <2>3. CASE owner \in Quiet \cup {"preflight"} /\ owner' \in Quiet
    BY <1>1, <1>4, <2>1, <2>3 DEF LifeOK, PlaceOK, HasStage, Quiet, Registering
  <2> QED
    BY <2>2, <2>3
<1>8. ControlOK'
  <2>1. CASE UNCHANGED <<owner, task, victim>>
    <3>1. (Handling' <=> Handling) /\ (LateReply' <=> LateReply)
      BY <2>1 DEF Handling, LateReply
    <3> QED
      BY <1>1, <2>1, <3>1 DEF LifeOK, ControlOK
  <2>2. CASE owner' \notin {"commit", "installed", "forget", "reply"}
    <3>1. ~Handling'
      BY <2>2 DEF Handling
    <3> QED
      BY <1>1, <2>2, <3>1 DEF LifeOK, ControlOK
  <2> QED
    BY <1>4, <2>1, <2>2
<1>10. AnswersFollowRecords' /\ CommitFindsItsIntent'
  BY <1>1, <1>4 DEF LifeOK, AnswersFollowRecords, CommitFindsItsIntent
<1> QED
  BY <1>5, <1>6, <1>7, <1>8, <1>10 DEF LifeOK

\* The drain, the turns of the loop, the stop and a candidate that still waits.
LEMMA QuietLife ==
  ASSUME IInv, UNCHANGED openVars,
         \/ Drain \/ PreflightPending \/ PositionPending \/ Stop
         \/ EndBatch \/ TickWithoutCandidate \/ WakeUp
  PROVE  LifeOK'
<1>1. UNCHANGED <<queue, payload, phases, terminal, replies, committed, active,
                  open, ui, allocated, known>>
  BY DEF openVars, Drain, DrainWake, DrainCurrent, DrainInstalled, DrainFinish,
         PreflightPending, PositionPending, Stop, EndBatch, TickWithoutCandidate, WakeUp,
         receiptVars, sessionVars
<1>2. staged' = staged
  BY DEF Drain, DrainWake, DrainCurrent, DrainInstalled, DrainFinish, TakePendingCurrent,
         TakePendingInstalled, FinishInstalledUpdate, PreflightPending, PositionPending, Stop,
         EndBatch, TickWithoutCandidate, WakeUp, intentVars
<1>3. current' \in {current, 0}
  BY DEF Drain, DrainWake, DrainCurrent, DrainInstalled, DrainFinish,
         PreflightPending, PositionPending, Stop, EndBatch, TickWithoutCandidate, WakeUp,
         sessionVars
<1>4. owner \in Quiet \cup {"preflight"} /\ owner' \in Quiet
  BY DEF Drain, DrainWake, DrainCurrent, DrainInstalled, DrainFinish,
         PreflightPending, PositionPending, Stop, EndBatch, TickWithoutCandidate, WakeUp,
         AfterService, Goto, Quiet
<1> QED
  BY <1>1, <1>2, <1>3, <1>4, LifeFrame

\* An update of the intent, and its wake.
LEMMA UpdateLife ==
  ASSUME IInv, UpdatePlaybackIntent \/ WakeOwner
  PROVE  LifeOK'
<1>1. UNCHANGED <<queue, payload, phases, terminal, replies, committed, active,
                  open, allocated, known, owner, task, victim, current>>
  BY DEF UpdatePlaybackIntent, WakeOwner, playerVars, receiptVars, sessionVars, ownerVars
<1>2. ui \notin {"send", "rollback"} /\ ui' \notin {"send", "rollback"}
  BY DEF UpdatePlaybackIntent, WakeOwner
<1>3. staged'.req = staged.req
  <2>1. staged \in Slot
    BY DEF IInv, TypeOK, IntentTypeOK
  <2>2. CASE WakeOwner
    BY <2>2 DEF WakeOwner, intentVars
  <2>3. CASE UpdatePlaybackIntent
    <3>1. PICK r \in {open.req, known} \ {0}, rev \in Revisions, intent \in Intents,
             wakes \in BOOLEAN :
            SubmitUpdate([req |-> r, rev |-> rev, intent |-> intent], wakes)
      BY <2>3 DEF UpdatePlaybackIntent
    <3> QED
      BY <3>1, <2>1 DEF SubmitUpdate, SubmitToStaged, SubmitToInstalled, SubmitToNobody, Slot
  <2> QED
    BY <2>2, <2>3
<1> QED
  BY <1>1, <1>2, <1>3, LifeFrame

\* Without a request of the coordinator the owner has nothing of an install, but
\* for a cancel that came too late.
LEMMA NothingAtPlayer ==
  ASSUME LifeOK, ~Waits(open)
  PROVE  /\ active.req = 0 /\ active = NoActive
         /\ ~HasStage(queue) /\ ~HasControl(queue, open)
         /\ owner \notin Registering \cup {"preflight", "commit", "installed"}
         /\ owner = "reply" => LateReply
         /\ owner = "forget" => task.op \notin Controls
         /\ ~Handling
<1>1. active.req = 0 /\ active = NoActive /\ ~HasStage(queue) /\ owner \notin Registering
      /\ ~HasControl(queue, open) /\ ~Handling
  BY DEF LifeOK, CandidateOK, PlaceOK, ControlOK, NotYetActive
<1>2. /\ owner \notin {"commit", "installed"}
      /\ owner = "reply" => LateReply
      /\ owner = "forget" => task.op \notin Controls
  BY <1>1 DEF LifeOK, PlaceOK, ControlOK, Controls
<1>3. owner # "preflight"
  BY <1>1 DEF LifeOK, PlaceOK, NoActive
<1> QED
  BY <1>1, <1>2, <1>3

\* What the coordinator does before its request is at the player.
LEMMA PreparationLife ==
  ASSUME IInv, Start \/ StartPrepared \/ DrainPreparation \/ CancelBeforeStaging
  PROVE  LifeOK'
<1>1. LifeOK /\ OpenTypeOK
  BY DEF IInv, TypeOK
<1>2. UNCHANGED <<intentVars, playerVars, ui, previous, allocated, known>> /\ ui = "idle"
  BY DEF Start, StartPrepared, DrainPreparation, CancelBeforeStaging
<1>3. /\ open.phase \in {"Idle", "Preparing", "Prepared", "Failed"} /\ open.req = 0
      /\ open'.phase \in {"Preparing", "Prepared", "Failed"}
      /\ open'.req = 0 /\ open'.pending = open.pending /\ open'.pos = open.pos
      /\ open'.phase # "Failed" => open'.terminal = "none"
      /\ open'.phase = "Failed" => open'.terminal \in {"PreparationFailed", "Cancelled"}
  BY <1>1 DEF Start, StartPrepared, DrainPreparation, CancelBeforeStaging, Fails, OpenTypeOK,
              LifeOK, CoordinatorOK
<1>4. open.pending = "none" /\ ~Waits(open) /\ ~Waits(open')
  BY <1>1, <1>3 DEF LifeOK, CoordinatorOK, Waits, Dispatched
<1>5. active.req = 0 /\ ~HasStage(queue) /\ owner \notin Registering /\ owner # "installed"
      /\ ~HasControl(queue, open) /\ ~Handling /\ (owner = "reply" => LateReply)
      /\ owner # "commit" /\ (owner = "forget" => task.op \notin Controls)
  BY <1>1, <1>4, NothingAtPlayer
<1>6. UNCHANGED <<queue, payload, phases, terminal, replies, committed, owner, task, victim,
                  active, current, staged>>
  BY <1>2 DEF playerVars, receiptVars, ownerVars, sessionVars, intentVars
<1>7. StreamOK(queue, open', terminal) /\ ~HasControl(queue, open')
  BY <1>1, <1>3, <1>5, StreamNewRequest DEF LifeOK
<1>8. CoordinatorOK' /\ UnsentIsFresh'
  BY <1>1, <1>2, <1>3, <1>4, <1>6 DEF LifeOK, CoordinatorOK, UnsentIsFresh, Dispatched
<1>9. CandidateOK'
  BY <1>1, <1>5, <1>6 DEF LifeOK, CandidateOK
<1>10. PlaceOK'
  BY <1>1, <1>4, <1>5, <1>6 DEF LifeOK, PlaceOK
<1>11. ControlOK'
  <2>1. LateReply => LateReply' /\ ~Handling'
    BY <1>3, <1>6 DEF LateReply, Late, Handling, Live
  <2>2. owner # "reply" => ~Handling'
    BY <1>5, <1>6 DEF Handling, Live
  <2> QED
    BY <1>1, <1>4, <1>5, <1>6, <1>7, <2>1, <2>2 DEF ControlOK
<1>12. AnswersFollowRecords' /\ CommitFindsItsIntent'
  BY <1>1, <1>3, <1>6 DEF LifeOK, AnswersFollowRecords, CommitFindsItsIntent
<1> QED
  BY <1>6, <1>7, <1>8, <1>9, <1>10, <1>11, <1>12 DEF LifeOK

\* The registration of a new request, which nobody has heard of.
LEMMA BeginStageLife ==
  ASSUME IInv, BeginStage
  PROVE  LifeOK'
<1>1. LifeOK /\ open.phase = "Prepared" /\ ~Waits(open) /\ ui = "idle"
  BY DEF IInv, BeginStage, Dispatched, Waits
<1>2. /\ active.req = 0 /\ active = NoActive
      /\ ~HasStage(queue) /\ ~HasControl(queue, open)
      /\ owner \notin Registering \cup {"preflight", "commit", "installed"}
      /\ ~Handling
  BY <1>1, NothingAtPlayer
<1>3. /\ UNCHANGED <<queue, phases, terminal, replies, committed, active, current, owner, task,
                     victim, open, known>>
      /\ ui' = "send" /\ allocated' = allocated + 1
  BY DEF BeginStage, receiptVars, sessionVars, ownerVars
<1>4. /\ allocated \in Nat /\ allocated' # 0 /\ allocated' \in Nat /\ allocated < allocated'
      /\ known \in Nat /\ open.req \in Nat
  BY <1>3, RequestFacts
<1>5. staged'.req = allocated'
  BY DEF BeginStage, BeginStagedRegistration
<1>6. StreamOK(queue, open, terminal)'
  BY <1>1, <1>3 DEF LifeOK
<1>7. CoordinatorOK'
  BY <1>1, <1>3, <1>4, <1>5 DEF LifeOK, CoordinatorOK
<1>8. UnsentIsFresh'
  <2> SUFFICES ASSUME NEW r \in Requests, r > allocated' \/ r = allocated'
               PROVE  /\ terminal[r] = "none" /\ phases[r] = << >>
                      /\ replies[r] = "none" /\ committed[r] = 0
    BY <1>3 DEF UnsentIsFresh
  <2>1. r > allocated
    BY <1>3, <1>4, RequestFacts
  <2> QED
    BY <1>1, <2>1 DEF LifeOK, UnsentIsFresh
<1>9. CandidateOK' /\ PlaceOK'
  BY <1>1, <1>2, <1>3 DEF LifeOK, CandidateOK, PlaceOK, HasStage
<1>10. ControlOK'
  <2>1. Handling' <=> Handling
    BY <1>3 DEF Handling
  <2>2. LateReply' <=> LateReply
    BY <1>3 DEF LateReply
  <2> QED
    BY <1>1, <1>2, <1>3, <2>1, <2>2 DEF LifeOK, ControlOK
<1>11. AnswersFollowRecords' /\ CommitFindsItsIntent'
  BY <1>1, <1>3 DEF LifeOK, AnswersFollowRecords, CommitFindsItsIntent
<1> QED
  BY <1>6, <1>7, <1>8, <1>9, <1>10, <1>11 DEF LifeOK

\* Its stage command is sent, or the stream is full.
LEMMA SendStageLife ==
  ASSUME IInv, SendStage
  PROVE  LifeOK'
<1>1. LifeOK /\ open.phase = "Prepared" /\ ~Waits(open) /\ ui = "send"
      /\ PlayerTypeOK /\ OpenTypeOK
  BY DEF IInv, SendStage, Dispatched, Waits, LifeOK, CoordinatorOK, TypeOK
<1>2. /\ active.req = 0 /\ active = NoActive
      /\ ~HasStage(queue) /\ ~HasControl(queue, open)
      /\ owner \notin Registering \cup {"preflight", "commit", "installed"}
      /\ owner = "reply" => LateReply
      /\ owner = "forget" => task.op \notin Controls
  BY <1>1, NothingAtPlayer
<1>3. /\ UNCHANGED <<staged, payload, phases, terminal, replies, committed, active, current,
                     owner, task, victim, allocated, known>>
  BY DEF SendStage, Send, playerVars, receiptVars, sessionVars, ownerVars, intentVars
<1>4. /\ allocated # 0 /\ allocated \in Requests /\ staged.req = allocated
      /\ known # allocated /\ allocated \in Nat /\ allocated <= allocated
      /\ open.req = 0 /\ open.terminal = "none" /\ open.pending = "none"
  BY <1>1, RequestFacts DEF LifeOK, CoordinatorOK
<1>5. /\ terminal[allocated] = "none" /\ phases[allocated] = << >>
      /\ replies[allocated] = "none" /\ committed[allocated] = 0
  BY <1>1, <1>4 DEF LifeOK, UnsentIsFresh
<1>6. CASE ~Room /\ ui' = "rollback" /\ UNCHANGED <<playerVars, open, previous>>
  <2>1. UNCHANGED <<queue, payload, phases, terminal, replies, committed, active,
                    open, allocated, known, staged, owner, task, victim, current>>
    BY <1>3, <1>6 DEF playerVars
  <2> QED
    BY <1>1, <1>6, <2>1, LifeFrame
<1>7. CASE /\ Send("Stage", allocated)
           /\ open' = [open EXCEPT !.phase = "PlayerStaging", !.req = allocated,
                        !.pos = IF payload[allocated].same
                                THEN "WaitingForPlayerReady" ELSE "NotRequired"]
           /\ ui' = "idle"
  <2>1. /\ open'.phase = "PlayerStaging" /\ open'.req = allocated
        /\ open'.pos = IF payload[allocated].same
                       THEN "WaitingForPlayerReady" ELSE "NotRequired"
        /\ open'.pending = "none" /\ open'.terminal = "none"
    BY <1>1, <1>4, <1>7 DEF OpenTypeOK
  <2>2. StreamOK(queue, open', terminal) /\ ~HasControl(queue, open')
    BY <1>1, <1>2, <1>4, <1>5, <2>1, StreamNewRequest DEF LifeOK
  <2> DEFINE c == [op |-> "Stage", req |-> allocated]
  <2>3. c.op = "Stage" /\ c.req = allocated
    OBVIOUS
  <2>4. queue' = Append(queue, c)
    BY <1>7 DEF Send
  <2> HIDE DEF c
  <2>5. /\ StreamOK(queue', open', terminal)
        /\ HasStage(queue') /\ ~HasControl(queue', open')
    BY <1>1, <1>2, <2>1, <2>2, <2>3, <2>4, StreamAppend DEF Controls, Live
  <2>6. CoordinatorOK'
    BY <1>1, <1>3, <1>4, <1>7, <2>1 DEF LifeOK, CoordinatorOK, Dispatched, Waits
  <2>7. UnsentIsFresh'
    BY <1>1, <1>3, <1>7 DEF LifeOK, UnsentIsFresh
  <2>8. NotYetActive'
    BY <1>2, <1>3, <1>4, <1>5, <2>1 DEF NotYetActive, Dispatched, Waits
  <2>9. CandidateOK'
    BY <1>2, <1>3, <2>1 DEF CandidateOK
  <2>10. PlaceOK'
    BY <1>1, <1>2, <1>3, <2>5, <2>8 DEF LifeOK, PlaceOK
  <2>11. ControlOK'
    <3>1. LateReply => LateReply' /\ ~Handling'
      BY <1>3, <1>5, <2>1 DEF LateReply, Late, Handling, Live
    <3>2. owner # "reply" => ~Handling'
      BY <1>2, <1>3 DEF Handling, Live
    <3> QED
      BY <1>2, <1>3, <1>5, <2>1, <2>5, <3>1, <3>2 DEF ControlOK
  <2>13. AnswersFollowRecords' /\ CommitFindsItsIntent'
    BY <1>1, <1>3, <2>1 DEF LifeOK, AnswersFollowRecords, CommitFindsItsIntent
  <2> QED
    BY <1>3, <2>5, <2>6, <2>7, <2>9, <2>10, <2>11, <2>13 DEF LifeOK
<1> QED
  BY <1>6, <1>7 DEF SendStage

\* The registration is rolled back; the request has never been at the player.
LEMMA RollbackLife ==
  ASSUME IInv, RollbackStage
  PROVE  LifeOK'
<1>1. LifeOK /\ open.phase = "Prepared" /\ ~Waits(open) /\ OpenTypeOK
  BY DEF IInv, RollbackStage, Dispatched, Waits, LifeOK, CoordinatorOK, TypeOK
<1>2. /\ active.req = 0 /\ active = NoActive
      /\ ~HasStage(queue) /\ ~HasControl(queue, open)
      /\ owner \notin Registering \cup {"preflight", "commit", "installed"}
      /\ owner = "reply" => LateReply
      /\ owner = "forget" => task.op \notin Controls
  BY <1>1, NothingAtPlayer
<1>3. /\ UNCHANGED <<queue, payload, phases, terminal, replies, committed, active, current,
                     owner, task, victim, allocated, known>>
      /\ ui' = "idle"
  BY DEF RollbackStage, playerVars, receiptVars, sessionVars, ownerVars
<1>4. /\ open'.phase = "Failed" /\ open'.terminal = "PlayerRejected" /\ open'.req = open.req
      /\ open'.pos = open.pos /\ open'.pending = open.pending
  BY <1>1 DEF RollbackStage, Fails, OpenTypeOK
<1>5. open.req = 0 /\ open.pending = "none" /\ ~Waits(open')
  BY <1>1, <1>4 DEF LifeOK, CoordinatorOK, Waits
<1>6. StreamOK(queue, open', terminal) /\ ~HasControl(queue, open')
  BY <1>1, <1>2, <1>4, <1>5, StreamNewRequest DEF LifeOK
<1>7. CoordinatorOK' /\ UnsentIsFresh'
  BY <1>1, <1>3, <1>4, <1>5 DEF LifeOK, CoordinatorOK, UnsentIsFresh, Dispatched
<1>8. CandidateOK' /\ PlaceOK'
  BY <1>1, <1>2, <1>3, <1>5 DEF LifeOK, CandidateOK, PlaceOK, HasStage
<1>9. ControlOK'
  <2>1. ~Handling' /\ (LateReply => LateReply')
    BY <1>3, <1>4, <1>5 DEF Handling, Live, LateReply, Late
  <2> QED
    BY <1>1, <1>2, <1>3, <1>5, <1>6, <2>1 DEF ControlOK
<1>10. AnswersFollowRecords' /\ CommitFindsItsIntent'
  BY <1>1, <1>3, <1>4 DEF LifeOK, AnswersFollowRecords, CommitFindsItsIntent
<1> QED
  BY <1>3, <1>6, <1>7, <1>8, <1>9, <1>10 DEF LifeOK

\* The terminal is taken, and with Installed the application knows the medium.
LEMMA TakeTerminalLife ==
  ASSUME IInv, TakeTerminal
  PROVE  LifeOK'
<1>1. LifeOK /\ OpenTypeOK /\ ui = "idle" /\ open.terminal # "none" /\ ~Waits(open)
  BY DEF IInv, TakeTerminal, TypeOK, Waits
<1>2. open.req # 0 => terminal[open.req] # "none"
  BY <1>1 DEF LifeOK, CoordinatorOK
<1>3. /\ active.req = 0 /\ active = NoActive
      /\ ~HasStage(queue) /\ ~HasControl(queue, open)
      /\ owner \notin Registering \cup {"preflight", "commit", "installed"}
      /\ owner = "reply" => LateReply
      /\ owner = "forget" => task.op \notin Controls
  BY <1>1, NothingAtPlayer
<1>4. /\ UNCHANGED <<queue, staged, payload, phases, terminal, replies, committed, active,
                     current, owner, task, victim, allocated, ui>>
      /\ open' = NoOpen /\ known' = IF open.terminal = "Installed" THEN open.req ELSE known
  BY DEF TakeTerminal, playerVars, receiptVars, sessionVars, ownerVars, intentVars
<1>5. /\ open'.phase = "Idle" /\ open'.req = 0 /\ open'.pending = "none"
      /\ open'.terminal = "none" /\ ~Waits(open')
  BY <1>4 DEF NoOpen, Waits, Dispatched
<1>6. StreamOK(queue, open', terminal) /\ ~HasControl(queue, open')
  BY <1>1, <1>2, <1>3, <1>5, StreamNewRequest DEF LifeOK
<1>7. CoordinatorOK' /\ UnsentIsFresh'
  <2>1. open'.req <= allocated' /\ known' <= allocated'
    BY <1>1, <1>4, <1>5, RequestFacts DEF LifeOK, CoordinatorOK
  <2>2. CoordinatorOK'
    BY <1>1, <1>4, <1>5, <2>1 DEF CoordinatorOK, Dispatched
  <2>3. UnsentIsFresh'
    BY <1>1, <1>4 DEF LifeOK, UnsentIsFresh
  <2> QED
    BY <2>2, <2>3
<1>8. CandidateOK' /\ PlaceOK'
  BY <1>1, <1>3, <1>4, <1>5 DEF LifeOK, CandidateOK, PlaceOK, HasStage
<1>9. ControlOK'
  <2>1. LateReply => LateReply' /\ ~Handling'
    BY <1>4, <1>5 DEF LateReply, Late, Handling, Live
  <2>2. owner # "reply" => ~Handling'
    BY <1>3, <1>4 DEF Handling, Live
  <2> QED
    BY <1>3, <1>4, <1>5, <1>6, <2>1, <2>2 DEF ControlOK
<1>10. AnswersFollowRecords' /\ CommitFindsItsIntent'
  BY <1>1, <1>4, <1>5 DEF LifeOK, AnswersFollowRecords, CommitFindsItsIntent
<1> QED
  BY <1>4, <1>6, <1>7, <1>8, <1>9, <1>10 DEF LifeOK

\* A stop or a release is sent: no command of an install.
LEMMA OtherSendLife ==
  ASSUME IInv, SendStop \/ SendRelease
  PROVE  LifeOK'
<1>1. LifeOK /\ PlayerTypeOK
  BY DEF IInv, TypeOK
<1>2. UNCHANGED <<staged, payload, phases, terminal, replies, committed, active, current,
                  owner, task, victim, allocated, known, open, ui>>
  BY DEF SendStop, SendRelease, Send, receiptVars, sessionVars, ownerVars, intentVars, openVars
<1>3. PICK c : c.op \in {"Stop", "Release"} /\ queue' = Append(queue, c)
  <2>1. [op |-> "Stop", req |-> 0].op = "Stop" /\ [op |-> "Release", req |-> known].op = "Release"
    OBVIOUS
  <2> QED
    BY <2>1 DEF SendStop, SendRelease, Send
<1>4. /\ StreamOK(queue', open, terminal)
      /\ HasStage(queue') <=> HasStage(queue)
      /\ HasControl(queue', open) <=> HasControl(queue, open)
  <2>1. c.op \notin Controls /\ c.op # "Stage" /\ c.op # "Prepare"
    BY <1>3 DEF Controls
  <2>2. ~Live(c, open)
    BY <2>1 DEF Live
  <2> QED
    BY <1>1, <1>3, <2>1, <2>2, StreamAppend DEF LifeOK
<1>5. CoordinatorOK' /\ UnsentIsFresh' /\ CandidateOK'
  BY <1>1, <1>2 DEF LifeOK, CoordinatorOK, UnsentIsFresh, CandidateOK, CandidateStages
<1>6. PlaceOK'
  BY <1>1, <1>2, <1>4 DEF LifeOK, PlaceOK, NotYetActive
<1>7. ControlOK'
  <2>1. (Handling' <=> Handling) /\ (LateReply' <=> LateReply)
    BY <1>2 DEF Handling, LateReply
  <2> QED
    BY <1>1, <1>2, <1>4, <2>1 DEF LifeOK, ControlOK
<1>8. AnswersFollowRecords' /\ CommitFindsItsIntent'
  BY <1>1, <1>2 DEF LifeOK, AnswersFollowRecords, CommitFindsItsIntent
<1> QED
  BY <1>2, <1>4, <1>5, <1>6, <1>7, <1>8 DEF LifeOK

\* The position command is sent for the candidate that asked for it.
LEMMA PreparePositionLife ==
  ASSUME IInv, PreparePosition
  PROVE  LifeOK'
<1>1. /\ LifeOK /\ PlayerTypeOK /\ OpenTypeOK
      /\ open.phase = "PlayerStaging" /\ Waits(open)
      /\ open.pos = "ReadyForPosition" /\ open.req # 0
  BY DEF IInv, TypeOK, PreparePosition, Dispatched, Waits, LifeOK, CoordinatorOK
<1>2. UNCHANGED <<staged, payload, phases, terminal, replies, committed, active, current,
                  owner, task, victim, allocated, known, ui>>
  BY DEF PreparePosition, Send, receiptVars, sessionVars, ownerVars, intentVars
<1>3. /\ open'.pos = "PreparationDispatched" /\ open'.phase = open.phase
      /\ open'.req = open.req /\ open'.pending = open.pending /\ open'.terminal = open.terminal
  BY <1>1 DEF PreparePosition, OpenTypeOK
<1> DEFINE c == [op |-> "Prepare", req |-> open.req]
<1>4. c.op = "Prepare" /\ c.req = open.req /\ c.op \notin Controls
  BY DEF Controls
<1>5. queue' = Append(queue, c)
  BY DEF PreparePosition, Send
<1> HIDE DEF c
<1>6. /\ StreamOK(queue, open', terminal)
      /\ HasControl(queue, open') => HasControl(queue, open)
  BY <1>1, <1>3, StreamSameRequest DEF LifeOK
<1>7. /\ StreamOK(queue', open', terminal)
      /\ HasStage(queue') <=> HasStage(queue)
      /\ HasControl(queue', open') => HasControl(queue, open)
  <2>1. ~Live(c, open')
    BY <1>4 DEF Live
  <2> QED
    BY <1>1, <1>3, <1>4, <1>5, <1>6, <2>1, StreamAppend
<1>8. CoordinatorOK' /\ UnsentIsFresh'
  BY <1>1, <1>2, <1>3 DEF LifeOK, CoordinatorOK, UnsentIsFresh
<1>9. ~NotYetActive
  BY <1>1 DEF NotYetActive
<1>10. CandidateOK'
  BY <1>1, <1>2, <1>3 DEF LifeOK, CandidateOK, CandidateStages, Waits
<1>11. PlaceOK'
  <2>1. Waits(open')
    BY <1>1, <1>3 DEF Waits
  <2> QED
    BY <1>1, <1>2, <1>3, <1>7, <1>9, <2>1 DEF LifeOK, PlaceOK
<1>12. ControlOK'
  <2>1. (Handling' <=> Handling) /\ (LateReply' <=> LateReply) /\ (Waits(open') <=> Waits(open))
    BY <1>2, <1>3 DEF Handling, LateReply, Live, Late, Waits
  <2> QED
    BY <1>1, <1>2, <1>3, <1>7, <2>1 DEF LifeOK, ControlOK, Awaits
<1>13. AnswersFollowRecords' /\ CommitFindsItsIntent'
  BY <1>1, <1>2, <1>3
     DEF LifeOK, AnswersFollowRecords, CommitFindsItsIntent
<1> QED
  BY <1>2, <1>7, <1>8, <1>10, <1>11, <1>12, <1>13 DEF LifeOK

\* Before a control of it is sent, no control of the request is anywhere.
LEMMA NoControlUnderWay ==
  ASSUME LifeOK, Waits(open), open.pending = "none"
  PROVE  /\ ~HasControl(queue, open) /\ ~Handling /\ replies[open.req] = "none"
         /\ terminal[open.req] \notin {"Installed", "taken"}
<1>1. /\ ~Handling /\ replies[open.req] = "none"
      /\ terminal[open.req] \notin {"Installed", "taken"}
  BY DEF LifeOK, ControlOK, Awaits
<1>2. \A i \in DOMAIN queue : ~Live(queue[i], open)
  <2>1. \A i \in DOMAIN queue : ~Awaits(open, queue[i].op)
    BY DEF Awaits
  <2> QED
    BY <2>1 DEF LifeOK, StreamOK, Live, Late
<1> QED
  BY <1>1, <1>2 DEF HasControl

\* A control is sent, for a request that has none under way: an authorization
\* once the candidate is ready, a cancellation at any time.
LEMMA ControlSendLife ==
  ASSUME IInv, open.terminal = "none",
         AuthorizeReady \/ AuthorizeReadySameLineage \/ CancelAtPlayer
  PROVE  LifeOK'
<1> DEFINE phase == open'.phase
<1>1. PICK op \in Controls :
        /\ Send(op, open.req)
        /\ open' = [open EXCEPT !.phase = IF op = "Cancel" THEN "DispatchPending" ELSE phase,
                                !.pending = IF op = "Authorize" THEN "Authorization"
                                            ELSE "Cancellation"]
        /\ op = "Cancel" =>
              open.phase \in {"PlayerStaging", "ReadyToCommit", "Installed", "Failed"}
        /\ op = "Authorize" => open.phase = "ReadyToCommit"
        /\ phase \in {"Enqueued", "DispatchPending"}
        /\ phase = "Enqueued" => op = "Authorize"
        /\ ui = "idle"
        /\ UNCHANGED <<intentVars, ui, previous, allocated, known>>
  <2>1. open \in [phase : {"Idle", "Preparing", "Prepared", "PlayerStaging",
                           "ReadyToCommit", "DispatchPending", "Enqueued", "Installed",
                           "Failed"},
                  req : 0 .. MaxRequests,
                  pos : {"NotRequired", "WaitingForPlayerReady", "ReadyForPosition",
                         "PreparationDispatched", "ReadyToCommit"},
                  pending : {"none", "Authorization", "Cancellation"},
                  terminal : {"none", "Installed", "Cancelled", "PreparationFailed",
                              "PlayerRejected", "PlayerFailed"} \cup Fatals]
    BY DEF IInv, TypeOK, OpenTypeOK
  <2>2. CASE AuthorizeReady
    BY <2>1, <2>2 DEF AuthorizeReady, Authorize, Controls
  <2>3. CASE AuthorizeReadySameLineage
    BY <2>1, <2>3 DEF AuthorizeReadySameLineage, Authorize, Controls
  <2>4. CASE CancelAtPlayer
    BY <2>1, <2>4 DEF CancelAtPlayer, Controls
  <2> QED
    BY <2>2, <2>3, <2>4
<1>2. /\ LifeOK /\ PlayerTypeOK /\ OpenTypeOK
      /\ open.phase \in {"PlayerStaging", "ReadyToCommit"} /\ Waits(open)
      /\ open.req # 0 /\ open.pending = "none"
  BY <1>1 DEF IInv, TypeOK, Dispatched, Waits, Controls, LifeOK, CoordinatorOK
<1>3. UNCHANGED <<staged, payload, phases, terminal, replies, committed, active, current,
                  owner, task, victim, allocated, known, ui>>
  BY <1>1 DEF Send, receiptVars, sessionVars, ownerVars, intentVars
<1>4. /\ open'.phase \in {"Enqueued", "DispatchPending"} /\ Waits(open')
      /\ open'.req = open.req /\ open'.pos = open.pos /\ open'.terminal = open.terminal
      /\ open'.pending # "none" /\ Awaits(open', op)
      /\ open'.phase = "Enqueued" => open'.pending = "Authorization"
      /\ open'.pending = IF op = "Authorize" THEN "Authorization" ELSE "Cancellation"
  BY <1>1, <1>2 DEF OpenTypeOK, Dispatched, Waits, Awaits
<1>5. ~HasControl(queue, open) /\ ~Handling /\ replies[open.req] = "none"
      /\ terminal[open.req] # "Installed"
  BY <1>2, NoControlUnderWay
<1> DEFINE c == [op |-> op, req |-> open.req]
<1>6. c.op = op /\ c.req = open.req /\ c.op # "Stage" /\ c.op # "Prepare"
      /\ Live(c, open')
  BY <1>4 DEF Controls, Live
<1>7. queue' = Append(queue, c)
  BY <1>1 DEF Send
<1> HIDE DEF c, phase
<1>8. StreamOK(queue, open', terminal) /\ ~HasControl(queue, open')
  BY <1>2, <1>4, <1>5, StreamSameRequest DEF LifeOK
<1>9. /\ StreamOK(queue', open', terminal)
      /\ HasStage(queue') <=> HasStage(queue)
      /\ HasControl(queue', open')
  BY <1>2, <1>4, <1>6, <1>7, <1>8, StreamAppend
<1>10. CoordinatorOK' /\ UnsentIsFresh'
  BY <1>1, <1>2, <1>3, <1>4 DEF LifeOK, CoordinatorOK, UnsentIsFresh, Waits
<1>11. open.phase = "ReadyToCommit" => ~NotYetActive
  BY <1>2 DEF NotYetActive
<1>12. NotYetActive => NotYetActive'
  BY <1>1, <1>3, <1>4, <1>11 DEF NotYetActive, Controls
<1>13. CandidateOK'
  BY <1>1, <1>2, <1>3, <1>4 DEF LifeOK, CandidateOK, CandidateStages, Controls
<1>14. PlaceOK'
  BY <1>2, <1>3, <1>4, <1>9, <1>12 DEF LifeOK, PlaceOK
<1>15. ControlOK'
  <2>1. ~Handling' /\ (LateReply => LateReply')
    BY <1>3, <1>4, <1>5 DEF Handling, Live, LateReply, Late
  <2> QED
    BY <1>2, <1>3, <1>4, <1>5, <1>9, <2>1 DEF LifeOK, ControlOK
<1>16. AnswersFollowRecords' /\ CommitFindsItsIntent'
  BY <1>2, <1>3, <1>4 DEF LifeOK, AnswersFollowRecords, CommitFindsItsIntent
<1> QED
  BY <1>3, <1>9, <1>10, <1>13, <1>14, <1>15, <1>16 DEF LifeOK

\* A cancel of a request that has ended, whose terminal was not taken yet.
LEMMA LateCancelLife ==
  ASSUME IInv, open.terminal # "none", CancelAtPlayer
  PROVE  LifeOK'
<1>1. /\ LifeOK /\ PlayerTypeOK /\ OpenTypeOK /\ ~Waits(open)
      /\ open.req # 0 /\ Send("Cancel", open.req) /\ ui = "idle"
      /\ open.phase \notin {"DispatchPending", "Enqueued"}
  BY DEF IInv, TypeOK, Waits, CancelAtPlayer
<1>2. UNCHANGED <<staged, payload, phases, terminal, replies, committed, active, current,
                  owner, task, victim, allocated, known, ui>>
  BY DEF CancelAtPlayer, Send, receiptVars, sessionVars, ownerVars, intentVars
<1>3. /\ open'.phase = "DispatchPending" /\ open'.pending = "Cancellation"
      /\ open'.req = open.req /\ open'.pos = open.pos /\ open'.terminal = open.terminal
      /\ ~Waits(open')
  BY <1>1 DEF CancelAtPlayer, OpenTypeOK, Waits
<1>4. /\ active.req = 0 /\ active = NoActive
      /\ ~HasStage(queue) /\ ~HasControl(queue, open)
      /\ owner \notin Registering \cup {"preflight", "commit", "installed"}
      /\ owner = "reply" => LateReply
      /\ owner = "forget" => task.op \notin Controls
      /\ ~Handling
  BY <1>1, NothingAtPlayer
<1>5. terminal[open.req] # "none"
  BY <1>1 DEF LifeOK, CoordinatorOK
<1> DEFINE c == [op |-> "Cancel", req |-> open.req]
<1>6. c.op = "Cancel" /\ Late(c, open', terminal) /\ ~Live(c, open')
  BY <1>1, <1>3, <1>5 DEF Late, Live
<1>7. queue' = Append(queue, c)
  BY <1>1 DEF Send
<1> HIDE DEF c
<1>8. StreamOK(queue, open', terminal) /\ ~HasControl(queue, open')
  BY <1>1, <1>3, <1>4, StreamSameRequest DEF LifeOK
<1>9. /\ StreamOK(queue', open', terminal)
      /\ HasStage(queue') <=> HasStage(queue)
      /\ ~HasControl(queue', open')
  BY <1>1, <1>6, <1>7, <1>8, StreamAppend
<1>10. CoordinatorOK' /\ UnsentIsFresh'
  BY <1>1, <1>2, <1>3 DEF LifeOK, CoordinatorOK, UnsentIsFresh, Dispatched
<1>11. CandidateOK' /\ PlaceOK'
  BY <1>1, <1>2, <1>3, <1>4, <1>9 DEF LifeOK, CandidateOK, PlaceOK
<1>12. ControlOK'
  <2>1. ~Handling' /\ (LateReply => LateReply')
    BY <1>2, <1>3, <1>4 DEF Handling, Live, LateReply, Late
  <2> QED
    BY <1>2, <1>3, <1>4, <1>9, <2>1 DEF ControlOK
<1>13. AnswersFollowRecords' /\ CommitFindsItsIntent'
  BY <1>1, <1>2, <1>3 DEF LifeOK, AnswersFollowRecords, CommitFindsItsIntent
<1> QED
  BY <1>2, <1>9, <1>10, <1>11, <1>12, <1>13 DEF LifeOK

\* A request whose record is published is no more at the owner's.
LEMMA EndedFacts ==
  ASSUME LifeOK, Waits(open), terminal[open.req] # "none"
  PROVE  /\ active.req = 0 /\ active = NoActive /\ ~HasStage(queue)
         /\ owner \notin Registering \cup {"preflight", "commit", "installed"}
<1>1. active.req = 0 /\ active = NoActive /\ ~HasStage(queue) /\ owner \notin Registering
  BY DEF LifeOK, CandidateOK, PlaceOK, NotYetActive
<1> QED
  BY <1>1 DEF LifeOK, PlaceOK, NoActive

\* The coordinator takes a record that came before any control.
LEMMA StagingTerminalLife ==
  ASSUME IInv, DrainStagingTerminal
  PROVE  LifeOK'
<1>1. /\ LifeOK /\ OpenTypeOK /\ PlayerTypeOK /\ ui = "idle"
      /\ open.phase = "PlayerStaging" /\ Waits(open)
      /\ open.req # 0 /\ open.req \in Requests /\ open.pending = "none"
      /\ terminal[open.req] # "none"
  BY RequestFacts
     DEF IInv, TypeOK, DrainStagingTerminal, Dispatched, Waits, LifeOK, CoordinatorOK
<1>2. UNCHANGED <<queue, staged, payload, phases, replies, committed, active, current,
                  owner, task, victim, allocated, known, ui>>
  BY DEF DrainStagingTerminal, sessionVars, ownerVars, intentVars
<1>3. /\ open'.phase = "Failed" /\ open'.terminal = "PlayerFailed" /\ open'.req = open.req
      /\ open'.pos = open.pos /\ open'.pending = open.pending
  BY <1>1 DEF DrainStagingTerminal, Fails, OpenTypeOK
<1>4. terminal'[open.req] = "taken" /\ \A r \in Requests : r # open.req => terminal'[r] = terminal[r]
  BY <1>1, RequestFacts DEF DrainStagingTerminal, PublishTerminal
<1>5. /\ active.req = 0 /\ active = NoActive /\ ~HasStage(queue)
      /\ owner \notin Registering \cup {"preflight", "commit", "installed"}
  BY <1>1, EndedFacts
<1>6. /\ ~HasControl(queue, open) /\ ~Handling /\ replies[open.req] = "none"
      /\ open.terminal = "none"
  BY <1>1, NoControlUnderWay DEF Waits
<1>7. StreamOK(queue, open', terminal') /\ ~HasControl(queue, open')
  BY <1>1, <1>3, <1>4, <1>6, StreamSameRequest DEF LifeOK
<1>8. CoordinatorOK'
  BY <1>1, <1>2, <1>3, <1>4, <1>6 DEF LifeOK, CoordinatorOK, Dispatched, Waits
<1>9. UnsentIsFresh'
  <2>1. ~(open.req > allocated)
    BY <1>1, RequestFacts DEF LifeOK, CoordinatorOK
  <2>2. \A r \in Requests : r > allocated => r # open.req
    BY <2>1
  <2> QED
    BY <1>1, <1>2, <1>4, <2>2 DEF LifeOK, UnsentIsFresh
<1>10. CandidateOK'
  BY <1>1, <1>2, <1>5 DEF CandidateOK
<1>11. PlaceOK'
  <2>1. victim # 0 => victim \in Requests
    BY RequestFacts
  <2> QED
    BY <1>1, <1>2, <1>3, <1>4, <1>5, <2>1 DEF LifeOK, PlaceOK, HasStage, Dispatched, Waits
<1>12. ControlOK'
  <2>1. ~Handling' /\ ~Waits(open')
    BY <1>3 DEF Handling, Live, Waits
  <2>2. LateReply => LateReply'
    <3>1. task.req # 0 => task.req \in Requests
      BY RequestFacts
    <3> QED
      BY <1>1, <1>2, <1>3, <1>4, <3>1 DEF LateReply, Late
  <2>3. /\ owner = "reply" => LateReply
        /\ owner = "forget" => task.op \notin Controls
    BY <1>1, <1>6 DEF LifeOK, ControlOK
  <2> QED
    BY <1>2, <1>5, <1>7, <2>1, <2>2, <2>3 DEF ControlOK
<1>13. AnswersFollowRecords' /\ CommitFindsItsIntent'
  BY <1>1, <1>2, <1>3
     DEF LifeOK, AnswersFollowRecords, CommitFindsItsIntent,
         Dispatched, Waits
<1> QED
  BY <1>2, <1>7, <1>8, <1>9, <1>10, <1>11, <1>12, <1>13 DEF LifeOK

\* The coordinator takes a phase, which is the one it expects.
LEMMA StagingPhaseLife ==
  ASSUME IInv, DrainStagingPhase
  PROVE  LifeOK'
<1>1. /\ LifeOK /\ OpenTypeOK /\ PlayerTypeOK /\ ui = "idle"
      /\ open.phase = "PlayerStaging" /\ Waits(open)
      /\ open.req # 0 /\ open.req \in Requests /\ open.pending = "none"
      /\ terminal[open.req] \in {"none", "taken"} /\ phases[open.req] # << >>
  BY RequestFacts
     DEF IInv, TypeOK, DrainStagingPhase, Dispatched, Waits, LifeOK, CoordinatorOK
<1>2. UNCHANGED <<queue, staged, payload, terminal, replies, committed, active, current,
                  owner, task, victim, allocated, known, ui>>
  BY DEF DrainStagingPhase, sessionVars, ownerVars, intentVars
<1>3. /\ terminal[open.req] = "none" /\ ~HasControl(queue, open) /\ ~Handling
      /\ replies[open.req] = "none" /\ open.terminal = "none"
  BY <1>1, NoControlUnderWay DEF Waits, LifeOK, ControlOK
<1>4. ~NotYetActive /\ ~HasStage(queue) /\ owner \notin Registering /\ owner # "installed"
  BY <1>1, <1>3 DEF LifeOK, PlaceOK, ControlOK, NotYetActive, Controls
<1>5. active.req = open.req /\ active.req # 0
  BY <1>1, <1>3, <1>4 DEF LifeOK, PlaceOK, CandidateOK
<1>6. \/ /\ active.state = "ReadyForPosition" /\ payload[open.req].same
         /\ open.pos = "WaitingForPlayerReady" /\ phases[open.req] = <<"ReadyForPosition">>
      \/ /\ active.state = "ReadyToCommit" /\ phases[open.req] = <<"ReadyToCommit">>
         /\ open.pos = IF payload[open.req].same THEN "PreparationDispatched" ELSE "NotRequired"
  BY <1>1, <1>5 DEF LifeOK, CandidateOK, CandidateStages
<1>7. /\ phases' = [phases EXCEPT ![open.req] = << >>]
      /\ \/ /\ Head(phases[open.req]) = "ReadyForPosition"
            /\ active.state = "ReadyForPosition" /\ open.pos = "WaitingForPlayerReady"
         \/ /\ Head(phases[open.req]) = "ReadyToCommit" /\ active.state = "ReadyToCommit"
            /\ open.pos \in {"PreparationDispatched", "NotRequired"}
  <2>1. \A x : Tail(<<x>>) = << >> /\ Head(<<x>>) = x
    OBVIOUS
  <2>2. phases' = [phases EXCEPT ![open.req] = Tail(phases[open.req])]
    BY DEF DrainStagingPhase
  <2> QED
    BY <1>6, <2>1, <2>2
<1>8. phases'[open.req] = << >> /\ \A r \in Requests : r # open.req => phases'[r] = phases[r]
  BY <1>1, <1>7, RequestFacts
<1>9. /\ open'.req = open.req /\ open'.pending = open.pending
      /\ open'.terminal = open.terminal
      /\ \/ /\ active.state = "ReadyForPosition" /\ open'.phase = open.phase
            /\ payload[open.req].same /\ open'.pos = "ReadyForPosition"
         \/ /\ active.state = "ReadyToCommit" /\ open'.phase = "ReadyToCommit"
            /\ open'.pos = IF payload[open.req].same THEN "ReadyToCommit" ELSE "NotRequired"
  <2>1. CASE open.pos = "WaitingForPlayerReady" /\ Head(phases[open.req]) = "ReadyForPosition"
    <3>1. open' = [open EXCEPT !.pos = "ReadyForPosition"]
      BY <2>1 DEF DrainStagingPhase
    <3> QED
      BY <3>1, <2>1, <1>1, <1>6, <1>7 DEF OpenTypeOK
  <2>2. CASE open.pos = "PreparationDispatched" /\ Head(phases[open.req]) = "ReadyToCommit"
    <3>1. open' = [open EXCEPT !.phase = "ReadyToCommit", !.pos = "ReadyToCommit"]
      BY <2>2 DEF DrainStagingPhase
    <3> QED
      BY <3>1, <2>2, <1>1, <1>6, <1>7 DEF OpenTypeOK
  <2>3. CASE open.pos = "NotRequired" /\ Head(phases[open.req]) = "ReadyToCommit"
    <3>1. open' = [open EXCEPT !.phase = "ReadyToCommit"]
      BY <2>3 DEF DrainStagingPhase
    <3> QED
      BY <3>1, <2>3, <1>1, <1>6, <1>7 DEF OpenTypeOK
  <2> QED
    BY <1>6, <1>7, <2>1, <2>2, <2>3
<1>10. open'.phase \in {"PlayerStaging", "ReadyToCommit"} /\ Waits(open')
  BY <1>1, <1>9 DEF Dispatched, Waits
<1>11. StreamOK(queue, open', terminal) /\ ~HasControl(queue, open')
  BY <1>1, <1>3, <1>6, <1>9, StreamSameRequest DEF LifeOK
<1>12. CoordinatorOK' /\ UnsentIsFresh'
  <2>1. \A r \in Requests : r > allocated => r # open.req
    BY <1>1, RequestFacts DEF LifeOK, CoordinatorOK
  <2>2. UnsentIsFresh'
    BY <1>1, <1>2, <1>8, <2>1 DEF LifeOK, UnsentIsFresh
  <2>3. CoordinatorOK'
    BY <1>1, <1>2, <1>3, <1>9, <1>10 DEF LifeOK, CoordinatorOK
  <2> QED
    BY <2>2, <2>3
<1>13. CandidateOK'
  BY <1>1, <1>2, <1>5, <1>8, <1>9, <1>10 DEF LifeOK, CandidateOK, CandidateStages
<1>14. PlaceOK'
  BY <1>1, <1>2, <1>4, <1>5, <1>9, <1>10 DEF LifeOK, PlaceOK, HasStage
<1>15. ControlOK'
  <2>1. (Handling' <=> Handling) /\ (LateReply' <=> LateReply)
    BY <1>2, <1>9 DEF Handling, LateReply, Live, Late
  <2> QED
    BY <1>1, <1>2, <1>3, <1>9, <1>10, <1>11, <2>1 DEF LifeOK, ControlOK
<1>16. AnswersFollowRecords' /\ CommitFindsItsIntent'
  BY <1>1, <1>2, <1>9, <1>10
     DEF LifeOK, AnswersFollowRecords, CommitFindsItsIntent
<1> QED
  BY <1>2, <1>11, <1>12, <1>13, <1>14, <1>15, <1>16 DEF LifeOK

\* The coordinator takes the answer to its control, and the record with it.
LEMMA DrainControlLife ==
  ASSUME IInv, DrainControl
  PROVE  LifeOK'
<1>1. /\ LifeOK /\ OpenTypeOK /\ PlayerTypeOK /\ ui = "idle"
      /\ open.phase \in {"DispatchPending", "Enqueued"} /\ open.phase \in Dispatched
      /\ open.req # 0 /\ open.req \in Requests /\ open.pending # "none"
      /\ replies[open.req] \notin {"none", "taken"}
  BY RequestFacts DEF IInv, TypeOK, DrainControl, Dispatched, LifeOK, CoordinatorOK
<1>2. UNCHANGED <<queue, staged, payload, phases, committed, active, current,
                  owner, task, victim, allocated, known, ui>>
  BY DEF DrainControl, sessionVars, ownerVars, intentVars
<1> DEFINE result == ControlResult(open.pending, replies[open.req], terminal[open.req])
<1>3. /\ terminal[open.req] # "none" /\ ~HasControl(queue, open) /\ ~Handling
      /\ owner = "reply" => LateReply
      /\ owner = "forget" => task.op \notin Controls
      /\ active.req = 0 /\ active = NoActive /\ ~HasStage(queue)
      /\ owner \notin Registering \cup {"preflight", "commit", "installed"}
      /\ result \in {"Installed", "Cancelled", "PlayerFailed", "UnexpectedAuthorizationOutcome"}
  <2>1. CASE Waits(open)
    <3>1. /\ Agree(replies[open.req], terminal[open.req]) /\ terminal[open.req] # "none"
          /\ terminal[open.req] # "taken" /\ ~HasControl(queue, open) /\ ~Handling
          /\ terminal[open.req] = "Installed" => open.pending = "Authorization"
      BY <1>1, <2>1 DEF LifeOK, ControlOK, Agree
    <3>2. /\ active.req = 0 /\ active = NoActive /\ ~HasStage(queue)
          /\ owner \notin Registering \cup {"preflight", "commit", "installed"}
      BY <1>1, <2>1, <3>1, EndedFacts
    <3>3. result \in {"Installed", "Cancelled", "PlayerFailed",
                      "UnexpectedAuthorizationOutcome"}
      BY <1>1, <3>1 DEF ControlResult, Agree, OpenTypeOK
    <3>4. /\ owner = "reply" => LateReply
          /\ owner = "forget" => task.op \notin Controls
      BY <1>1, <3>1 DEF LifeOK, ControlOK
    <3> QED
      BY <3>1, <3>2, <3>3, <3>4
  <2>2. CASE ~Waits(open)
    <3>1. open.terminal # "none" /\ open.pending = "Cancellation"
      BY <1>1, <2>2 DEF Waits, LifeOK, CoordinatorOK
    <3>2. replies[open.req] \in LateOutcomes /\ terminal[open.req] # "none"
      BY <1>1, <3>1 DEF LifeOK, CoordinatorOK
    <3>3. result = "UnexpectedAuthorizationOutcome"
      BY <3>1, <3>2 DEF ControlResult, LateOutcomes
    <3> QED
      BY <1>1, <2>2, <3>2, <3>3, NothingAtPlayer
  <2> QED
    BY <2>1, <2>2
<1>4. /\ open'.phase = IF result = "Installed" THEN "Installed" ELSE "Failed"
      /\ open'.terminal = result /\ open'.req = open.req
      /\ open'.pos = open.pos /\ open'.pending = "none"
  BY <1>1 DEF DrainControl, OpenTypeOK
<1> HIDE DEF result
<1>5. /\ terminal'[open.req] # "none"
      /\ \A r \in Requests : r # open.req => terminal'[r] = terminal[r]
      /\ \A r \in Requests : r # open.req => replies'[r] = replies[r]
      /\ replies'[open.req] = "taken"
  BY <1>1, <1>3, RequestFacts DEF DrainControl
<1>6. open'.phase \in {"Installed", "Failed"} /\ open'.terminal # "none" /\ ~Waits(open')
  BY <1>3, <1>4 DEF Waits
<1>7. StreamOK(queue, open', terminal') /\ ~HasControl(queue, open')
  BY <1>1, <1>3, <1>4, <1>5, <1>6, StreamSameRequest DEF LifeOK
<1>8. CoordinatorOK'
  BY <1>1, <1>2, <1>4, <1>5, <1>6 DEF LifeOK, CoordinatorOK, Dispatched
<1>9. UnsentIsFresh'
  <2>1. \A r \in Requests : r > allocated => r # open.req
    BY <1>1, RequestFacts DEF LifeOK, CoordinatorOK
  <2> QED
    BY <1>1, <1>2, <1>5, <2>1 DEF LifeOK, UnsentIsFresh
<1>10. CandidateOK' /\ PlaceOK'
  <2>1. victim # 0 => victim \in Requests
    BY RequestFacts
  <2> QED
    BY <1>1, <1>2, <1>3, <1>5, <1>6, <2>1 DEF LifeOK, CandidateOK, PlaceOK, HasStage
<1>11. ControlOK'
  <2>1. ~Handling'
    BY <1>4, <1>6 DEF Handling, Live
  <2>2. LateReply => LateReply'
    <3>1. task.req # 0 => task.req \in Requests
      BY RequestFacts
    <3> QED
      BY <1>2, <1>4, <1>5, <1>6, <3>1 DEF LateReply, Late
  <2> QED
    BY <1>2, <1>3, <1>6, <1>7, <2>1, <2>2 DEF ControlOK
<1>12. AnswersFollowRecords' /\ CommitFindsItsIntent'
  BY <1>1, <1>2, <1>3, <1>4 DEF LifeOK, AnswersFollowRecords, CommitFindsItsIntent
<1> QED
  BY <1>2, <1>7, <1>8, <1>9, <1>10, <1>11, <1>12 DEF LifeOK

\* The request of the candidate.
LEMMA CandidateFacts ==
  ASSUME IInv, active.req # 0
  PROVE  /\ active.req = open.req /\ Waits(open) /\ terminal[open.req] = "none"
         /\ open.req # 0 /\ open.req \in Requests /\ staged.req = open.req
         /\ ~HasStage(queue) /\ owner \notin Registering /\ owner # "installed"
<1>1. LifeOK
  BY DEF IInv
<1>2. active # NoActive
  BY DEF NoActive
<1> QED
  BY <1>1, <1>2, RequestFacts DEF LifeOK, CandidateOK, PlaceOK, NotYetActive

\* The end of a request before its commit, by whatever handler.
LEMMA EndLife ==
  ASSUME IInv, TypeOK', Waits(open), terminal[open.req] = "none",
         owner # "installed",
         NEW x \in {"Failed", "Cancelled"}, EndBeforeCommit(open.req, x),
         UNCHANGED <<phases, staged, payload, replies, committed, current, openVars>>,
         StreamOK(queue', open, terminal), ~HasStage(queue'),
         HasControl(queue', open) => HasControl(queue, open),
         task'.op = "Stage" => task'.req = open.req,
         task'.op \in Controls =>
            /\ task'.req = open.req /\ Awaits(open, task'.op)
            /\ Agree(task'.outcome, x) /\ ~HasControl(queue', open)
  PROVE  LifeOK'
<1>1. LifeOK /\ open.req # 0 /\ open.req \in Requests /\ PlayerTypeOK
  BY RequestFacts DEF IInv, LifeOK, CoordinatorOK, Waits, TypeOK
<1>2. /\ owner' = "forget" /\ victim' = open.req /\ active' = NoActive
      /\ terminal'[open.req] = x
      /\ \A r \in Requests : r # open.req => terminal'[r] = terminal[r]
  BY <1>1, RequestFacts DEF EndBeforeCommit, PublishTerminal, Goto
<1>3. UNCHANGED <<open, ui, allocated, known>>
  BY DEF openVars
<1>4. x # "none" /\ x # "taken" /\ x # "Installed"
  OBVIOUS
<1>5. StreamOK(queue', open, terminal')
  <2>1. queue' \in Seq(Command)
    BY DEF TypeOK, PlayerTypeOK
  <2>2. \A c \in Command : c.req # 0 => c.req \in Requests
    BY Bounds DEF Command, Requests
  <2>3. \A i \in DOMAIN queue' : queue'[i].req # 0 => queue'[i].req \in Requests
    BY <2>1, <2>2
  <2>4. \A i \in DOMAIN queue' : Late(queue'[i], open, terminal) => Late(queue'[i], open, terminal')
    BY <1>2, <1>4, <2>3 DEF Late
  <2> QED
    BY <1>2, <1>4, <2>3, <2>4 DEF StreamOK
<1>6. ui \notin {"send", "rollback"} /\ open.phase \notin {"Failed", "Installed"}
  BY <1>1 DEF LifeOK, CoordinatorOK, Dispatched, Waits
<1>7. CoordinatorOK'
  BY <1>1, <1>2, <1>3, <1>4, <1>6 DEF LifeOK, CoordinatorOK
<1>8. UnsentIsFresh'
  <2>1. \A r \in Requests : r > allocated => r # open.req
    BY <1>1, RequestFacts DEF LifeOK, CoordinatorOK
  <2> QED
    BY <1>1, <1>2, <1>3, <1>6, <2>1 DEF LifeOK, UnsentIsFresh
<1>9. CandidateOK'
  BY <1>2 DEF CandidateOK, NoActive
<1>10. PlaceOK'
  BY <1>1, <1>2, <1>3, <1>4 DEF PlaceOK, Registering
<1>11. replies[open.req] = "none"
  BY <1>1 DEF LifeOK, ControlOK, Agree
<1>12. ControlOK'
  <2>1. open.terminal = "none"
    BY DEF Waits
  <2>2. Handling' <=> task'.op \in Controls
    BY <1>2, <1>3, <2>1 DEF Handling, Live
  <2>3. HasControl(queue', open) => task'.op \notin Controls
    OBVIOUS
  <2> QED
    BY <1>1, <1>2, <1>3, <1>4, <1>11, <2>2, <2>3 DEF LifeOK, ControlOK
<1>14. AnswersFollowRecords' /\ CommitFindsItsIntent'
  BY <1>1, <1>2, <1>3, <1>4, <1>6
     DEF LifeOK, AnswersFollowRecords, CommitFindsItsIntent
<1> QED
  BY <1>3, <1>5, <1>7, <1>8, <1>9, <1>10, <1>12, <1>14 DEF LifeOK

\* The owner takes a command from the stream.
LEMMA ReceiveFacts ==
  ASSUME IInv, owner = "receive", NEW x, Begin(x)
  PROVE  /\ StreamOK(queue', open, terminal)
         /\ HasStage(queue') => HasStage(queue)
         /\ HasControl(queue', open) => HasControl(queue, open)
         /\ task'.op = Head(queue).op /\ task'.req = Head(queue).req /\ task'.outcome = x
         /\ task'.op = "Stage" =>
               HasStage(queue) /\ ~HasStage(queue') /\ task'.req = open.req
         /\ task'.op # "Stage" /\ HasStage(queue) => HasStage(queue')
         /\ Live(task', open) <=> Live(Head(queue), open)
         /\ Live(task', open) =>
               /\ HasControl(queue, open) /\ ~HasStage(queue') /\ ~HasControl(queue', open)
               /\ ~HasStage(queue) /\ task'.req = open.req /\ Awaits(open, task'.op)
         /\ Late(task', open, terminal) <=> Late(Head(queue), open, terminal)
         /\ task'.op \in Controls => Live(task', open) \/ Late(task', open, terminal)
         /\ ~Handling
<1>1. PlayerTypeOK /\ StreamOK(queue, open, terminal)
  BY DEF IInv, TypeOK, LifeOK
<1>2. queue # << >> /\ queue' = Tail(queue)
      /\ task'.op = Head(queue).op /\ task'.req = Head(queue).req /\ task'.outcome = x
  BY DEF Begin
<1>3. ~Handling
  BY DEF Handling
<1>4. /\ Live(task', open) <=> Live(Head(queue), open)
      /\ Late(task', open, terminal) <=> Late(Head(queue), open, terminal)
      /\ Live(task', open) => task'.req = open.req
  BY <1>2 DEF Live, Late
<1> QED
  BY <1>1, <1>2, <1>3, <1>4, StreamTail

\* A command that changes nothing of the request.
LEMMA SkipLife ==
  ASSUME IInv, owner = "receive", Begin("none"), owner' \in Quiet,
         Head(queue).op \notin Controls, Head(queue).op # "Stage",
         UNCHANGED <<staged, payload, phases, terminal, replies, committed, active, current,
                     openVars>>
  PROVE  LifeOK'
<1>1. LifeOK /\ UNCHANGED <<open, ui, allocated, known>>
  BY DEF IInv, openVars
<1>2. /\ StreamOK(queue', open, terminal)
      /\ HasStage(queue') <=> HasStage(queue)
      /\ HasControl(queue', open) => HasControl(queue, open)
  BY ReceiveFacts
<1>3. owner' \notin Registering \cup {"preflight", "commit", "installed", "forget", "reply",
                                      "panicked"}
  BY DEF Quiet, Registering
<1>4. ~Handling' /\ ~Handling
  BY <1>3 DEF Handling
<1>5. CoordinatorOK' /\ UnsentIsFresh' /\ CandidateOK'
  BY <1>1 DEF LifeOK, CoordinatorOK, UnsentIsFresh, CandidateOK, CandidateStages
<1>6. PlaceOK'
  BY <1>1, <1>2, <1>3 DEF LifeOK, PlaceOK, NotYetActive, Registering
<1>7. ControlOK'
  BY <1>1, <1>2, <1>3, <1>4 DEF LifeOK, ControlOK
<1>8. AnswersFollowRecords' /\ CommitFindsItsIntent'
  BY <1>1, <1>3
     DEF LifeOK, AnswersFollowRecords, CommitFindsItsIntent
<1> QED
  BY <1>1, <1>2, <1>5, <1>6, <1>7, <1>8 DEF LifeOK

\* A stage command: its request waits, so the slot still holds its intent.
LEMMA ReceiveStageLife ==
  ASSUME IInv, ReceiveStage, UNCHANGED openVars
  PROVE  LifeOK'
<1>1. LifeOK /\ UNCHANGED <<open, ui, allocated, known>>
  BY DEF IInv, openVars
<1>2. /\ StreamOK(queue', open, terminal) /\ HasStage(queue) /\ ~HasStage(queue')
      /\ HasControl(queue', open) => HasControl(queue, open)
      /\ task'.op = "Stage" /\ task'.req = open.req /\ Head(queue).req = open.req
  BY ReceiveFacts DEF ReceiveStage
<1>3. NotYetActive /\ staged.req = open.req
  BY <1>1, <1>2 DEF LifeOK, PlaceOK, NotYetActive
<1>4. /\ UNCHANGED <<terminal, staged, payload, phases, replies, committed, active, current>>
      /\ owner' = "supersede"
  BY <1>2, <1>3 DEF ReceiveStage, Goto, intentVars
<1>5. NotYetActive'
  BY <1>1, <1>3, <1>4 DEF NotYetActive
<1>6. owner = "receive"
  BY DEF ReceiveStage
<1>7. CoordinatorOK' /\ UnsentIsFresh' /\ CandidateOK'
  BY <1>1, <1>4 DEF LifeOK, CoordinatorOK, UnsentIsFresh, CandidateOK, CandidateStages
<1>8. PlaceOK'
  BY <1>1, <1>2, <1>4, <1>5 DEF LifeOK, PlaceOK, Registering
<1>9. ControlOK'
  <2>1. ~Handling'
    BY <1>4 DEF Handling
  <2> QED
    BY <1>1, <1>2, <1>4, <2>1 DEF LifeOK, ControlOK
<1>10. AnswersFollowRecords' /\ CommitFindsItsIntent'
  BY <1>1, <1>4, <1>6
     DEF LifeOK, AnswersFollowRecords, CommitFindsItsIntent
<1> QED
  BY <1>1, <1>2, <1>4, <1>7, <1>8, <1>9, <1>10 DEF LifeOK

\* The owner has no older candidate to supersede, and registers the request,
\* whose intent the slot already holds.
LEMMA RegisterLife ==
  ASSUME IInv, Supersede \/ Register, UNCHANGED openVars
  PROVE  LifeOK'
<1>1. LifeOK /\ UNCHANGED <<open, ui, allocated, known>> /\ IntentTypeOK /\ PlayerTypeOK
  BY DEF IInv, openVars, TypeOK
<1>2. owner \in Registering /\ NotYetActive /\ task.op = "Stage" /\ task.req = open.req
      /\ staged.req = open.req /\ active.req = 0
  BY <1>1 DEF LifeOK, PlaceOK, Supersede, Register, Registering, NotYetActive, NoActive
<1>3. /\ UNCHANGED <<queue, terminal, payload, phases, replies, committed, active, current, task>>
      /\ owner' \in {"register", "accept"}
  BY <1>2 DEF Supersede, Register, Goto, receiptVars, sessionVars
<1>4. staged'.req = staged.req
  BY <1>2 DEF Supersede, Register, RegisterStagedRequest, intentVars
<1>5. NotYetActive'
  BY <1>1, <1>2, <1>3, <1>4 DEF NotYetActive
<1>6. CoordinatorOK' /\ UnsentIsFresh' /\ CandidateOK'
  BY <1>1, <1>2, <1>3, <1>4
     DEF LifeOK, CoordinatorOK, UnsentIsFresh, CandidateOK, CandidateStages
<1>7. ~HasStage(queue)
  BY <1>1, <1>2 DEF LifeOK, PlaceOK
<1>8. PlaceOK'
  BY <1>1, <1>2, <1>3, <1>5, <1>7 DEF LifeOK, PlaceOK, Registering, HasStage
<1>9. ControlOK'
  <2>1. ~Handling' /\ owner' \notin {"commit", "installed", "forget", "reply"}
    BY <1>3 DEF Handling
  <2> QED
    BY <1>1, <1>3, <2>1 DEF LifeOK, ControlOK
<1>10. AnswersFollowRecords' /\ CommitFindsItsIntent'
  BY <1>1, <1>2, <1>3
     DEF LifeOK, AnswersFollowRecords, CommitFindsItsIntent, Registering
<1>11. StreamOK(queue', open', terminal')
  BY <1>1, <1>3 DEF LifeOK
<1> QED
  BY <1>6, <1>8, <1>9, <1>10, <1>11 DEF LifeOK

\* The candidate goes on, by whatever handler.
LEMMA CandidateLife ==
  ASSUME IInv, Waits(open), terminal[open.req] = "none",
         staged.req = open.req, owner \notin {"installed", "forget", "reply", "panicked"},
         open.phase = "PlayerStaging" \/ open.pending = "Cancellation",
         UNCHANGED <<staged, payload, terminal, replies, committed, current, openVars>>,
         active'.req = open.req,
         CandidateStages(active'.state, open.pos, phases'[open.req], payload[open.req].same),
         \A r \in Requests : r # open.req => phases'[r] = phases[r],
         StreamOK(queue', open, terminal), ~HasStage(queue'),
         HasControl(queue', open) => HasControl(queue, open),
         \/ owner' \in Quiet
         \/ /\ owner' = "preflight" /\ task'.op = "Stage" /\ task'.req = open.req
            /\ active'.state = "Accepted"
  PROVE  LifeOK'
<1>1. LifeOK /\ UNCHANGED <<open, ui, allocated, known>> /\ open.req # 0 /\ open.req \in Requests
  BY RequestFacts DEF IInv, openVars, LifeOK, CoordinatorOK, Waits
<1>2. /\ owner' \notin Registering \cup {"commit", "installed", "forget", "reply", "panicked"}
      /\ owner' = "preflight" => /\ task'.op = "Stage" /\ task'.req = open.req
                                 /\ active'.state = "Accepted"
  BY DEF Quiet, Registering
<1>3. ui \notin {"send", "rollback"} /\ open.phase \notin {"Failed", "Installed"}
  BY <1>1 DEF LifeOK, CoordinatorOK, Dispatched, Waits
<1>4. CoordinatorOK'
  BY <1>1 DEF LifeOK, CoordinatorOK
<1>5. UnsentIsFresh'
  <2>1. \A r \in Requests : r > allocated => r # open.req
    BY <1>1, RequestFacts DEF LifeOK, CoordinatorOK
  <2> QED
    BY <1>1, <1>3, <2>1 DEF LifeOK, UnsentIsFresh
<1>6. CandidateOK'
  BY <1>1 DEF CandidateOK
<1>7. PlaceOK'
  BY <1>1, <1>2 DEF PlaceOK
<1>8. replies[open.req] = "none"
  BY <1>1 DEF LifeOK, ControlOK, Agree
<1>9. ControlOK'
  <2>1. ~Handling'
    BY <1>2 DEF Handling
  <2>2. HasControl(queue', open) => HasControl(queue, open)
    OBVIOUS
  <2> QED
    BY <1>1, <1>2, <1>8, <2>1, <2>2 DEF LifeOK, ControlOK
<1>11. AnswersFollowRecords' /\ CommitFindsItsIntent'
  BY <1>1, <1>2, <1>3
     DEF LifeOK, AnswersFollowRecords, CommitFindsItsIntent
<1> QED
  BY <1>1, <1>4, <1>5, <1>6, <1>7, <1>9, <1>11 DEF LifeOK

\* The checks before the preflight end the request or make it the candidate.
LEMMA AcceptLife ==
  ASSUME IInv, TypeOK', Accept, UNCHANGED openVars
  PROVE  LifeOK'
<1>1. LifeOK /\ owner = "accept" /\ owner \in Registering
  BY DEF IInv, Accept, Registering
<1>2. /\ NotYetActive /\ ~HasStage(queue) /\ task.op = "Stage" /\ task.req = open.req
      /\ Waits(open) /\ terminal[open.req] = "none" /\ staged.req = open.req
      /\ open.phase = "PlayerStaging" \/ open.pending = "Cancellation"
      /\ phases[open.req] = << >>
      /\ open.pos = IF payload[open.req].same THEN "WaitingForPlayerReady" ELSE "NotRequired"
  BY <1>1 DEF LifeOK, PlaceOK, NotYetActive
<1>3. UNCHANGED <<queue, phases, staged, payload, replies, committed, current, task>>
  BY DEF Accept, intentVars
<1>4. StreamOK(queue', open, terminal) /\ ~HasStage(queue') /\ (HasControl(queue', open) => HasControl(queue, open))
  BY <1>1, <1>2, <1>3 DEF LifeOK
<1>5. task'.op \notin Controls /\ task'.op = "Stage" /\ task'.req = open.req
  BY <1>2, <1>3 DEF Controls
<1>6. CASE EndBeforeCommit(task.req, "Failed")
  BY <1>1, <1>2, <1>3, <1>4, <1>5, <1>6, EndLife
<1>7. CASE ~EndBeforeCommit(task.req, "Failed")
  <2>1. /\ active'.req = open.req /\ active'.state = "Accepted" /\ owner' = "preflight"
        /\ UNCHANGED terminal
    BY <1>2, <1>7 DEF Accept, Goto
  <2>2. CandidateStages(active'.state, open.pos, phases'[open.req], payload[open.req].same)
    BY <1>2, <1>3, <2>1 DEF CandidateStages
  <2> QED
    BY <1>1, <1>2, <1>3, <1>4, <1>5, <2>1, <2>2, CandidateLife
<1> QED
  BY <1>6, <1>7

\* A phase is published: the request's others are gone by then.
LEMMA PhaseFacts ==
  ASSUME IInv, phases[open.req] = << >>, open.req \in Requests, NEW ph,
         PublishPhase(open.req, ph)
  PROVE  /\ phases'[open.req] = <<ph>>
         /\ \A r \in Requests : r # open.req => phases'[r] = phases[r]
<1>1. Append(<< >>, ph) = <<ph>>
  OBVIOUS
<1>2. phases' = [phases EXCEPT ![open.req] = <<ph>>]
  BY <1>1 DEF PublishPhase
<1> QED
  BY <1>2, RequestFacts

\* The preflight of the candidate ends.
LEMMA PreflightLife ==
  ASSUME IInv, TypeOK', PreflightSettles, UNCHANGED openVars
  PROVE  LifeOK'
<1>1. LifeOK /\ owner \in {"preflight", "tick"} /\ active.state = "Accepted"
  BY DEF IInv, PreflightSettles
<1>2. active.req # 0
  BY <1>1 DEF LifeOK, CandidateOK, NoActive
<1>3. /\ active.req = open.req /\ Waits(open) /\ terminal[open.req] = "none"
      /\ open.req # 0 /\ open.req \in Requests /\ staged.req = open.req
      /\ ~HasStage(queue)
  BY <1>2, CandidateFacts
<1>4. /\ open.phase = "PlayerStaging" \/ open.pending = "Cancellation"
      /\ phases[open.req] = << >>
      /\ open.pos = IF payload[open.req].same THEN "WaitingForPlayerReady" ELSE "NotRequired"
  BY <1>1, <1>2 DEF LifeOK, CandidateOK, CandidateStages
<1>5. UNCHANGED <<queue, staged, payload, replies, committed, current>>
  BY DEF PreflightSettles, intentVars
<1>6. /\ task'.op \in {"Stage", "Tick"} /\ task'.op \notin Controls
      /\ task'.op = "Stage" => task'.req = open.req
  <2>1. CASE owner = "tick"
    BY <2>1 DEF PreflightSettles, NoTask, Controls
  <2>2. CASE owner = "preflight"
    BY <1>1, <1>3, <2>2 DEF PreflightSettles, LifeOK, PlaceOK, Controls
  <2> QED
    BY <1>1, <2>1, <2>2
<1>7. StreamOK(queue', open, terminal) /\ ~HasStage(queue') /\ (HasControl(queue', open) => HasControl(queue, open))
  BY <1>1, <1>3, <1>5 DEF LifeOK
<1>8. CASE EndBeforeCommit(active.req, "Failed") /\ UNCHANGED phases
  BY <1>1, <1>3, <1>5, <1>6, <1>7, <1>8, EndLife
<1>9. CASE ~(EndBeforeCommit(active.req, "Failed") /\ UNCHANGED phases)
  <2>1. /\ PublishPhase(open.req, ReadyPhase(open.req))
        /\ active' = [active EXCEPT !.state = ReadyPhase(open.req)]
        /\ owner' = AfterService /\ UNCHANGED terminal
    BY <1>3, <1>9 DEF PreflightSettles, Goto
  <2>2. active'.req = open.req /\ active'.state = ReadyPhase(open.req)
    BY <1>3, <2>1 DEF IInv, TypeOK, PlayerTypeOK
  <2>3. /\ phases'[open.req] = <<ReadyPhase(open.req)>>
        /\ \A r \in Requests : r # open.req => phases'[r] = phases[r]
    BY <1>3, <1>4, <2>1, PhaseFacts
  <2>4. CandidateStages(active'.state, open.pos, phases'[open.req], payload[open.req].same)
    BY <1>4, <2>2, <2>3 DEF CandidateStages, ReadyPhase, IInv, TypeOK, PlayerTypeOK
  <2>5. owner' \in Quiet
    BY <2>1 DEF AfterService, Quiet
  <2> QED
    BY <1>1, <1>3, <1>4, <1>5, <1>7, <2>1, <2>2, <2>3, <2>4, <2>5, CandidateLife
<1> QED
  BY <1>8, <1>9

\* The position gate ends the request or makes its candidate ready.
LEMMA GateLife ==
  ASSUME IInv, TypeOK', active.req # 0, open.pos = "PreparationDispatched",
         phases[open.req] = << >>, payload[open.req].same,
         active.state # "ReadyToCommit",
         owner \in {"receive", "tick"}, PositionGate(open.req),
         UNCHANGED <<staged, payload, replies, committed, current, openVars>>,
         StreamOK(queue', open, terminal), ~HasStage(queue'),
         HasControl(queue', open) => HasControl(queue, open),
         task'.op # "Stage", task'.op \notin Controls
  PROVE  LifeOK'
<1>1. /\ active.req = open.req /\ Waits(open) /\ terminal[open.req] = "none"
      /\ open.req # 0 /\ open.req \in Requests /\ staged.req = open.req
  BY CandidateFacts
<1>2. open.phase = "PlayerStaging" \/ open.pending = "Cancellation"
  BY DEF IInv, LifeOK, CandidateOK
<1>3. CASE EndBeforeCommit(open.req, "Failed") /\ UNCHANGED phases
  BY <1>1, <1>3, EndLife
<1>4. CASE ~(EndBeforeCommit(open.req, "Failed") /\ UNCHANGED phases)
  <2>1. /\ PublishPhase(open.req, "ReadyToCommit")
        /\ active' = [active EXCEPT !.state = "ReadyToCommit"]
        /\ owner' = AfterService /\ UNCHANGED terminal
    BY <1>4 DEF PositionGate, Goto
  <2>2. active'.req = open.req /\ active'.state = "ReadyToCommit"
    BY <1>1, <2>1 DEF IInv, TypeOK, PlayerTypeOK
  <2>3. /\ phases'[open.req] = <<"ReadyToCommit">>
        /\ \A r \in Requests : r # open.req => phases'[r] = phases[r]
    BY <1>1, <2>1, PhaseFacts
  <2>4. CandidateStages(active'.state, open.pos, phases'[open.req], payload[open.req].same)
    BY <2>2, <2>3 DEF CandidateStages
  <2>5. owner' \in Quiet
    BY <2>1 DEF AfterService, Quiet
  <2> QED
    BY <1>1, <1>2, <2>1, <2>2, <2>3, <2>4, <2>5, CandidateLife
<1> QED
  BY <1>3, <1>4

\* The position command, and the service that ends the preparation it began.
LEMMA PositionLife ==
  ASSUME IInv, TypeOK', ReceivePrepare \/ PositionSettles, UNCHANGED openVars
  PROVE  LifeOK'
<1>1. LifeOK /\ PlayerTypeOK
  BY DEF IInv, TypeOK
<1>2. CASE PositionSettles
  <2>1. /\ owner = "tick" /\ active.state = "PositionPreparing" /\ task'.op = "Tick"
        /\ UNCHANGED <<queue, staged, payload, replies, committed, current>>
        /\ PositionGate(active.req)
    BY <1>2 DEF PositionSettles, NoTask, intentVars
  <2>2. active.req # 0
    BY <1>1, <2>1 DEF LifeOK, CandidateOK, NoActive
  <2>3. active.req = open.req /\ ~HasStage(queue)
    BY <2>2, CandidateFacts
  <2>4. open.pos = "PreparationDispatched" /\ phases[open.req] = << >> /\ payload[open.req].same
    BY <1>1, <2>1, <2>2 DEF LifeOK, CandidateOK, CandidateStages
  <2>5. StreamOK(queue', open, terminal) /\ ~HasStage(queue') /\ (HasControl(queue', open) => HasControl(queue, open))
    BY <1>1, <2>1, <2>3 DEF LifeOK
  <2>6. task'.op # "Stage" /\ task'.op \notin Controls
    BY <2>1 DEF Controls
  <2> QED
    BY <2>1, <2>2, <2>3, <2>4, <2>5, <2>6, GateLife
<1>3. CASE ReceivePrepare
  <2>1. /\ owner = "receive" /\ queue # << >> /\ Head(queue).op = "Prepare" /\ Begin("none")
        /\ UNCHANGED <<staged, payload, replies, committed, current>>
    BY <1>3 DEF ReceivePrepare, intentVars
  <2>2. /\ StreamOK(queue', open, terminal)
        /\ HasStage(queue') => HasStage(queue)
        /\ HasControl(queue', open) => HasControl(queue, open)
        /\ task'.op = "Prepare" /\ task'.op # "Stage" /\ task'.op \notin Controls
    BY <2>1, ReceiveFacts DEF Controls
  <2>3. /\ Head(queue).req # 0
        /\ IF Head(queue).req = open.req
           THEN open.pos \in {"PreparationDispatched", "ReadyToCommit"}
           ELSE terminal[Head(queue).req] # "none"
    BY <1>1, <2>1, StreamTail DEF LifeOK
  <2> DEFINE begins == IsMatching(Head(queue).req) /\ active.state = "ReadyForPosition"
  <2>4. CASE ~begins
    <3>1. owner' = "top" /\ UNCHANGED <<phases, terminal, active>>
      BY <1>3, <2>4 DEF ReceivePrepare, Goto
    <3>2. owner' \in Quiet /\ Head(queue).op \notin Controls /\ Head(queue).op # "Stage"
      BY <3>1, <2>1 DEF Quiet, Controls
    <3> QED
      BY <2>1, <3>1, <3>2, SkipLife
  <2>5. CASE begins
    <3>1. active.req = Head(queue).req /\ active.req # 0 /\ active.state = "ReadyForPosition"
      BY <2>3, <2>5 DEF IsMatching
    <3>2. /\ active.req = open.req /\ Waits(open) /\ terminal[open.req] = "none"
          /\ open.req # 0 /\ open.req \in Requests /\ staged.req = open.req
          /\ ~HasStage(queue)
      BY <3>1, CandidateFacts
    <3>3. /\ open.pos = "PreparationDispatched" /\ phases[open.req] = << >>
          /\ payload[open.req].same
          /\ open.phase = "PlayerStaging" \/ open.pending = "Cancellation"
      BY <1>1, <2>3, <3>1, <3>2 DEF LifeOK, CandidateOK, CandidateStages
    <3>4. CASE PositionGate(open.req)
      BY <2>1, <2>2, <3>1, <3>2, <3>3, <3>4, GateLife
    <3>5. CASE ~PositionGate(open.req)
      <4>1. /\ active' = [active EXCEPT !.state = "PositionPreparing"]
            /\ owner' = "top" /\ UNCHANGED <<phases, terminal>>
        BY <1>3, <2>5, <3>1, <3>2, <3>5 DEF ReceivePrepare, Goto
      <4>2. active'.req = open.req /\ active'.state = "PositionPreparing" /\ owner' \in Quiet
        BY <1>1, <3>2, <4>1 DEF PlayerTypeOK, Quiet
      <4>3. CandidateStages(active'.state, open.pos, phases'[open.req], payload[open.req].same)
        BY <3>3, <4>1, <4>2 DEF CandidateStages
      <4> QED
        BY <2>1, <2>2, <3>2, <3>3, <4>1, <4>2, <4>3, CandidateLife
    <3> QED
      BY <3>4, <3>5
  <2> QED
    BY <2>4, <2>5
<1> QED
  BY <1>2, <1>3

\* A control that reaches the owner: the request is the candidate, or its record
\* is published already.
LEMMA ControlFacts ==
  ASSUME IInv, owner = "receive", queue # << >>, Live(Head(queue), open)
  PROVE  /\ Head(queue).req = open.req /\ Awaits(open, Head(queue).op)
         /\ Waits(open) /\ open.req # 0 /\ open.req \in Requests
         /\ replies[open.req] = "none" /\ terminal[open.req] # "Installed"
         /\ ~HasStage(queue)
         /\ active.req # open.req => terminal[open.req] # "none"
         /\ Head(queue).op = "Authorize" /\ active.req = open.req =>
               active.state = "ReadyToCommit"
<1>1. LifeOK /\ PlayerTypeOK /\ OpenTypeOK
  BY DEF IInv, TypeOK
<1>2. /\ HasControl(queue, open) /\ ~HasStage(queue)
      /\ Head(queue).req = open.req /\ Awaits(open, Head(queue).op)
  BY <1>1, StreamTail DEF LifeOK, Live
<1>3. /\ Waits(open) /\ replies[open.req] = "none"
      /\ terminal[open.req] # "Installed"
  BY <1>1, <1>2 DEF LifeOK, ControlOK
<1>4. open.req # 0 /\ open.req \in Requests
  BY <1>1, <1>3, RequestFacts DEF LifeOK, CoordinatorOK, Waits
<1>5. active.req # open.req => terminal[open.req] # "none"
  BY <1>1, <1>2, <1>3 DEF LifeOK, PlaceOK, CandidateOK, Registering
<1>6. Head(queue).op = "Authorize" /\ active.req = open.req => active.state = "ReadyToCommit"
  BY <1>1, <1>2, <1>4 DEF LifeOK, CandidateOK, CoordinatorOK, Awaits
<1> QED
  BY <1>2, <1>3, <1>4, <1>5, <1>6

\* A control for a request whose record is there is answered with that.
LEMMA MismatchLife ==
  ASSUME IInv, owner = "receive", NEW x \in {"AlreadyTerminal", "StaleRequest"}, Begin(x),
         Live(Head(queue), open), active.req # open.req, owner' = "reply",
         UNCHANGED <<staged, payload, phases, terminal, replies, committed, active, current,
                     openVars>>
  PROVE  LifeOK'
<1>1. LifeOK /\ UNCHANGED <<open, ui, allocated, known>> /\ queue # << >>
  BY DEF IInv, openVars, Begin
<1>2. /\ StreamOK(queue', open, terminal)
      /\ ~HasStage(queue') /\ ~HasControl(queue', open)
      /\ task'.op \in Controls /\ task'.req = open.req /\ task'.outcome = x
      /\ Awaits(open, task'.op) /\ Live(task', open)
  BY ReceiveFacts DEF Live
<1>3. /\ Waits(open) /\ open.req # 0 /\ terminal[open.req] # "none"
      /\ replies[open.req] = "none" /\ terminal[open.req] # "Installed"
  BY <1>1, ControlFacts
<1>4. Agree(x, terminal[open.req])
  BY <1>3 DEF Agree, ControlOutcomes
<1>5. CoordinatorOK' /\ UnsentIsFresh' /\ CandidateOK'
  BY <1>1 DEF LifeOK, CoordinatorOK, UnsentIsFresh, CandidateOK, CandidateStages
<1>6. PlaceOK'
  BY <1>1, <1>2, <1>3 DEF LifeOK, PlaceOK, Registering
<1>7. ControlOK'
  <2>1. Handling'
    BY <1>1, <1>2 DEF Handling
  <2> QED
    BY <1>1, <1>2, <1>3, <1>4, <2>1 DEF LifeOK, ControlOK
<1>8. AnswersFollowRecords' /\ CommitFindsItsIntent'
  BY <1>1, <1>3
     DEF LifeOK, AnswersFollowRecords, CommitFindsItsIntent
<1> QED
  BY <1>1, <1>2, <1>5, <1>6, <1>7, <1>8 DEF LifeOK

\* A late cancel finds no candidate of its own, and is answered with that.
LEMMA LateMismatchLife ==
  ASSUME IInv, owner = "receive", NEW x \in LateOutcomes, Begin(x),
         Late(Head(queue), open, terminal), owner' = "reply",
         UNCHANGED <<staged, payload, phases, terminal, replies, committed, active, current,
                     openVars>>
  PROVE  LifeOK'
<1>1. LifeOK /\ UNCHANGED <<open, ui, allocated, known>> /\ queue # << >>
  BY DEF IInv, openVars, Begin
<1>2. /\ StreamOK(queue', open, terminal) /\ Late(task', open, terminal) /\ task'.outcome = x
      /\ HasStage(queue') <=> HasStage(queue)
      /\ HasControl(queue', open) => HasControl(queue, open)
  <2>1. Head(queue).op # "Stage"
    BY DEF Late
  <2> QED
    BY <2>1, ReceiveFacts
<1>3. ~Handling' /\ LateReply'
  <2>1. ~Live(task', open)
    BY <1>2 DEF Live, Late
  <2> QED
    BY <1>1, <1>2, <2>1 DEF Handling, LateReply
<1>4. CoordinatorOK' /\ UnsentIsFresh' /\ CandidateOK'
  BY <1>1 DEF LifeOK, CoordinatorOK, UnsentIsFresh, CandidateOK, CandidateStages
<1>5. NotYetActive' <=> NotYetActive
  BY <1>1 DEF NotYetActive
<1>6. PlaceOK'
  BY <1>1, <1>2, <1>5 DEF LifeOK, PlaceOK, Registering
<1>7. ControlOK'
  BY <1>1, <1>2, <1>3 DEF LifeOK, ControlOK
<1>8. AnswersFollowRecords' /\ CommitFindsItsIntent'
  BY <1>1 DEF LifeOK, AnswersFollowRecords, CommitFindsItsIntent
<1> QED
  BY <1>1, <1>2, <1>4, <1>6, <1>7, <1>8 DEF LifeOK

\* An authorization: the candidate goes to its commit, is rejected, or ended
\* before.
LEMMA AuthorizeLife ==
  ASSUME IInv, TypeOK', ReceiveAuthorize, UNCHANGED openVars
  PROVE  LifeOK'
<1> DEFINE r == Head(queue).req
<1>1. /\ LifeOK /\ owner = "receive" /\ queue # << >> /\ Head(queue).op = "Authorize"
      /\ Head(queue).op \in Controls /\ Live(Head(queue), open)
      /\ UNCHANGED <<staged, payload, phases, replies, committed, current, open, ui, allocated,
                     known>>
  <2>1. /\ LifeOK /\ owner = "receive" /\ queue # << >> /\ Head(queue).op = "Authorize"
        /\ Head(queue).op \in Controls
        /\ UNCHANGED <<staged, payload, phases, replies, committed, current, open, ui, allocated,
                       known>>
    BY DEF IInv, ReceiveAuthorize, Controls, intentVars, openVars
  <2>2. PlayerTypeOK /\ StreamOK(queue, open, terminal)
    BY DEF IInv, TypeOK, LifeOK
  <2>3. ~Late(Head(queue), open, terminal)
    BY <2>1 DEF Late
  <2> QED
    BY <2>1, <2>2, <2>3, StreamTail
<1>2. /\ r = open.req /\ Awaits(open, Head(queue).op)
      /\ Waits(open) /\ open.req # 0 /\ open.req \in Requests
      /\ replies[open.req] = "none" /\ terminal[open.req] # "Installed"
      /\ ~HasStage(queue)
      /\ active.req # open.req => terminal[open.req] # "none"
      /\ active.req = open.req => active.state = "ReadyToCommit"
  BY <1>1, ControlFacts
<1>3. ASSUME NEW x, Begin(x)
      PROVE  /\ StreamOK(queue', open, terminal)
             /\ ~HasStage(queue') /\ ~HasControl(queue', open)
             /\ task'.op = "Authorize" /\ task'.op \in Controls /\ task'.req = open.req
             /\ task'.outcome = x /\ Awaits(open, task'.op) /\ task'.op # "Stage"
  BY <1>1, <1>3, ReceiveFacts
<1>4. CASE active.req # open.req
  <2>1. PICK x \in {"AlreadyTerminal", "StaleRequest"} : Begin(x)
    BY <1>2, <1>4 DEF ReceiveAuthorize, IsMatching, Mismatch
  <2>2. owner' = "reply" /\ UNCHANGED <<terminal, active>>
    BY <1>2, <1>4 DEF ReceiveAuthorize, IsMatching, Goto
  <2> QED
    BY <1>1, <1>4, <2>1, <2>2, MismatchLife
<1>5. CASE /\ active.req = open.req /\ Begin("AuthorizationRejectedBeforeCommit")
           /\ EndBeforeCommit(open.req, "Failed")
  <2>1. terminal[open.req] = "none"
    BY <1>2, <1>5, CandidateFacts
  <2>2. Agree(task'.outcome, "Failed")
    BY <1>3, <1>5 DEF Agree, ControlOutcomes
  <2> QED
    BY <1>1, <1>2, <1>3, <1>5, <2>1, <2>2, EndLife
<1>6. CASE /\ active.req = open.req /\ Begin("AuthorizationAccepted")
           /\ owner' = "commit" /\ UNCHANGED <<terminal, active>>
  <2>1. /\ StreamOK(queue', open, terminal)
        /\ ~HasStage(queue') /\ ~HasControl(queue', open)
        /\ task'.op = "Authorize" /\ task'.op \in Controls /\ task'.req = open.req
        /\ task'.outcome = "AuthorizationAccepted" /\ Awaits(open, task'.op)
    BY <1>3, <1>6
  <2>2. CoordinatorOK' /\ UnsentIsFresh' /\ CandidateOK'
    BY <1>1, <1>6 DEF LifeOK, CoordinatorOK, UnsentIsFresh, CandidateOK, CandidateStages
  <2>3. PlaceOK'
    BY <1>1, <1>2, <1>6, <2>1 DEF LifeOK, PlaceOK, Registering
  <2>4. ControlOK'
    <3>1. Handling'
      BY <1>1, <1>2, <1>6, <2>1 DEF Handling, Live, Waits
    <3> QED
      BY <1>1, <1>2, <1>6, <2>1, <3>1 DEF LifeOK, ControlOK
  <2>5. AnswersFollowRecords' /\ CommitFindsItsIntent'
    BY <1>1, <1>6
       DEF LifeOK, AnswersFollowRecords, CommitFindsItsIntent
  <2> QED
    BY <1>1, <1>6, <2>1, <2>2, <2>3, <2>4, <2>5 DEF LifeOK
<1> QED
  BY <1>2, <1>4, <1>5, <1>6 DEF ReceiveAuthorize, IsMatching, Goto

\* A cancellation: it ends the candidate, or the request has ended before.
LEMMA CancelLife ==
  ASSUME IInv, TypeOK', ReceiveCancel, UNCHANGED openVars
  PROVE  LifeOK'
<1>1. /\ LifeOK /\ owner = "receive" /\ queue # << >> /\ Head(queue).op = "Cancel"
      /\ Head(queue).op \in Controls
      /\ UNCHANGED <<staged, payload, phases, replies, committed, current, open, ui, allocated,
                     known>>
  BY DEF IInv, ReceiveCancel, Controls, intentVars, openVars
<1> DEFINE c == Head(queue)
<1>2. Live(c, open) \/ Late(c, open, terminal)
  <2>1. PlayerTypeOK /\ StreamOK(queue, open, terminal)
    BY DEF IInv, TypeOK, LifeOK
  <2> QED
    BY <1>1, <2>1, StreamTail
<1>3. CASE Late(c, open, terminal)
  <2>1. c.req # 0 /\ terminal[c.req] # "none"
    BY <1>3 DEF Late
  <2>2. active.req # c.req
    BY <2>1, CandidateFacts
  <2>3. PICK x \in LateOutcomes : Begin(x)
    BY <2>2 DEF ReceiveCancel, IsMatching, Mismatch, LateOutcomes
  <2>4. owner' = "reply" /\ UNCHANGED <<terminal, active>>
    BY <2>2 DEF ReceiveCancel, IsMatching, Goto
  <2> QED
    BY <1>1, <1>3, <2>3, <2>4, LateMismatchLife
<1>4. CASE Live(c, open)
  <2>1. /\ c.req = open.req /\ Waits(open) /\ open.req # 0
        /\ open.req \in Requests
    BY <1>1, <1>4, ControlFacts
  <2>2. CASE active.req # open.req
    <3>1. PICK x \in {"AlreadyTerminal", "StaleRequest"} : Begin(x)
      BY <2>1, <2>2 DEF ReceiveCancel, IsMatching, Mismatch
    <3>2. owner' = "reply" /\ UNCHANGED <<terminal, active>>
      BY <2>1, <2>2 DEF ReceiveCancel, IsMatching, Goto
    <3> QED
      BY <1>1, <1>4, <2>2, <3>1, <3>2, MismatchLife
  <2>3. CASE active.req = open.req
    <3>1. Begin("CancellationAccepted") /\ EndBeforeCommit(open.req, "Cancelled")
      BY <2>1, <2>3 DEF ReceiveCancel, IsMatching
    <3>2. /\ StreamOK(queue', open, terminal)
          /\ ~HasStage(queue') /\ ~HasControl(queue', open)
          /\ task'.op = "Cancel" /\ task'.req = open.req
          /\ task'.outcome = "CancellationAccepted" /\ Awaits(open, task'.op)
      BY <1>1, <1>4, <3>1, ReceiveFacts
    <3>3. terminal[open.req] = "none"
      BY <2>1, <2>3, CandidateFacts
    <3>4. Agree(task'.outcome, "Cancelled")
      BY <3>2 DEF Agree, ControlOutcomes
    <3> QED
      BY <1>1, <2>1, <3>1, <3>2, <3>3, <3>4, EndLife
  <2> QED
    BY <2>2, <2>3
<1> QED
  BY <1>2, <1>3, <1>4

\* A stop or a release: the stop ends a candidate first.
LEMMA StopLife ==
  ASSUME IInv, TypeOK', ReceiveStop \/ ReceiveRelease, UNCHANGED openVars
  PROVE  LifeOK'
<1>1. /\ LifeOK /\ owner = "receive" /\ Begin("none") /\ Head(queue).op \in {"Stop", "Release"}
      /\ Head(queue).op \notin Controls /\ Head(queue).op # "Stage"
      /\ UNCHANGED <<staged, payload, phases, replies, committed, current>>
  BY DEF IInv, ReceiveStop, ReceiveRelease, Controls, intentVars, receiptVars, sessionVars
<1>2. CASE UNCHANGED <<terminal, active>> /\ owner' \in {"stop", "top"}
  <2>1. owner' \in Quiet
    BY <1>2 DEF Quiet
  <2> QED
    BY <1>1, <1>2, <2>1, SkipLife
<1>3. CASE active.req # 0 /\ EndBeforeCommit(active.req, "Cancelled")
  <2>1. /\ active.req = open.req /\ Waits(open) /\ terminal[open.req] = "none"
        /\ open.req # 0 /\ open.req \in Requests /\ ~HasStage(queue)
    BY <1>3, CandidateFacts
  <2>2. /\ StreamOK(queue', open, terminal) /\ ~HasStage(queue')
        /\ HasControl(queue', open) => HasControl(queue, open)
        /\ task'.op \notin Controls /\ task'.op # "Stage"
    BY <1>1, <2>1, ReceiveFacts
  <2> QED
    BY <1>1, <1>3, <2>1, <2>2, EndLife
<1> QED
  BY <1>2, <1>3 DEF ReceiveStop, ReceiveRelease, Goto, receiptVars, sessionVars

\* The commit finds the staged intent of its request, and switches to it.
LEMMA CommitLife ==
  ASSUME IInv, Commit, UNCHANGED openVars
  PROVE  LifeOK'
<1>1. /\ LifeOK /\ owner = "commit" /\ UNCHANGED <<open, ui, allocated, known>>
      /\ UNCHANGED <<queue, payload, phases, terminal, replies, task, victim>>
  BY DEF IInv, Commit, openVars
<1>2. /\ task.op = "Authorize" /\ task.outcome = "AuthorizationAccepted"
      /\ task.req = active.req /\ active.state = "ReadyToCommit"
  BY <1>1 DEF LifeOK, PlaceOK
<1>3. active.req # 0
  BY <1>1, <1>2 DEF LifeOK, CandidateOK, NoActive
<1>4. /\ active.req = open.req /\ Waits(open) /\ terminal[open.req] = "none"
      /\ open.req # 0 /\ open.req \in Requests /\ staged.req = open.req /\ ~HasStage(queue)
  BY <1>3, CandidateFacts
<1>5. Handling /\ open.pending = "Authorization" /\ replies[open.req] = "none"
      /\ ~HasControl(queue, open)
  BY <1>1, <1>2 DEF LifeOK, ControlOK, Controls, Awaits
<1>6. open.phase \in {"DispatchPending", "Enqueued"}
  BY <1>1, <1>5 DEF LifeOK, CoordinatorOK
<1>7. /\ current' = open.req /\ active' = NoActive /\ owner' = "installed"
      /\ committed' = [committed EXCEPT ![open.req] = staged.rev]
  BY <1>2, <1>4 DEF Commit, Goto
<1>8. \A r \in Requests : r # open.req => committed'[r] = committed[r]
  BY <1>4, <1>7, RequestFacts
<1>9. CoordinatorOK'
  BY <1>1, <1>4, <1>6 DEF LifeOK, CoordinatorOK
<1>10. UnsentIsFresh'
  <2>1. \A r \in Requests : r > allocated => r # open.req
    BY <1>1, <1>4, RequestFacts DEF LifeOK, CoordinatorOK
  <2>2. ui \notin {"send", "rollback"}
    BY <1>1, <1>6 DEF LifeOK, CoordinatorOK
  <2> QED
    BY <1>1, <1>8, <2>1, <2>2 DEF LifeOK, UnsentIsFresh
<1>11. CandidateOK'
  BY <1>7 DEF CandidateOK, NoActive
<1>12. PlaceOK'
  BY <1>1, <1>2, <1>4, <1>7 DEF PlaceOK, Registering, HasStage
<1>13. ControlOK'
  <2>1. Handling'
    BY <1>1, <1>5, <1>7 DEF Handling
  <2> QED
    BY <1>1, <1>2, <1>4, <1>5, <1>7, <2>1 DEF LifeOK, ControlOK
<1>14. AnswersFollowRecords' /\ CommitFindsItsIntent'
  BY <1>1, <1>4, <1>6, <1>7
     DEF LifeOK, AnswersFollowRecords, CommitFindsItsIntent
<1>15. StreamOK(queue', open', terminal')
  BY <1>1 DEF LifeOK
<1> QED
  BY <1>9, <1>10, <1>11, <1>12, <1>13, <1>14, <1>15 DEF LifeOK

\* The record of the commit is published before the authorization is answered.
LEMMA InstalledLife ==
  ASSUME IInv, PublishInstalled, UNCHANGED openVars
  PROVE  LifeOK'
<1>1. /\ LifeOK /\ owner = "installed" /\ UNCHANGED <<open, ui, allocated, known>>
      /\ UNCHANGED <<staged, queue, payload, phases, replies, committed, active, current, task,
                     victim>>
      /\ PlayerTypeOK
  BY DEF IInv, TypeOK, PublishInstalled, openVars, intentVars
<1>2. /\ task.op = "Authorize" /\ task.outcome = "AuthorizationAccepted"
      /\ task.req = open.req /\ terminal[open.req] = "none"
      /\ active = NoActive /\ current = open.req
  BY <1>1 DEF LifeOK, PlaceOK
<1>3. /\ Handling /\ open.pending = "Authorization" /\ replies[open.req] = "none"
      /\ ~HasControl(queue, open) /\ Waits(open)
  BY <1>1, <1>2 DEF LifeOK, ControlOK, Controls, Awaits
<1>4. open.phase \in {"DispatchPending", "Enqueued"} /\ open.req # 0 /\ open.req \in Requests
  BY <1>1, <1>3, RequestFacts DEF LifeOK, CoordinatorOK, Waits
<1>5. ~HasStage(queue)
  BY <1>1, <1>3, <1>4 DEF LifeOK, PlaceOK, NotYetActive
<1>6. /\ owner' = "reply" /\ terminal'[open.req] = "Installed"
      /\ \A r \in Requests : r # open.req => terminal'[r] = terminal[r]
  BY <1>2, <1>4, RequestFacts DEF PublishInstalled, PublishTerminal, Goto
<1>7. StreamOK(queue, open, terminal')
  <2>1. \A r \in Requests : terminal[r] # "none" => terminal'[r] # "none"
    BY <1>2, <1>6
  <2> QED
    BY <1>1, <2>1, StreamSameRequest DEF LifeOK
<1>8. CoordinatorOK'
  BY <1>1, <1>4, <1>6 DEF LifeOK, CoordinatorOK
<1>9. UnsentIsFresh'
  <2>1. \A r \in Requests : r > allocated => r # open.req
    BY <1>1, <1>4, RequestFacts DEF LifeOK, CoordinatorOK
  <2>2. ui \notin {"send", "rollback"}
    BY <1>1, <1>4 DEF LifeOK, CoordinatorOK
  <2> QED
    BY <1>1, <1>6, <2>1, <2>2 DEF LifeOK, UnsentIsFresh
<1>10. CandidateOK'
  BY <1>1, <1>2 DEF CandidateOK, NoActive
<1>11. PlaceOK'
  BY <1>1, <1>2, <1>5, <1>6 DEF PlaceOK, Registering, HasStage
<1>12. ControlOK'
  <2>1. Handling'
    BY <1>1, <1>3, <1>6 DEF Handling
  <2>2. Agree("AuthorizationAccepted", "Installed")
    BY DEF Agree, ControlOutcomes
  <2> QED
    BY <1>1, <1>2, <1>3, <1>6, <2>1, <2>2 DEF LifeOK, ControlOK
<1>13. AnswersFollowRecords' /\ CommitFindsItsIntent'
  BY <1>1, <1>2, <1>4, <1>6
     DEF LifeOK, AnswersFollowRecords, CommitFindsItsIntent
<1> QED
  BY <1>1, <1>7, <1>8, <1>9, <1>10, <1>11, <1>12, <1>13 DEF LifeOK

\* The staged intent of an ended request is forgotten: the slot of a request
\* that waits, or is about to be sent, is another one.
LEMMA ForgetLife ==
  ASSUME IInv, ForgetVictim, UNCHANGED openVars
  PROVE  LifeOK'
<1>1. /\ LifeOK /\ owner = "forget" /\ UNCHANGED <<open, ui, allocated, known>>
      /\ UNCHANGED <<queue, payload, phases, terminal, replies, committed, active, current, task>>
      /\ PlayerTypeOK
  BY DEF IInv, TypeOK, ForgetVictim, openVars, receiptVars
<1>2. /\ victim # 0 /\ terminal[victim] # "none" /\ victim \in Requests
      /\ task.op = "Stage" => task.req = victim
  BY <1>1, RequestFacts DEF LifeOK, PlaceOK
<1>3. staged.req # victim => staged' = staged
  BY DEF ForgetVictim, ForgetStagedRequest
<1>4. /\ owner' = AfterForget
      /\ owner' \in {"reply", "stop", "wait", "top"}
      /\ owner' = "reply" <=> task.op \in Controls
  BY <1>2 DEF ForgetVictim, Goto, AfterForget, Controls
<1>5. ui \in {"send", "rollback"} => staged.req # victim
  <2>1. ui \in {"send", "rollback"} => terminal[allocated] = "none" /\ staged.req = allocated
    BY <1>1, RequestFacts DEF LifeOK, UnsentIsFresh, CoordinatorOK
  <2> QED
    BY <1>2, <2>1
<1>6. CoordinatorOK' /\ UnsentIsFresh'
  BY <1>1, <1>3, <1>5 DEF LifeOK, CoordinatorOK, UnsentIsFresh
<1>7. CandidateOK'
  BY <1>1, <1>2, <1>3 DEF LifeOK, CandidateOK, CandidateStages
<1>8. NotYetActive => NotYetActive'
  BY <1>1, <1>2, <1>3 DEF NotYetActive
<1>9. PlaceOK'
  BY <1>1, <1>4, <1>8 DEF LifeOK, PlaceOK, Registering, HasStage
<1>10. ControlOK'
  <2>1. Handling' <=> Handling
    BY <1>1, <1>4 DEF Handling, Live
  <2>2. owner' = "reply" => Handling'
    BY <1>1, <1>4, <2>1 DEF LifeOK, ControlOK
  <2> QED
    BY <1>1, <1>4, <2>1, <2>2 DEF LifeOK, ControlOK
<1>11. AnswersFollowRecords' /\ CommitFindsItsIntent'
  BY <1>1, <1>4
     DEF LifeOK, AnswersFollowRecords, CommitFindsItsIntent
<1>12. StreamOK(queue', open', terminal')
  BY <1>1 DEF LifeOK
<1> QED
  BY <1>6, <1>7, <1>9, <1>10, <1>11, <1>12 DEF LifeOK

\* The answer agrees with the record that came before it.
LEMMA ReplyLife ==
  ASSUME IInv, Reply, UNCHANGED openVars
  PROVE  LifeOK'
<1>1. /\ LifeOK /\ owner = "reply" /\ owner' = "top" /\ UNCHANGED <<open, ui, allocated, known>>
      /\ UNCHANGED <<queue, staged, payload, phases, terminal, committed, active, current, task,
                     victim>>
      /\ OpenTypeOK
  BY DEF IInv, TypeOK, Reply, openVars, intentVars, sessionVars, Goto
<1>2. \/ /\ Handling /\ task.req = open.req /\ Waits(open)
         /\ Agree(task.outcome, terminal[open.req]) /\ Awaits(open, task.op)
         /\ ~HasControl(queue, open)
      \/ /\ LateReply /\ task.req # 0 /\ task.outcome \in LateOutcomes
         /\ task.req = open.req => open.terminal # "none"
  BY <1>1 DEF LifeOK, ControlOK, Handling, Live, LateReply, Late
<1>3. task.req # 0 /\ task.req \in Requests /\ terminal[task.req] # "none"
  <2>1. Waits(open) => open.req # 0
    BY <1>1 DEF LifeOK, CoordinatorOK, Waits
  <2> QED
    BY <1>2, <2>1, RequestFacts DEF Agree, LateReply, Late
<1>4. /\ replies'[task.req] = task.outcome
      /\ \A r \in Requests : r # task.req => replies'[r] = replies[r]
  BY <1>3, RequestFacts DEF Reply
<1>5. Waits(open) => open.req # 0 /\ open.req \in Requests /\ open.terminal = "none"
  BY <1>1, RequestFacts DEF LifeOK, CoordinatorOK, Waits
<1>6. CoordinatorOK'
  <2>1. open.terminal # "none" /\ open.req # 0 =>
          replies'[open.req] \in {"none", "taken"} \cup LateOutcomes
    <3> SUFFICES ASSUME open.terminal # "none", open.req # 0
                 PROVE  replies'[open.req] \in {"none", "taken"} \cup LateOutcomes
      OBVIOUS
    <3>1. replies[open.req] \in {"none", "taken"} \cup LateOutcomes /\ open.req \in Requests
      BY <1>1, RequestFacts DEF LifeOK, CoordinatorOK
    <3>2. task.req = open.req => task.outcome \in LateOutcomes
      BY <1>2 DEF Waits
    <3> QED
      BY <1>4, <3>1, <3>2
  <2> QED
    BY <1>1, <2>1 DEF LifeOK, CoordinatorOK
<1>7. UnsentIsFresh'
  BY <1>1, <1>3, <1>4 DEF LifeOK, UnsentIsFresh
<1>8. CandidateOK'
  BY <1>1 DEF LifeOK, CandidateOK, CandidateStages
<1>9. PlaceOK'
  <2>1. NotYetActive => NotYetActive'
    BY <1>1 DEF NotYetActive
  <2> QED
    BY <1>1, <2>1 DEF LifeOK, PlaceOK, Registering, HasStage
<1>10. ControlOK'
  <2>1. ~Handling'
    BY <1>1 DEF Handling
  <2>2. CASE task.req = open.req /\ Waits(open)
    <3>1. /\ Agree(task.outcome, terminal[open.req]) /\ Awaits(open, task.op)
          /\ ~HasControl(queue, open) /\ open.pending # "none"
      BY <1>2, <1>5, <2>2 DEF Awaits
    <3> QED
      BY <1>1, <1>4, <2>1, <2>2, <3>1 DEF LifeOK, ControlOK
  <2>3. CASE ~(task.req = open.req /\ Waits(open))
    <3>1. Waits(open) => replies'[open.req] = replies[open.req]
      BY <1>4, <1>5, <2>3
    <3> QED
      BY <1>1, <2>1, <3>1 DEF LifeOK, ControlOK
  <2> QED
    BY <2>2, <2>3
<1>11. AnswersFollowRecords' /\ CommitFindsItsIntent'
  BY <1>1
     DEF LifeOK, AnswersFollowRecords, CommitFindsItsIntent
<1>12. StreamOK(queue', open', terminal')
  BY <1>1 DEF LifeOK
<1> QED
  BY <1>6, <1>7, <1>8, <1>9, <1>10, <1>11, <1>12 DEF LifeOK

\* Every step keeps the life of the request.
LEMMA LifeKept == IInv /\ Next => LifeOK'
<1> SUFFICES ASSUME IInv, Next PROVE LifeOK'
  OBVIOUS
<1>1. TypeOK'
  BY TypesKept
<1>2. CASE Opening
  <2>1. AuthorizeReady \/ AuthorizeReadySameLineage => open.terminal = "none"
    BY DEF AuthorizeReady, AuthorizeReadySameLineage, Authorize, IInv, LifeOK, CoordinatorOK,
           Dispatched
  <2>2. AuthorizeReady \/ AuthorizeReadySameLineage \/ CancelAtPlayer => LifeOK'
    BY <2>1, ControlSendLife, LateCancelLife
  <2> QED
    BY <1>2, <2>2, PreparationLife, BeginStageLife, SendStageLife, RollbackLife,
       StagingTerminalLife, StagingPhaseLife, PreparePositionLife, DrainControlLife,
       TakeTerminalLife
       DEF Opening
<1>3. CASE UserStep
  BY <1>3, UpdateLife, OtherSendLife DEF UserStep
<1>4. CASE OwnerStep
  <2>1. UNCHANGED openVars /\ PlayerStep
    BY <1>4 DEF OwnerStep
  <2>2. CASE Drain \/ EndBatch \/ TickWithoutCandidate \/ WakeUp
    BY <2>1, <2>2, QuietLife
  <2>3. CASE Staging
    BY <1>1, <2>1, <2>3, QuietLife, ReceiveStageLife, RegisterLife, AcceptLife, PreflightLife,
       PositionLife DEF Staging
  <2>4. CASE Control
    BY <1>1, <2>1, <2>4, QuietLife, AuthorizeLife, CommitLife, InstalledLife, CancelLife,
       ForgetLife, ReplyLife, StopLife DEF Control
  <2> QED
    BY <2>1, <2>2, <2>3, <2>4 DEF PlayerStep
<1> QED
  BY <1>2, <1>3, <1>4 DEF Next

-----------------------------------------------------------------------------
(* The revisions *)

\* The receipts ys are those of xs, with no new promise.
PromisesKept(xs, ys) ==
    /\ DOMAIN ys = DOMAIN xs
    /\ \A i \in DOMAIN xs :
          /\ ys[i].req = xs[i].req /\ ys[i].rev = xs[i].rev
          /\ ys[i].outcome = "AppliedToStaged" => xs[i].outcome = "AppliedToStaged"

\* The outcomes that settle a receipt later are no promises.
LEMMA PublishKeepsPromises ==
  ASSUME IntentTypeOK, NEW ws,
         NEW x \in {"StaleRevision", "StaleInstance", "AppliedToInstalled"}
  PROVE  PromisesKept(answers, Publish(ws, x))
<1>1. x \in Outcomes /\ x # "AppliedToStaged"
  BY DEF Outcomes
<1> QED
  BY <1>1, PublishTypes DEF PromisesKept

\* The receipts so far, and the slots, as the provers use them.
LEMMA AnswerFacts ==
  ASSUME IInv
  PROVE  /\ \A i \in DOMAIN answers : answers[i].req \in Requests /\ answers[i].rev \in Nat
         /\ staged.rev \in Nat /\ previous.rev \in Nat
         /\ \A r \in Requests : committed[r] \in Nat
         /\ \A r \in Requests : r # 0 /\ r \in Nat
<1>1. \A i \in DOMAIN answers : answers[i] \in [req : Requests, rev : Revisions,
                                                intent : Intents, outcome : Outcomes]
  <2> DEFINE A == [req : Requests, rev : Revisions, intent : Intents, outcome : Outcomes]
  <2>1. answers \in Seq(A)
    BY DEF IInv, TypeOK, IntentTypeOK
  <2> HIDE DEF A
  <2>2. \A i \in DOMAIN answers : answers[i] \in A
    BY <2>1, ElementOfSeq, LenProperties
  <2> QED
    BY <2>2 DEF A
<1>2. \A n \in Revisions : n \in Nat
  BY Bounds DEF Revisions
<1>3. staged \in Slot /\ previous \in Slot
  BY DEF IInv, TypeOK, IntentTypeOK, OpenTypeOK
<1>4. \A n \in 0 .. MaxRevision : n \in Nat
  BY Bounds
<1>5. \A r \in Requests : r # 0 /\ r \in Nat
  BY Bounds DEF Requests
<1>6. committed \in [Requests -> 0 .. MaxRevision]
  BY DEF IInv, TypeOK, PlayerTypeOK
<1> QED
  BY <1>1, <1>2, <1>3, <1>4, <1>5, <1>6 DEF Slot

\* A step without a new promise, a new request or a commit.
LEMMA RevisionFrame ==
  ASSUME IInv, PromisesKept(answers, answers'), UNCHANGED <<committed, allocated>>,
         staged' = staged \/ staged' = NoSlot,
         ui' \in {"send", "rollback"} => ui \in {"send", "rollback"} /\ previous' = previous
  PROVE  RevisionsOK' /\ AcceptedRevisionIsCommitted'
<1>1. RevisionsOK /\ AcceptedRevisionIsCommitted
  BY DEF IInv
<1>2. \A i \in DOMAIN answers : answers[i].req \in Requests /\ answers[i].req # 0
  BY AnswerFacts
<1>3. ASSUME NEW s, Promised(s, answers)
      PROVE  Promised(s, answers')
  BY <1>3 DEF Promised, PromisesKept
<1>4. Promised(NoSlot, answers)
  BY <1>2 DEF Promised, NoSlot
<1>5. Promised(staged', answers')
  BY <1>1, <1>3, <1>4 DEF RevisionsOK
<1>6. AcceptedRevisionIsCommitted'
  BY <1>1 DEF AcceptedRevisionIsCommitted, PromisesKept
<1>7. staged'.req # 0 => committed'[staged'.req] = 0 /\ staged'.req <= allocated'
  BY <1>1 DEF RevisionsOK, NoSlot
<1>8. \A i \in DOMAIN answers' :
          /\ answers'[i].req <= allocated'
          /\ ui' \in {"send", "rollback"} => answers'[i].req # allocated'
  BY <1>1 DEF RevisionsOK, PromisesKept
<1>9. ui' \in {"send", "rollback"} =>
          /\ Promised(previous', answers')
          /\ previous'.req # 0 => committed'[previous'.req] = 0 /\ previous'.req < allocated'
  BY <1>1, <1>3 DEF RevisionsOK
<1> QED
  BY <1>5, <1>6, <1>7, <1>8, <1>9 DEF RevisionsOK

\* A registration begins: no promise was made for its request.
LEMMA BeginStageRevisions ==
  ASSUME IInv, BeginStage
  PROVE  RevisionsOK' /\ AcceptedRevisionIsCommitted'
<1>1. RevisionsOK /\ AcceptedRevisionIsCommitted /\ LifeOK
  BY DEF IInv
<1>2. /\ allocated' = allocated + 1 /\ staged'.req = allocated + 1 /\ staged'.rev = 1
      /\ previous' = staged /\ UNCHANGED <<answers, committed>> /\ allocated < MaxRequests
  BY DEF BeginStage, BeginStagedRegistration, receiptVars
<1>3. /\ allocated \in Nat /\ allocated + 1 \in Requests /\ allocated + 1 > allocated
      /\ staged.req \in Nat
  BY <1>2, RequestFacts
<1>4. committed[allocated + 1] = 0
  BY <1>1, <1>3 DEF LifeOK, UnsentIsFresh
<1>5. \A i \in DOMAIN answers : answers[i].req \in Nat /\ answers[i].req <= allocated
                                /\ answers[i].req # allocated + 1
  BY <1>1, <1>3, AnswerFacts DEF RevisionsOK
<1>6. Promised(staged', answers)
  BY <1>2, <1>5 DEF Promised
<1>7. staged.req # 0 => staged.req < allocated + 1
  BY <1>1, <1>3 DEF RevisionsOK
<1>8. \A i \in DOMAIN answers : answers[i].req <= allocated + 1
  BY <1>3, <1>5
<1> QED
  BY <1>1, <1>2, <1>3, <1>4, <1>5, <1>6, <1>7, <1>8 DEF RevisionsOK, AcceptedRevisionIsCommitted

\* A failed registration restores the slot it took, which kept its promises.
LEMMA RollbackRevisions ==
  ASSUME IInv, RollbackStage
  PROVE  RevisionsOK' /\ AcceptedRevisionIsCommitted'
<1>1. RevisionsOK /\ AcceptedRevisionIsCommitted /\ LifeOK
  BY DEF IInv
<1>2. ui = "rollback" /\ ui' = "idle" /\ UNCHANGED <<answers, committed, allocated>>
  BY DEF RollbackStage, RollbackStagedRegistration, playerVars, receiptVars
<1>3. staged' = previous
  BY <1>1, <1>2 DEF RollbackStage, RollbackStagedRegistration, LifeOK, CoordinatorOK
<1>4. previous.req \in Nat /\ allocated \in Nat
  BY RequestFacts DEF IInv, TypeOK, OpenTypeOK, Slot
<1>5. previous.req # 0 => previous.req <= allocated
  BY <1>1, <1>2, <1>4 DEF RevisionsOK
<1> QED
  BY <1>1, <1>2, <1>3, <1>5 DEF RevisionsOK, AcceptedRevisionIsCommitted

\* The commit takes the revision of the slot, which is no older than any
\* promised one.
LEMMA CommitRevisions ==
  ASSUME IInv, Commit, UNCHANGED openVars
  PROVE  RevisionsOK' /\ AcceptedRevisionIsCommitted'
<1>1. RevisionsOK /\ AcceptedRevisionIsCommitted /\ LifeOK /\ IntentTypeOK
      /\ UNCHANGED <<ui, previous, allocated>> /\ owner = "commit"
  BY DEF IInv, TypeOK, openVars, Commit
<1>2. task.req = active.req /\ active.state = "ReadyToCommit"
  BY <1>1 DEF LifeOK, PlaceOK
<1>3. active.req # 0
  BY <1>1, <1>2 DEF LifeOK, CandidateOK, NoActive
<1>4. /\ task.req = staged.req /\ staged.req \in Requests /\ Waits(open)
  BY <1>2, <1>3, CandidateFacts
<1>5. ui \notin {"send", "rollback"}
  BY <1>1, <1>4 DEF LifeOK, CoordinatorOK, Dispatched, Waits
<1>6. /\ staged' = NoSlot /\ answers' = Publish(pending.waiters, "StaleInstance")
      /\ committed' = [committed EXCEPT ![staged.req] = staged.rev]
  BY <1>4 DEF Commit, CommitStagedRequest
<1>7. PromisesKept(answers, answers')
  BY <1>1, <1>6, PublishKeepsPromises
<1>8. /\ committed'[staged.req] = staged.rev
      /\ \A r \in Requests : r # staged.req => committed'[r] = committed[r]
  BY <1>4, <1>6, RequestFacts
<1>9. \A i \in DOMAIN answers : answers[i].req \in Requests /\ answers[i].req # 0
  BY AnswerFacts
<1>10. AcceptedRevisionIsCommitted'
  BY <1>1, <1>7, <1>8, <1>9
     DEF AcceptedRevisionIsCommitted, PromisesKept, RevisionsOK, Promised
<1>11. Promised(staged', answers')
  BY <1>6, <1>7, <1>9 DEF Promised, PromisesKept, NoSlot
<1>12. \A i \in DOMAIN answers' : answers'[i].req <= allocated'
  BY <1>1, <1>7 DEF RevisionsOK, PromisesKept
<1> QED
  BY <1>1, <1>5, <1>6, <1>10, <1>11, <1>12 DEF RevisionsOK, NoSlot

\* An update: a promise for the staged request raises its slot, and the request
\* is not committed yet.
LEMMA UpdateRevisions ==
  ASSUME IInv, UpdatePlaybackIntent
  PROVE  RevisionsOK' /\ AcceptedRevisionIsCommitted'
<1>1. RevisionsOK /\ AcceptedRevisionIsCommitted /\ LifeOK /\ IntentTypeOK
      /\ UNCHANGED <<committed, allocated, previous>>
  BY DEF IInv, TypeOK, UpdatePlaybackIntent, playerVars, receiptVars
<1>2. PICK r \in {open.req, known} \ {0}, rev \in Revisions, intent \in Intents,
           wakes \in BOOLEAN :
        /\ SubmitUpdate([req |-> r, rev |-> rev, intent |-> intent], wakes)
        /\ ui' = IF wakes THEN "wake" ELSE "idle"
  BY DEF UpdatePlaybackIntent
<1> DEFINE u == [req |-> r, rev |-> rev, intent |-> intent]
<1>3. u.req = r /\ u.rev = rev /\ u.intent = intent
  OBVIOUS
<1>4. SubmitUpdate(u, wakes)
  BY <1>2
<1> DEFINE A == [req : Requests, rev : Revisions, intent : Intents, outcome : Outcomes]
<1> HIDE DEF u, A
<1>5. r \in Requests /\ r <= allocated /\ rev \in Nat
  BY <1>1, RequestFacts, Bounds DEF LifeOK, CoordinatorOK, Revisions
<1>6. ui' \notin {"send", "rollback"}
  BY <1>2
<1>7. PICK xs, x :
        /\ x \in Outcomes
        /\ answers' = Append(xs, Answer(u, x)) /\ PromisesKept(answers, xs)
        /\ xs \in Seq(A)
        /\ staged'.req = staged.req /\ staged'.rev >= staged.rev
        /\ x = "AppliedToStaged" => staged.req = r /\ staged'.rev >= rev
  <2>1. /\ PromisesKept(answers, answers)
        /\ answers \in Seq(A)
        /\ staged \in Slot /\ staged.rev \in Nat
    BY <1>1, AnswerFacts DEF PromisesKept, IntentTypeOK, A
  <2>2. CASE SubmitToStaged(u, wakes)
    <3> DEFINE x == IF ~StaleRevision(staged, u) THEN "AppliedToStaged" ELSE "StaleRevision"
    <3>1. x \in Outcomes /\ answers' = Append(answers, Answer(u, x))
      BY <2>2 DEF SubmitToStaged, Outcomes
    <3>2. staged.req = r /\ staged'.req = staged.req
      BY <2>1, <2>2, <1>3 DEF SubmitToStaged, Slot
    <3>3. staged'.rev = IF rev > staged.rev THEN rev ELSE staged.rev
      BY <2>1, <2>2, <1>3 DEF SubmitToStaged, Slot
    <3>4. staged'.rev >= staged.rev
      BY <3>3, <2>1, <1>5
    <3>5. x = "AppliedToStaged" => ~(rev < staged.rev)
      BY <1>3 DEF StaleRevision
    <3>6. x = "AppliedToStaged" => staged'.rev >= rev
      BY <3>3, <3>5, <2>1, <1>5
    <3> HIDE DEF x
    <3> QED
      BY <2>1, <3>1, <3>2, <3>4, <3>6
  <2>3. CASE SubmitToInstalled(u, wakes)
    <3>1. staged' = staged /\ staged.rev >= staged.rev
      BY <2>3, <2>1 DEF SubmitToInstalled
    <3>2. CASE \E x \in {"StaleRevision", "AppliedToInstalled", "none"} :
                  answers' = Append(answers, Answer(u, x))
      <4>1. \A x \in {"StaleRevision", "AppliedToInstalled", "none"} :
              x \in Outcomes /\ x # "AppliedToStaged"
        BY DEF Outcomes
      <4> QED
        BY <2>1, <3>1, <3>2, <4>1
    <3>3. CASE answers' = Append(Publish(pending.waiters, "StaleRevision"), Answer(u, "none"))
      <4>1. "StaleRevision" \in Outcomes /\ "none" \in Outcomes
        BY DEF Outcomes
      <4>2. /\ Publish(pending.waiters, "StaleRevision") \in
                 Seq(A)
            /\ PromisesKept(answers, Publish(pending.waiters, "StaleRevision"))
        BY <1>1, <4>1, PublishTypes, PublishKeepsPromises DEF A
      <4> QED
        BY <3>1, <3>3, <4>1, <4>2
    <3> QED
      BY <2>3, <3>2, <3>3 DEF SubmitToInstalled
  <2>4. CASE SubmitToNobody(u, wakes)
    <3>1. staged' = staged /\ staged.rev >= staged.rev
      BY <2>4, <2>1 DEF SubmitToNobody
    <3>2. PICK x \in {"StaleInstance", "UnknownOrSuperseded"} :
                  answers' = Append(answers, Answer(u, x))
      BY <2>4 DEF SubmitToNobody
    <3>3. x \in Outcomes /\ x # "AppliedToStaged"
      BY DEF Outcomes
    <3> QED
      BY <2>1, <3>1, <3>2, <3>3
  <2> QED
    BY <1>4, <2>2, <2>3, <2>4 DEF SubmitUpdate
<1> DEFINE z == Len(xs) + 1
           a == Answer(u, x)
<1>8. /\ DOMAIN answers' = 1 .. z /\ DOMAIN xs = 1 .. Len(xs) /\ Len(xs) \in Nat
      /\ \A i \in DOMAIN xs : answers'[i] = xs[i]
      /\ answers'[z] = a
  BY <1>3, <1>5, <1>7, AnswerTypes DEF A
<1>9. a.req = r /\ a.rev = rev /\ a.outcome = x
  BY <1>3 DEF Answer
<1>10. \A i \in DOMAIN answers' : i \in DOMAIN answers \/ i = z
  BY <1>7, <1>8 DEF PromisesKept
<1>11. \A i \in DOMAIN answers :
          /\ answers'[i].req = answers[i].req /\ answers'[i].rev = answers[i].rev
          /\ answers'[i].outcome = "AppliedToStaged" => answers[i].outcome = "AppliedToStaged"
  BY <1>7, <1>8 DEF PromisesKept
<1> HIDE DEF z, a
<1>12. staged'.rev \in Nat /\ staged.rev \in Nat
       /\ \A i \in DOMAIN answers : answers[i].rev \in Nat
  <2>1. TypeOK'
    BY TypesKept DEF Next, UserStep
  <2>2. staged' \in Slot
    BY <2>1 DEF TypeOK, IntentTypeOK
  <2> QED
    BY <2>2, AnswerFacts, Bounds DEF Slot
<1>13. \A n \in Nat : staged.rev >= n => staged'.rev >= n
  BY <1>7, <1>12
<1>14. Promised(staged', answers')
  <2>1. staged'.req # 0 => staged'.rev >= 1
    BY <1>1, <1>7, <1>13 DEF RevisionsOK, Promised
  <2>2. ASSUME NEW i \in DOMAIN answers', answers'[i].outcome = "AppliedToStaged",
               answers'[i].req = staged'.req
        PROVE  staged'.rev >= answers'[i].rev
    <3>1. CASE i = z
      BY <3>1, <2>2, <1>7, <1>8, <1>9
    <3>2. CASE i \in DOMAIN answers
      BY <3>2, <2>2, <1>1, <1>7, <1>11, <1>12, <1>13 DEF RevisionsOK, Promised
    <3> QED
      BY <3>1, <3>2, <1>10
  <2> QED
    BY <2>1, <2>2 DEF Promised
<1>15. AcceptedRevisionIsCommitted'
  <2> SUFFICES ASSUME NEW i \in DOMAIN answers', answers'[i].outcome = "AppliedToStaged",
                      committed[answers'[i].req] # 0
               PROVE  committed[answers'[i].req] >= answers'[i].rev
    BY <1>1 DEF AcceptedRevisionIsCommitted
  <2>1. CASE i = z
    <3>1. staged.req = r /\ r # 0 /\ committed[r] # 0
      BY <2>1, <1>5, <1>7, <1>8, <1>9
    <3> QED
      BY <3>1, <1>1 DEF RevisionsOK
  <2>2. CASE i \in DOMAIN answers
    BY <2>2, <1>1, <1>11 DEF AcceptedRevisionIsCommitted
  <2> QED
    BY <2>1, <2>2, <1>10
<1>16. \A i \in DOMAIN answers' : answers'[i].req <= allocated
  BY <1>1, <1>5, <1>8, <1>9, <1>10, <1>11 DEF RevisionsOK
<1>17. staged'.req # 0 => committed'[staged'.req] = 0 /\ staged'.req <= allocated
  BY <1>1, <1>7 DEF RevisionsOK
<1> QED
  BY <1>1, <1>6, <1>14, <1>15, <1>16, <1>17 DEF RevisionsOK

\* Every step keeps the promises.
LEMMA RevisionsKept == IInv /\ Next => RevisionsOK' /\ AcceptedRevisionIsCommitted'
<1> SUFFICES ASSUME IInv, Next PROVE RevisionsOK' /\ AcceptedRevisionIsCommitted'
  OBVIOUS
<1>1. IntentTypeOK /\ LifeOK /\ RevisionsOK
  BY DEF IInv, TypeOK
<1>2. answers' = answers => PromisesKept(answers, answers')
  BY DEF PromisesKept
<1>3. CASE Opening /\ ~BeginStage /\ ~RollbackStage
  <2>1. UNCHANGED <<staged, answers, committed, allocated>>
    BY <1>3
       DEF Opening, Start, StartPrepared, DrainPreparation, SendStage, DrainStagingTerminal,
           DrainStagingPhase, PreparePosition, AuthorizeReady, AuthorizeReadySameLineage,
           Authorize, CancelBeforeStaging, CancelAtPlayer, DrainControl, TakeTerminal, Send,
           intentVars, playerVars, receiptVars
  <2>2. ui' \in {"send", "rollback"} => ui \in {"send", "rollback"} /\ previous' = previous
    BY <1>3
       DEF Opening, Start, StartPrepared, DrainPreparation, SendStage, DrainStagingTerminal,
           DrainStagingPhase, PreparePosition, AuthorizeReady, AuthorizeReadySameLineage,
           Authorize, CancelBeforeStaging, CancelAtPlayer, DrainControl, TakeTerminal
  <2> QED
    BY <1>2, <2>1, <2>2, RevisionFrame
<1>4. CASE WakeOwner \/ SendStop \/ SendRelease
  <2>1. UNCHANGED <<staged, answers, committed, allocated, previous>>
        /\ (ui' \in {"send", "rollback"} => ui \in {"send", "rollback"})
    BY <1>4
       DEF WakeOwner, SendStop, SendRelease, Send, intentVars, openVars, receiptVars
  <2> QED
    BY <1>2, <2>1, RevisionFrame
<1>5. CASE OwnerStep
  <2>1. UNCHANGED <<ui, previous, allocated>> /\ UNCHANGED openVars /\ PlayerStep
    BY <1>5 DEF OwnerStep, openVars
  <2>2. CASE Commit
    BY <2>1, <2>2, CommitRevisions
  <2>3. CASE DrainFinish
    <3>1. /\ UNCHANGED <<staged, committed>>
          /\ \E x \in {"StaleInstance", "AppliedToInstalled"} :
                answers' = Publish(taken.waiters, x)
      BY <2>3 DEF DrainFinish, FinishInstalledUpdate, receiptVars
    <3>2. PromisesKept(answers, answers')
      BY <1>1, <3>1, PublishKeepsPromises
    <3> QED
      BY <2>1, <3>1, <3>2, RevisionFrame
  <2>4. CASE Register
    <3>1. /\ owner \in Registering /\ UNCHANGED <<answers, committed>>
          /\ RegisterStagedRequest(task.req, payload[task.req])
      BY <2>4 DEF Register, RegisterStagedRequest, Registering, receiptVars
    <3>2. task.req = open.req /\ staged.req = open.req /\ open.req # 0 /\ open.req \in Requests
      BY <1>1, <3>1, RequestFacts DEF LifeOK, PlaceOK, NotYetActive, CoordinatorOK, Waits
    <3>3. payload[task.req].rev = 1 /\ staged.rev >= 1 /\ staged.rev \in Nat
      BY <1>1, <3>2, AnswerFacts DEF RevisionsOK, Promised, IInv, TypeOK, PlayerTypeOK
    <3>4. payload[task.req].rev <= staged.rev
      BY <3>3
    <3>5. staged' = staged
      BY <3>1, <3>2, <3>4 DEF RegisterStagedRequest
    <3> QED
      BY <1>2, <2>1, <3>1, <3>5, RevisionFrame
  <2>5. CASE ForgetVictim
    <3>1. UNCHANGED <<answers, committed>> /\ (staged' = staged \/ staged' = NoSlot)
      BY <2>5 DEF ForgetVictim, ForgetStagedRequest, receiptVars
    <3> QED
      BY <1>2, <2>1, <3>1, RevisionFrame
  <2>6. CASE Drain /\ ~DrainFinish
    <3>1. UNCHANGED <<staged, answers, committed>>
      BY <2>6 DEF Drain, DrainWake, DrainCurrent, DrainInstalled, TakePendingCurrent,
                  TakePendingInstalled, intentVars, receiptVars
    <3> QED
      BY <1>2, <2>1, <3>1, RevisionFrame
  <2>7. CASE Staging /\ ~Register
    <3>1. UNCHANGED <<staged, answers, committed>>
      BY <2>7 DEF Staging, ReceiveStage, Supersede, Accept, PreflightSettles,
                  PreflightPending, ReceivePrepare, PositionSettles, PositionPending,
                  intentVars, receiptVars
    <3> QED
      BY <1>2, <2>1, <3>1, RevisionFrame
  <2>8. CASE Control /\ ~Commit /\ ~ForgetVictim
    <3>1. UNCHANGED <<staged, answers, committed>>
      BY <2>8 DEF Control, ReceiveAuthorize, PublishInstalled, ReceiveCancel, Reply,
                  ReceiveStop, Stop, ReceiveRelease, intentVars, receiptVars
    <3> QED
      BY <1>2, <2>1, <3>1, RevisionFrame
  <2>9. CASE EndBatch \/ TickWithoutCandidate \/ WakeUp
    <3>1. UNCHANGED <<staged, answers, committed>>
      BY <2>9 DEF EndBatch, TickWithoutCandidate, WakeUp, intentVars, receiptVars
    <3> QED
      BY <1>2, <2>1, <3>1, RevisionFrame
  <2> QED
    BY <2>1, <2>2, <2>3, <2>4, <2>5, <2>6, <2>7, <2>8, <2>9 DEF PlayerStep
<1> QED
  BY <1>3, <1>4, <1>5, BeginStageRevisions, RollbackRevisions, UpdateRevisions
     DEF Next, Opening, UserStep

-----------------------------------------------------------------------------
(* The receipts of updates *)

\* A receipt that has no outcome after some of them got one had none before, and
\* is not among those.
LEMMA PublishSettles ==
  ASSUME IntentTypeOK, NEW ws, NEW x \in Outcomes \ {"none"},
         NEW i \in DOMAIN answers, Publish(ws, x)[i].outcome = "none"
  PROVE  answers[i].outcome = "none" /\ i \notin ws
<1>1. answers[i] \in [req : Requests, rev : Revisions, intent : Intents, outcome : Outcomes]
  <2> DEFINE A == [req : Requests, rev : Revisions, intent : Intents, outcome : Outcomes]
  <2>1. answers \in Seq(A)
    BY DEF IntentTypeOK
  <2> HIDE DEF A
  <2>2. answers[i] \in A
    BY <2>1
  <2> QED
    BY <2>2 DEF A
<1>2. Publish(ws, x)[i] = IF i \in ws /\ answers[i].outcome = "none"
                          THEN [answers[i] EXCEPT !.outcome = x] ELSE answers[i]
  BY DEF Publish
<1> QED
  BY <1>1, <1>2

\* A step that does not touch the receipts.
LEMMA ReceiptsFrame ==
  ASSUME ReceiptsOK, UNCHANGED <<answers, pending, taken>>, owner' = owner \/ owner # "finish"
  PROVE  ReceiptsOK'
BY DEF ReceiptsOK, NoReceiptIsLost

\* An update keeps the receipts that wait, answers the ones it replaces, and is
\* answered itself or waits.
LEMMA UpdateReceipts ==
  ASSUME IInv, UpdatePlaybackIntent
  PROVE  ReceiptsOK'
<1>1. ReceiptsOK /\ IntentTypeOK /\ UNCHANGED <<taken, owner>>
  BY DEF IInv, TypeOK, UpdatePlaybackIntent, playerVars, ownerVars
<1>2. PICK r \in {open.req, known} \ {0}, rev \in Revisions, intent \in Intents,
           wakes \in BOOLEAN :
        SubmitUpdate([req |-> r, rev |-> rev, intent |-> intent], wakes)
  BY DEF UpdatePlaybackIntent
<1> DEFINE u == [req |-> r, rev |-> rev, intent |-> intent]
           A == [req : Requests, rev : Revisions, intent : Intents, outcome : Outcomes]
           me == Len(answers) + 1
<1>3. SubmitUpdate(u, wakes) /\ u.req \in Requests /\ u.rev \in Revisions /\ u.intent \in Intents
  BY <1>2, RequestFacts
<1> HIDE DEF u, A
<1>4. answers \in Seq(A) /\ Len(answers) \in Nat /\ DOMAIN answers = 1 .. Len(answers)
  BY <1>1 DEF IntentTypeOK, A
<1>5. /\ {"none", "AppliedToStaged", "AppliedToInstalled", "StaleRevision",
          "UnknownOrSuperseded", "StaleInstance"} = Outcomes
      /\ "StaleRevision" \in Outcomes \ {"none"} /\ "none" \in Outcomes
  BY DEF Outcomes
<1>6. \A i \in DOMAIN answers : answers[i].outcome = "none" => i \in pending.waiters \cup taken.waiters
  BY <1>1 DEF ReceiptsOK, NoReceiptIsLost
<1>7. PICK xs, x :
        /\ x \in Outcomes /\ answers' = Append(xs, Answer(u, x))
        /\ xs \in Seq(A) /\ Len(xs) = Len(answers) /\ DOMAIN xs = DOMAIN answers
        /\ \A i \in DOMAIN answers : xs[i].outcome = "none" => i \in pending'.waiters \cup taken.waiters
        /\ x = "none" => me \in pending'.waiters
  <2>1. CASE pending' = pending /\ \E x \in Outcomes \ {"none"} : answers' = Append(answers, Answer(u, x))
    BY <1>4, <1>6, <2>1
  <2>2. CASE /\ answers' = Append(answers, Answer(u, "none"))
             /\ pending' = [pending EXCEPT !.waiters = @ \cup {me}]
    <3>1. pending'.waiters = pending.waiters \cup {me}
      BY <1>1, <2>2 DEF IntentTypeOK
    <3> QED
      BY <1>4, <1>5, <1>6, <2>2, <3>1
  <2>3. CASE /\ answers' = Append(Publish(pending.waiters, "StaleRevision"), Answer(u, "none"))
             /\ pending' = [rev |-> u.rev, intent |-> u.intent, waiters |-> {me}]
    <3> DEFINE xs == Publish(pending.waiters, "StaleRevision")
    <3>1. xs \in Seq(A) /\ Len(xs) = Len(answers) /\ DOMAIN xs = DOMAIN answers
      BY <1>1, <1>5, PublishTypes DEF A
    <3>2. \A i \in DOMAIN answers : xs[i].outcome = "none" => i \in taken.waiters
      BY <1>1, <1>5, <1>6, PublishSettles
    <3>3. me \in pending'.waiters /\ answers' = Append(xs, Answer(u, "none"))
      BY <2>3
    <3> HIDE DEF xs, me
    <3> QED
      BY <1>5, <3>1, <3>2, <3>3
  <2>4. CASE SubmitToStaged(u, wakes)
    <3>1. pending' = pending
          /\ \E x \in {"AppliedToStaged", "StaleRevision"} : answers' = Append(answers, Answer(u, x))
      BY <2>4 DEF SubmitToStaged
    <3> QED
      BY <1>5, <2>1, <3>1
  <2>5. CASE SubmitToInstalled(u, wakes)
    <3>1. \/ /\ pending' = pending
             /\ \E x \in {"AppliedToInstalled", "StaleRevision"} :
                   answers' = Append(answers, Answer(u, x))
          \/ /\ answers' = Append(answers, Answer(u, "none"))
             /\ pending' = [pending EXCEPT !.waiters = @ \cup {me}]
          \/ /\ answers' = Append(Publish(pending.waiters, "StaleRevision"), Answer(u, "none"))
             /\ pending' = [rev |-> u.rev, intent |-> u.intent, waiters |-> {me}]
      BY <2>5 DEF SubmitToInstalled
    <3> QED
      BY <1>5, <2>1, <2>2, <2>3, <3>1
  <2>6. CASE SubmitToNobody(u, wakes)
    <3>1. pending' = pending
          /\ \E x \in {"StaleInstance", "UnknownOrSuperseded"} : answers' = Append(answers, Answer(u, x))
      BY <2>6 DEF SubmitToNobody
    <3> QED
      BY <1>5, <2>1, <3>1
  <2> QED
    BY <1>3, <2>4, <2>5, <2>6 DEF SubmitUpdate
<1>8. /\ DOMAIN answers' = 1 .. me
      /\ \A i \in DOMAIN xs : answers'[i] = xs[i]
      /\ answers'[me] = Answer(u, x)
  BY <1>3, <1>7, AnswerTypes DEF A
<1>9. Answer(u, x).outcome = x
  BY DEF Answer
<1>10. \A i \in DOMAIN answers' : i \in DOMAIN answers \/ i = me
  BY <1>4, <1>8
<1> HIDE DEF me
<1>11. NoReceiptIsLost'
  BY <1>1, <1>7, <1>8, <1>9, <1>10 DEF NoReceiptIsLost
<1> QED
  BY <1>1, <1>11 DEF ReceiptsOK

\* Every step keeps the receipts.
LEMMA ReceiptsKept == IInv /\ Next => ReceiptsOK'
<1> SUFFICES ASSUME IInv, Next PROVE ReceiptsOK'
  OBVIOUS
<1> USE DEF Goto
<1>1. ReceiptsOK /\ IntentTypeOK
  BY DEF IInv, TypeOK
<1>2. {"StaleInstance", "AppliedToInstalled"} \subseteq Outcomes \ {"none"} /\ NoUpdate.waiters = {}
  BY DEF Outcomes, NoUpdate
<1>3. ASSUME NEW ws, NEW x \in {"StaleInstance", "AppliedToInstalled"},
             answers' = Publish(ws, x)
      PROVE  /\ DOMAIN answers' = DOMAIN answers
             /\ \A i \in DOMAIN answers :
                   answers'[i].outcome = "none" => answers[i].outcome = "none" /\ i \notin ws
  BY <1>1, <1>2, <1>3, PublishSettles, PublishTypes
<1>4. CASE OwnerStep
  <2>1. CASE Commit
    <3>1. owner = "commit" /\ owner' # "finish" /\ UNCHANGED taken /\ taken.waiters = {}
      BY <1>1, <2>1 DEF Commit, ReceiptsOK
    <3>2. CASE CommitStagedRequest(task.req)
      <4>1. answers' = Publish(pending.waiters, "StaleInstance")
        BY <3>2 DEF CommitStagedRequest
      <4> QED
        BY <1>1, <1>3, <3>1, <4>1 DEF ReceiptsOK, NoReceiptIsLost
    <3>3. CASE UNCHANGED <<answers, pending>>
      BY <1>1, <3>1, <3>3, ReceiptsFrame
    <3> QED
      BY <2>1, <3>2, <3>3 DEF Commit
  <2>2. CASE DrainInstalled
    <3>1. owner = "takeInstalled" /\ taken.waiters = {}
      BY <1>1, <2>2 DEF DrainInstalled, ReceiptsOK
    <3>2. CASE TakePendingInstalled /\ taken' = pending /\ owner' = "finish"
      BY <1>1, <3>1, <3>2 DEF TakePendingInstalled, ReceiptsOK, NoReceiptIsLost
    <3>3. CASE UNCHANGED <<intentVars, taken>>
      BY <1>1, <3>1, <3>3, ReceiptsFrame DEF intentVars
    <3> QED
      BY <2>2, <3>2, <3>3 DEF DrainInstalled
  <2>3. CASE DrainFinish
    <3>1. /\ taken' = NoUpdate /\ UNCHANGED pending
          /\ \E x \in {"StaleInstance", "AppliedToInstalled"} :
                answers' = Publish(taken.waiters, x)
      BY <2>3 DEF DrainFinish, FinishInstalledUpdate
    <3> QED
      BY <1>1, <1>2, <1>3, <3>1 DEF ReceiptsOK, NoReceiptIsLost
  <2>4. CASE DrainWake \/ DrainCurrent
    <3>1. UNCHANGED <<answers, pending, taken>> /\ owner # "finish"
      BY <2>4 DEF DrainWake, DrainCurrent, TakePendingCurrent, intentVars
    <3> QED
      BY <1>1, <3>1, ReceiptsFrame
  <2>5. CASE Staging
    <3>1. UNCHANGED <<answers, pending, taken>> /\ owner # "finish"
      BY <2>5 DEF Staging, ReceiveStage, Supersede, Register, RegisterStagedRequest, Accept,
                  PreflightSettles, PreflightPending, ReceivePrepare, PositionSettles,
                  PositionPending, intentVars
    <3> QED
      BY <1>1, <3>1, ReceiptsFrame
  <2>6. CASE Control /\ ~Commit
    <3>1. UNCHANGED <<answers, pending, taken>> /\ owner # "finish"
      BY <2>6 DEF Control, ReceiveAuthorize, PublishInstalled, ReceiveCancel, ForgetVictim,
                  ForgetStagedRequest, Reply, ReceiveStop, Stop, ReceiveRelease, intentVars
    <3> QED
      BY <1>1, <3>1, ReceiptsFrame
  <2>7. CASE EndBatch \/ TickWithoutCandidate \/ WakeUp
    <3>1. UNCHANGED <<answers, pending, taken>> /\ owner # "finish"
      BY <2>7 DEF EndBatch, TickWithoutCandidate, WakeUp, intentVars
    <3> QED
      BY <1>1, <3>1, ReceiptsFrame
  <2> QED
    BY <1>4, <2>1, <2>2, <2>3, <2>4, <2>5, <2>6, <2>7 DEF OwnerStep, PlayerStep, Drain
<1>5. CASE WakeOwner \/ SendStop \/ SendRelease
  <2>1. UNCHANGED <<answers, pending, taken, owner>>
    BY <1>5 DEF WakeOwner, SendStop, SendRelease, Send, intentVars, ownerVars
  <2> QED
    BY <1>1, <2>1, ReceiptsFrame
<1>6. CASE Opening
  <2>1. UNCHANGED <<answers, pending, taken, owner>>
    BY <1>6
       DEF Opening, Start, StartPrepared, DrainPreparation, BeginStage, SendStage,
           RollbackStage, DrainStagingTerminal, DrainStagingPhase, PreparePosition,
           AuthorizeReady, AuthorizeReadySameLineage, Authorize, CancelBeforeStaging,
           CancelAtPlayer, DrainControl, TakeTerminal, Send, BeginStagedRegistration,
           RollbackStagedRegistration, intentVars, playerVars, ownerVars
  <2> QED
    BY <1>1, <2>1, ReceiptsFrame
<1> QED
  BY <1>4, <1>5, <1>6, UpdateReceipts DEF Next, UserStep

-----------------------------------------------------------------------------
(* The theorems *)

\* The start: nothing is opened, and the player is idle.
LEMMA InitEstablishes == Init => IInv
<1> SUFFICES ASSUME Init PROVE IInv
  OBVIOUS
<1> USE DEF Init, IntentInit, PlayerInit, OpenInit
<1>1. 0 \in 0 .. MaxRequests /\ 0 \in 0 .. MaxBatch /\ 0 \in 0 .. MaxRevision
  BY Bounds
<1>2. IntentTypeOK
  <2>1. answers \in Seq([req : Requests, rev : Revisions, intent : Intents, outcome : Outcomes])
        /\ Len(answers) = 0
    OBVIOUS
  <2> QED
    BY <1>1, <2>1, Bounds DEF IntentTypeOK
<1>3. PlayerTypeOK
  <2>1. /\ queue \in Seq(Command) /\ Len(queue) <= QueueCap /\ wake \in BOOLEAN
        /\ handled \in 0 .. MaxBatch /\ owner \in OwnerPC
    <3>1. queue \in Seq(Command) /\ Len(queue) <= QueueCap
      BY Bounds
    <3>2. wake \in BOOLEAN
      OBVIOUS
    <3>3. handled \in 0 .. MaxBatch /\ owner \in OwnerPC
      BY <1>1 DEF OwnerPC
    <3> QED
      BY <3>1, <3>2, <3>3
  <2>2. payload \in [Requests -> [same : BOOLEAN, old : 0 .. MaxRequests, rev : {1},
                                  intent : Intents]]
    BY <1>1, Bounds
  <2>3. phases \in [Requests -> Seq({"ReadyForPosition", "ReadyToCommit"})]
    OBVIOUS
  <2>4. /\ terminal \in [Requests -> {"none", "Installed", "Failed", "Cancelled", "taken"}]
        /\ replies \in [Requests -> ControlOutcomes \cup {"none", "taken"}]
        /\ committed \in [Requests -> 0 .. MaxRevision]
    BY <1>1
  <2>5. /\ task \in [op : Ops \cup {"none", "Tick"}, req : 0 .. MaxRequests,
                     outcome : ControlOutcomes \cup {"none"}]
        /\ active \in [req : 0 .. MaxRequests,
                       state : {"none", "Accepted", "ReadyForPosition",
                                "PositionPreparing", "ReadyToCommit"}]
        /\ playing \in [inst : 0 .. MaxRequests, rev : 0 .. MaxRevision]
        /\ taken \in [rev : 0 .. MaxRevision, intent : Intents,
                      waiters : SUBSET (1 .. MaxUpdates)]
    BY <1>1, Bounds DEF NoTask, NoActive
  <2> QED
    BY <1>1, <2>1, <2>2, <2>3, <2>4, <2>5 DEF PlayerTypeOK
<1>4. OpenTypeOK
  BY <1>1, Bounds DEF OpenTypeOK, NoOpen
<1>5. /\ open.phase = "Idle" /\ open.req = 0 /\ open.pending = "none" /\ open.terminal = "none"
      /\ staged.req = 0 /\ active = NoActive /\ active.req = 0 /\ task.op = "none"
      /\ forCurrent.req = 0 /\ pending.rev = 0 /\ taken.waiters = {}
  BY DEF NoOpen, NoSlot, NoActive, NoTask, NoApply, NoUpdate
<1>6. StreamOK(queue, open, terminal) /\ ~HasStage(queue) /\ ~HasControl(queue, open)
  BY DEF StreamOK, HasStage, HasControl
<1>7. CoordinatorOK /\ UnsentIsFresh /\ CandidateOK
  BY <1>5 DEF CoordinatorOK, UnsentIsFresh, CandidateOK, Dispatched, Waits
<1>8. PlaceOK /\ ControlOK
  BY <1>5, <1>6
     DEF PlaceOK, ControlOK, Dispatched, Waits, Registering, Handling, Live
<1>9. AnswersFollowRecords /\ CommitFindsItsIntent /\ AcceptedRevisionIsCommitted /\ WakeOK
  BY <1>5 DEF AnswersFollowRecords, CommitFindsItsIntent, AcceptedRevisionIsCommitted, WakeOK
<1>10. RevisionsOK
  BY <1>5 DEF RevisionsOK, Promised
<1>11. ReceiptsOK
  BY <1>5 DEF ReceiptsOK, NoReceiptIsLost
<1> QED
  BY <1>2, <1>3, <1>4, <1>6, <1>7, <1>8, <1>9, <1>10, <1>11 DEF IInv, TypeOK, LifeOK

\* A step that changes nothing keeps the invariant.
LEMMA StutterKeeps == IInv /\ UNCHANGED vars => IInv'
<1> SUFFICES ASSUME IInv, UNCHANGED vars PROVE IInv'
  OBVIOUS
<1>1. /\ UNCHANGED <<staged, installed, pending, staleInstalled, forCurrent, answers>>
      /\ UNCHANGED <<queue, wake, payload, phases, terminal, replies, committed, owner,
                     handled, task, victim, active, lastTerminal, current, playing, taken>>
      /\ UNCHANGED <<open, ui, previous, allocated, known>>
  BY DEF vars, intentVars, playerVars, receiptVars, sessionVars, ownerVars, openVars
<1>2. TypeOK'
  <2>1. IntentTypeOK' /\ OpenTypeOK'
    BY <1>1 DEF IInv, TypeOK, IntentTypeOK, OpenTypeOK
  <2>2. PlayerTypeOK'
    <3>1. PlayerTypeOK
      BY DEF IInv, TypeOK
    <3>2. wake' \in BOOLEAN
      BY <1>1, <3>1 DEF PlayerTypeOK
    <3> QED
      BY <1>1, <3>1, <3>2 DEF PlayerTypeOK
  <2> QED
    BY <2>1, <2>2 DEF TypeOK
<1>3. LifeOK'
  BY <1>1, LifeFrame
<1>4. RevisionsOK' /\ AcceptedRevisionIsCommitted'
  BY <1>1, RevisionFrame DEF PromisesKept
<1>5. WakeOK'
  BY <1>1 DEF IInv, WakeOK
<1>6. ReceiptsOK'
  BY <1>1, ReceiptsFrame DEF IInv
<1> QED
  BY <1>2, <1>3, <1>4, <1>5, <1>6 DEF IInv

\* The inductive invariant holds throughout, for any number of requests,
\* revisions and updates and any length of the stream and of a batch.
THEOREM Invariance == Spec => []IInv
<1>1. Init => IInv
  BY InitEstablishes
<1>2. IInv /\ [Next]_vars => IInv'
  BY TypesKept, LifeKept, RevisionsKept, WakesKept, ReceiptsKept, StutterKeeps DEF IInv
<1> QED
  BY <1>1, <1>2, PTL DEF Spec

\* Opening media is safe: the types hold, a request commits with every revision
\* that submit_update promised it, a sleeping owner has the wake of an intent that
\* waits for it, the receipt of every unanswered update is kept however many come
\* and replace each other, and no answer of the owner overtakes its record.
THEOREM OpeningIsSafe == Spec => []OpenInv
<1>1. IInv => OpenInv
  BY DEF IInv, OpenInv, LifeOK, WakeOK, ReceiptsOK, NoLostIntentWakeup
<1> QED
  BY <1>1, Invariance, PTL

\* commit_staged_request finds the staged intent of the request it commits: the
\* expect in it is never reached, whatever registrations, rollbacks, stops and
\* updates come in between.
THEOREM CommitNeverPanics == Spec => []CommitFindsItsIntent
<1>1. IInv => CommitFindsItsIntent
  BY DEF IInv, LifeOK
<1> QED
  BY <1>1, Invariance, PTL

\* Only the commit of the request whose authorization the coordinator waits for
\* makes the session show another medium.
LEMMA SwitchKept ==
  ASSUME IInv, Next, current' \notin {current, 0}
  PROVE  current' = open.req /\ open.pending = "Authorization" /\ open.terminal = "none"
<1>1. Commit
  <2>1. CASE Opening \/ UserStep
    BY <2>1
       DEF Opening, Start, StartPrepared, DrainPreparation, BeginStage, SendStage,
           RollbackStage, DrainStagingTerminal, DrainStagingPhase, PreparePosition,
           AuthorizeReady, AuthorizeReadySameLineage, Authorize, CancelBeforeStaging,
           CancelAtPlayer, DrainControl, TakeTerminal, UserStep, UpdatePlaybackIntent,
           WakeOwner, SendStop, SendRelease, Send, playerVars, sessionVars
  <2>2. CASE Drain \/ EndBatch \/ TickWithoutCandidate \/ WakeUp
    BY <2>2 DEF Drain, DrainWake, DrainCurrent, DrainInstalled, DrainFinish, EndBatch,
                TickWithoutCandidate, WakeUp, sessionVars
  <2>3. CASE Staging
    BY <2>3 DEF Staging, ReceiveStage, Supersede, Register, Accept, PreflightSettles,
                PreflightPending, ReceivePrepare, PositionSettles, PositionPending, sessionVars
  <2>4. CASE Control
    BY <2>4 DEF Control, ReceiveAuthorize, PublishInstalled, ReceiveCancel, ForgetVictim, Reply,
                ReceiveStop, Stop, ReceiveRelease, sessionVars
  <2> QED
    BY <2>1, <2>2, <2>3, <2>4 DEF Next, OwnerStep, PlayerStep
<1>2. LifeOK /\ owner = "commit" /\ task.op = "Authorize" /\ task.req = active.req
      /\ active.state = "ReadyToCommit" /\ current' = task.req
  BY <1>1 DEF Commit, IInv, LifeOK, PlaceOK
<1>3. active.req # 0
  BY <1>2 DEF LifeOK, CandidateOK, NoActive
<1>4. active.req = open.req /\ open.terminal = "none"
  BY <1>3, CandidateFacts DEF Waits
<1>5. Awaits(open, task.op)
  BY <1>2 DEF LifeOK, ControlOK, Controls
<1> QED
  BY <1>2, <1>4, <1>5 DEF Awaits

\* The player shows another medium only while the coordinator waits for the
\* authorization it gave it; no cancelled or failed request is ever shown.
THEOREM OnlyAuthorizedIsShown == Spec => SwitchesOnlyWhileAuthorized
<1>1. IInv /\ [Next]_vars =>
        [current' \notin {current, 0} =>
          /\ current' = open.req /\ open.pending = "Authorization"
          /\ open.terminal = "none"]_vars
  BY SwitchKept
<1> QED
  BY <1>1, Invariance, PTL DEF Spec, SwitchesOnlyWhileAuthorized

\* What a step may do to the records t and the phases ps of every request.
RecordsStep(t, ps, t2, ps2) ==
    \A r \in Requests :
        /\ t2[r] # t[r] =>
              \/ t[r] = "none" /\ t2[r] # "taken"
              \/ t[r] # "none" /\ t2[r] = "taken"
        /\ Len(ps2[r]) > Len(ps[r]) => t[r] = "none"

\* A phase that is published makes only its own request's phases longer.
LEMMA PublishedPhase ==
  ASSUME IInv, NEW r \in Requests, NEW ph, terminal[r] = "none", PublishPhase(r, ph),
         UNCHANGED terminal
  PROVE  RecordsStep(terminal, phases, terminal', phases')
<1>1. \A q \in Requests : q # r => phases'[q] = phases[q]
  BY RequestFacts DEF PublishPhase
<1>2. \A q \in Requests : Len(phases[q]) \in Nat
  BY DEF IInv, TypeOK, PlayerTypeOK
<1>3. \A q \in Requests : q # r => ~(Len(phases'[q]) > Len(phases[q]))
  BY <1>1, <1>2
<1> QED
  BY <1>3 DEF RecordsStep

\* The end of a request whose record is not there publishes it.
LEMMA PublishedEnd ==
  ASSUME IInv, NEW r \in Requests, NEW x \in {"Installed", "Failed", "Cancelled"},
         terminal[r] = "none", PublishTerminal(r, x), UNCHANGED phases
  PROVE  RecordsStep(terminal, phases, terminal', phases')
<1>1. terminal'[r] = x /\ \A q \in Requests : q # r => terminal'[q] = terminal[q]
  BY RequestFacts DEF PublishTerminal
<1>2. \A q \in Requests : Len(phases[q]) \in Nat
  BY DEF IInv, TypeOK, PlayerTypeOK
<1>3. \A q \in Requests : ~(Len(phases[q]) > Len(phases[q]))
  BY <1>2
<1> QED
  BY <1>1, <1>3 DEF RecordsStep

\* Every step publishes a record where there is none, or takes one that is there.
LEMMA RecordsKept == IInv /\ Next => RecordsStep(terminal, phases, terminal', phases')
<1> SUFFICES ASSUME IInv, Next PROVE RecordsStep(terminal, phases, terminal', phases')
  OBVIOUS
<1>1. LifeOK /\ PlayerTypeOK
  BY DEF IInv, TypeOK
<1>2. \A r \in Requests : phases[r] \in Seq({"ReadyForPosition", "ReadyToCommit"})
                          /\ Len(phases[r]) \in Nat
  BY <1>1 DEF PlayerTypeOK
<1>3. UNCHANGED <<terminal, phases>> => RecordsStep(terminal, phases, terminal', phases')
  BY <1>2 DEF RecordsStep
<1>4. active.req # 0 => active.req \in Requests /\ terminal[active.req] = "none"
  BY CandidateFacts
<1>5. ASSUME NEW x \in {"Failed", "Cancelled"}, active.req # 0, EndBeforeCommit(active.req, x),
             UNCHANGED phases
      PROVE  RecordsStep(terminal, phases, terminal', phases')
  BY <1>4, <1>5, PublishedEnd DEF EndBeforeCommit
<1>6. CASE DrainStagingTerminal
  <2>1. /\ terminal' = [terminal EXCEPT ![open.req] = "taken"] /\ UNCHANGED phases
        /\ terminal[open.req] # "none"
    BY <1>6 DEF DrainStagingTerminal, PublishTerminal
  <2>2. \A r \in Requests : terminal'[r] # terminal[r] => r = open.req /\ terminal'[r] = "taken"
    BY <2>1, RequestFacts
  <2> QED
    BY <1>2, <2>1, <2>2 DEF RecordsStep
<1>7. CASE DrainControl
  <2>1. /\ UNCHANGED phases
        /\ \/ UNCHANGED terminal
           \/ /\ terminal[open.req] # "none"
              /\ terminal' = [terminal EXCEPT ![open.req] = "taken"]
    BY <1>7 DEF DrainControl
  <2>2. \A r \in Requests : terminal'[r] # terminal[r] =>
            r = open.req /\ terminal'[r] = "taken" /\ terminal[r] # "none"
    BY <2>1, RequestFacts
  <2> QED
    BY <1>2, <2>1, <2>2 DEF RecordsStep
<1>8. CASE DrainStagingPhase
  <2>1. /\ UNCHANGED terminal /\ phases[open.req] # << >> /\ Waits(open)
        /\ phases' = [phases EXCEPT ![open.req] = Tail(phases[open.req])]
    BY <1>1, <1>8 DEF DrainStagingPhase, Dispatched, Waits, LifeOK, CoordinatorOK
  <2>2. open.req \in Requests
    BY <1>1, <2>1, RequestFacts DEF LifeOK, CoordinatorOK, Waits
  <2>3. Len(Tail(phases[open.req])) = Len(phases[open.req]) - 1
    BY <1>2, <2>1, <2>2
  <2>4. \A r \in Requests : ~(Len(phases'[r]) > Len(phases[r]))
    BY <1>2, <2>1, <2>2, <2>3, RequestFacts
  <2> QED
    BY <2>1, <2>4 DEF RecordsStep
<1>9. CASE Opening /\ ~DrainStagingTerminal /\ ~DrainControl /\ ~DrainStagingPhase
  <2>1. UNCHANGED <<terminal, phases>>
    BY <1>9
       DEF Opening, Start, StartPrepared, DrainPreparation, BeginStage, SendStage,
           RollbackStage, PreparePosition, AuthorizeReady, AuthorizeReadySameLineage,
           Authorize, CancelBeforeStaging, CancelAtPlayer, TakeTerminal, Send, playerVars,
           receiptVars
  <2> QED
    BY <1>3, <2>1
<1>10. CASE UserStep
  BY <1>3, <1>10
     DEF UserStep, UpdatePlaybackIntent, WakeOwner, SendStop, SendRelease, Send, playerVars,
         receiptVars
<1>11. CASE OwnerStep
  <2>1. PlayerStep
    BY <1>11 DEF OwnerStep
  <2>2. CASE Drain \/ EndBatch \/ TickWithoutCandidate \/ WakeUp \/ PreflightPending
             \/ PositionPending \/ Register \/ Commit \/ ForgetVictim \/ Reply \/ Stop
             \/ ReceiveRelease
    BY <1>3, <2>2
       DEF Drain, DrainWake, DrainCurrent, DrainInstalled, DrainFinish, EndBatch,
           TickWithoutCandidate, WakeUp, PreflightPending, PositionPending, Register, Commit,
           ForgetVictim, Reply, Stop, ReceiveRelease, receiptVars
  <2>3. CASE ReceiveStage
    <3>1. Begin("none") /\ owner = "receive" /\ queue # << >> /\ Head(queue).op = "Stage"
      BY <2>3 DEF ReceiveStage
    <3>2. HasStage(queue) /\ Head(queue).req = open.req
      BY <3>1, ReceiveFacts
    <3>3. staged.req = open.req
      BY <1>1, <3>2 DEF LifeOK, PlaceOK, NotYetActive
    <3> QED
      BY <1>3, <2>3, <3>2, <3>3 DEF ReceiveStage
  <2>4. CASE Supersede
    BY <1>3, <1>5, <2>4 DEF Supersede
  <2>5. CASE Accept
    <3>1. task.req = open.req /\ terminal[open.req] = "none" /\ Waits(open)
      BY <1>1, <2>5 DEF Accept, LifeOK, PlaceOK, NotYetActive, Registering
    <3>2. open.req \in Requests
      BY <1>1, <3>1, RequestFacts DEF LifeOK, CoordinatorOK, Waits
    <3> QED
      BY <1>3, <2>5, <3>1, <3>2, PublishedEnd DEF Accept, EndBeforeCommit
  <2>6. ASSUME active.req # 0, PositionGate(active.req)
        PROVE  RecordsStep(terminal, phases, terminal', phases')
    BY <1>4, <1>5, <2>6, PublishedPhase DEF PositionGate
  <2>7. active.state # "none" => active.req # 0
    BY <1>1 DEF LifeOK, CandidateOK, NoActive
  <2>8. CASE PreflightSettles
    BY <1>4, <1>5, <2>7, <2>8, PublishedPhase DEF PreflightSettles
  <2>9. CASE PositionSettles
    BY <2>6, <2>7, <2>9 DEF PositionSettles
  <2>10. CASE ReceivePrepare
    BY <1>3, <2>6, <2>7, <2>10 DEF ReceivePrepare, IsMatching
  <2>11. CASE ReceiveAuthorize
    BY <1>3, <1>5, <2>7, <2>11 DEF ReceiveAuthorize, IsMatching
  <2>12. CASE ReceiveCancel
    <3>1. Head(queue).req # 0
      <4>1. PlayerTypeOK /\ StreamOK(queue, open, terminal)
        BY <1>1 DEF LifeOK
      <4>2. Live(Head(queue), open) \/ Late(Head(queue), open, terminal)
        BY <2>12, <4>1, StreamTail DEF ReceiveCancel, Controls
      <4> QED
        BY <2>12, <4>2, ControlFacts DEF ReceiveCancel, Late
    <3> QED
      BY <1>3, <1>5, <2>12, <3>1 DEF ReceiveCancel, IsMatching
  <2>13. CASE ReceiveStop
    BY <1>3, <1>5, <2>13 DEF ReceiveStop
  <2>14. CASE PublishInstalled
    <3>1. task.req = open.req /\ terminal[open.req] = "none" /\ Waits(open)
      BY <1>1, <2>14 DEF PublishInstalled, LifeOK, PlaceOK, ControlOK, Controls
    <3>2. open.req \in Requests
      BY <1>1, <3>1, RequestFacts DEF LifeOK, CoordinatorOK, Waits
    <3> QED
      BY <2>14, <3>1, <3>2, PublishedEnd DEF PublishInstalled
  <2> QED
    BY <2>1, <2>2, <2>3, <2>4, <2>5, <2>8, <2>9, <2>10, <2>11, <2>12, <2>13, <2>14
       DEF PlayerStep, Staging, Control
<1> QED
  BY <1>6, <1>7, <1>8, <1>9, <1>10, <1>11 DEF Next

\* The record of a request is published once, taken once, and no phase of it is
\* published after it.
THEOREM OneTerminalPerRequest == Spec => OneTerminal
<1>1. IInv /\ [Next]_vars =>
        [\A r \in Requests :
          /\ terminal'[r] # terminal[r] =>
                \/ terminal[r] = "none" /\ terminal'[r] # "taken"
                \/ terminal[r] # "none" /\ terminal'[r] = "taken"
          /\ Len(phases'[r]) > Len(phases[r]) => terminal[r] = "none"]_vars
  BY RecordsKept DEF RecordsStep
<1> QED
  BY <1>1, Invariance, PTL DEF Spec, OneTerminal

=============================================================================
