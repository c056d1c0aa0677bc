--------------------------- MODULE PlaybackIntent ---------------------------
(***************************************************************************)
(* PlaybackIntentControl (player-core/src/media_install/playback_intent.rs): *)
(* the small latest-only state that orders Play and Pause of the user       *)
(* against the commit of a media install.  All of it is guarded by one      *)
(* mutex, so every method is one step; the sender of the user interface     *)
(* and the worker that owns the player call them in any order.              *)
(*                                                                         *)
(* A request creates at most one media instance, so an instance is named by *)
(* its request.  0 is the absent request, revision and instance.            *)
(***************************************************************************)
EXTENDS Integers, Sequences

CONSTANTS
    Intents,        \* the variants of PlaybackIntent, or one of them
    MaxRequests,    \* bound: install requests ever allocated
    MaxRevision,    \* bound: highest intent revision
    MaxUpdates      \* bound: intent updates ever submitted

ASSUME IntentAssumption ==
    /\ Intents \subseteq {"StartPlaying", "StartPaused"} /\ "StartPaused" \in Intents
    /\ MaxRequests \in Nat /\ MaxRevision \in Nat \ {0} /\ MaxUpdates \in Nat

Requests == 1 .. MaxRequests
Revisions == 1 .. MaxRevision

Outcomes ==
    {"none", "AppliedToStaged", "AppliedToInstalled", "StaleRevision",
     "UnknownOrSuperseded", "StaleInstance"}

VARIABLES
    staged,         \* the slot of the candidate: request and highest intent
    installed,      \* the slot of the current instance and its applied intent
    pending,        \* its one update that waits for the player owner
    staleInstalled, \* the installed request before it
    forCurrent,     \* pending_current_for_staged: an update of the candidate
                    \* that must also reach the old instance
    answers         \* the updates so far, each with the outcome of its receipt

intentVars == <<staged, installed, pending, staleInstalled, forCurrent, answers>>

NoSlot == [req |-> 0, rev |-> 0, intent |-> "StartPaused"]
NoUpdate == [rev |-> 0, intent |-> "StartPaused", waiters |-> {}]
NoApply == [req |-> 0, inst |-> 0, intent |-> "StartPaused"]

Slot == [req : 0 .. MaxRequests, rev : 0 .. MaxRevision, intent : Intents]

IntentInit ==
    /\ staged = NoSlot
    /\ installed = NoSlot
    /\ pending = NoUpdate
    /\ staleInstalled = 0
    /\ forCurrent = NoApply
    /\ answers = << >>

IntentTypeOK ==
    /\ staged \in Slot
    /\ installed \in Slot
    /\ pending \in [rev : 0 .. MaxRevision, intent : Intents,
                    waiters : SUBSET (1 .. MaxUpdates)]
    /\ staleInstalled \in 0 .. MaxRequests
    /\ forCurrent \in [req : 0 .. MaxRequests, inst : 0 .. MaxRequests,
                       intent : Intents]
    /\ answers \in Seq([req : Requests, rev : Revisions, intent : Intents,
                        outcome : Outcomes])
    /\ Len(answers) <= MaxUpdates

----------------------------------------------------------------------------
(* The staged slot *)

\* begin_staged_registration; the caller keeps the previous slot for a rollback.
BeginStagedRegistration(r, initial) ==
    /\ staged' = [req |-> r, rev |-> initial.rev, intent |-> initial.intent]
    /\ UNCHANGED <<installed, pending, staleInstalled, forCurrent, answers>>

\* rollback_staged_registration
RollbackStagedRegistration(r, previous) ==
    /\ staged' = IF staged.req = r THEN previous ELSE staged
    /\ UNCHANGED <<installed, pending, staleInstalled, forCurrent, answers>>

Mut_RegisterStagedRequest(r, initial) ==
    /\ staged' = [req |-> r, rev |-> initial.rev, intent |-> initial.intent]
    /\ UNCHANGED <<installed, pending, staleInstalled, forCurrent, answers>>

\* register_staged_request: a newer revision that came before stays.
RegisterStagedRequest(r, initial) ==
    /\ staged' = IF staged.req = r /\ initial.rev <= staged.rev
                 THEN staged
                 ELSE [req |-> r, rev |-> initial.rev, intent |-> initial.intent]
    /\ UNCHANGED <<installed, pending, staleInstalled, forCurrent, answers>>

\* forget_staged_request
ForgetStagedRequest(r) ==
    /\ staged' = IF staged.req = r THEN NoSlot ELSE staged
    /\ UNCHANGED <<installed, pending, staleInstalled, forCurrent, answers>>

\* The answers after the receipts in ws got an outcome.  A receipt keeps its
\* first one.
Publish(ws, outcome) ==
    [i \in DOMAIN answers |->
        IF i \in ws /\ answers[i].outcome = "none"
        THEN [answers[i] EXCEPT !.outcome = outcome]
        ELSE answers[i]]

Mut_CommitStagedRequest(r) ==
    /\ staged.req = r
    /\ staged' = NoSlot
    /\ installed' = staged
    /\ pending' = NoUpdate
    /\ staleInstalled' = IF installed.req # 0 THEN installed.req ELSE staleInstalled
    /\ forCurrent' = IF forCurrent.req = r THEN NoApply ELSE forCurrent
    /\ UNCHANGED answers

\* commit_staged_request for the request in the slot: the player changes owner
\* under the same lock, and the updates of the old instance turn stale.
CommitStagedRequest(r) ==
    /\ staged.req = r
    /\ staged' = NoSlot
    /\ installed' = staged
    /\ pending' = NoUpdate
    /\ staleInstalled' = IF installed.req # 0 THEN installed.req ELSE staleInstalled
    /\ forCurrent' = IF forCurrent.req = r THEN NoApply ELSE forCurrent
    /\ answers' = Publish(pending.waiters, "StaleInstance")

----------------------------------------------------------------------------
(* submit_update, by the slot that holds the request *)

StaleRevision(accepted, u) ==
    \/ u.rev < accepted.rev
    \/ u.rev = accepted.rev /\ u.intent # accepted.intent

Answer(u, outcome) ==
    [req |-> u.req, rev |-> u.rev, intent |-> u.intent, outcome |-> outcome]

\* compare_and_update_accepted.  Each of the three ways returns through wakes
\* whether the player owner has something to do.
SubmitToStaged(u, wakes) ==
    /\ staged.req = u.req
    /\ LET accepted == ~StaleRevision(staged, u)
       IN /\ wakes = accepted
          /\ staged' = IF u.rev > staged.rev
                       THEN [staged EXCEPT !.rev = u.rev, !.intent = u.intent]
                       ELSE staged
          /\ forCurrent' = IF accepted /\ installed.req # 0
                           THEN [req |-> u.req, inst |-> installed.req,
                                 intent |-> u.intent]
                           ELSE forCurrent
          /\ answers' = Append(answers,
                            Answer(u, IF accepted THEN "AppliedToStaged"
                                      ELSE "StaleRevision"))
    /\ UNCHANGED <<installed, pending, staleInstalled>>

HighestAccepted == IF pending.rev # 0 THEN pending ELSE installed

\* submit_installed_update: stale, already applied, joined to the pending one,
\* or in its place.
SubmitToInstalled(u, wakes) ==
    /\ staged.req # u.req
    /\ installed.req = u.req
    /\ LET me == Len(answers) + 1
       IN \/ /\ StaleRevision(HighestAccepted, u)
             /\ answers' = Append(answers, Answer(u, "StaleRevision"))
             /\ ~wakes
             /\ UNCHANGED pending
          \/ /\ u.rev = HighestAccepted.rev /\ u.intent = HighestAccepted.intent
             /\ pending.rev = 0
             /\ answers' = Append(answers, Answer(u, "AppliedToInstalled"))
             /\ ~wakes
             /\ UNCHANGED pending
          \/ /\ u.rev = pending.rev /\ u.intent = pending.intent
             /\ answers' = Append(answers, Answer(u, "none"))
             /\ pending' = [pending EXCEPT !.waiters = @ \cup {me}]
             /\ wakes
          \/ /\ u.rev > HighestAccepted.rev
             /\ answers' = Append(Publish(pending.waiters, "StaleRevision"),
                                  Answer(u, "none"))
             /\ pending' = [rev |-> u.rev, intent |-> u.intent, waiters |-> {me}]
             /\ wakes
    /\ UNCHANGED <<staged, installed, staleInstalled, forCurrent>>

SubmitToNobody(u, wakes) ==
    /\ staged.req # u.req
    /\ installed.req # u.req
    /\ ~wakes
    /\ answers' = Append(answers,
                    Answer(u, IF staleInstalled = u.req THEN "StaleInstance"
                              ELSE "UnknownOrSuperseded"))
    /\ UNCHANGED <<staged, installed, pending, staleInstalled, forCurrent>>

SubmitUpdate(u, wakes) ==
    /\ Len(answers) < MaxUpdates
    /\ \/ SubmitToStaged(u, wakes)
       \/ SubmitToInstalled(u, wakes)
       \/ SubmitToNobody(u, wakes)

----------------------------------------------------------------------------
(* The player owner's side *)

\* take_pending_current_for_staged
TakePendingCurrent ==
    /\ forCurrent.req # 0
    /\ forCurrent' = NoApply
    /\ UNCHANGED <<staged, installed, pending, staleInstalled, answers>>

\* take_pending_installed_update
TakePendingInstalled ==
    /\ pending.rev # 0
    /\ pending' = NoUpdate
    /\ UNCHANGED <<staged, installed, staleInstalled, forCurrent, answers>>

\* finish_installed_update of what was taken for instance inst.  The slot cannot
\* change its request meanwhile: only the owner commits.
FinishInstalledUpdate(taken, inst, applied) ==
    LET exact == installed.req = inst /\ applied
    IN /\ installed' = IF exact /\ taken.rev >= installed.rev
                       THEN [installed EXCEPT !.rev = taken.rev,
                                              !.intent = taken.intent]
                       ELSE installed
       /\ answers' = Publish(taken.waiters,
                        IF exact THEN "AppliedToInstalled" ELSE "StaleInstance")
       /\ UNCHANGED <<staged, pending, staleInstalled, forCurrent>>
=============================================================================
