---------------------------- MODULE CommandQueue ----------------------------
(***************************************************************************)
(* The command queue of the player worker                                  *)
(* (crates/player-core/src/worker/command_queue.rs and sender.rs): a       *)
(* bounded channel `main`, an ordered overflow `reserve` behind it under    *)
(* one mutex, and a capacity-one wake channel.                              *)
(*                                                                         *)
(* A command is a record [id, kind].  Ids number the accepted commands in   *)
(* acceptance order; id 0 marks the terminal Shutdown, which is outside     *)
(* that order.  What a command carries besides its delivery class is left   *)
(* out.  One critical section of the reserve mutex is one step: the channel *)
(* operation inside it commutes with the receiver, which needs the mutex    *)
(* to look into the reserve.                                                *)
(***************************************************************************)
EXTENDS Integers, Sequences, FiniteSets, SequencesExt

CONSTANTS
    Senders,        \* the clones of PlayerCommandSender, one thread each
    LatestKinds,    \* delivery classes LatestValue(kind)
    OrderedKinds,   \* player commands of class Ordered, "Shutdown" among them
    MainCap,        \* COMMAND_CHANNEL_CAPACITY
    ReserveCap,     \* COMMAND_RESERVE_CAPACITY
    MaxCommands     \* model bound: how many commands are accepted in all

ASSUME QueueAssumption ==
    /\ IsFiniteSet(Senders)
    /\ MainCap \in Nat \ {0}
    /\ ReserveCap \in Nat \ {0}
    /\ MaxCommands \in Nat
    /\ LatestKinds \cap (OrderedKinds \cup {"Receipt", "Lossless"}) = {}
    /\ OrderedKinds \cap {"Receipt", "Lossless"} = {}

VARIABLES
    main,             \* main_tx / main_rx: the bounded crossbeam channel
    reserve,          \* CommandReserveState.commands
    wake,             \* is a token in the capacity-one wake channel?
    inboxClosed,      \* CommandReserveState.inbox_closed
    mainGone,         \* has the worker dropped main_rx?
    admissionClosed,  \* the terminal gate shared by all senders
    senders,          \* what each sender thread is doing
    accepted          \* how many commands the queue has accepted

queueVars ==
    <<main, reserve, wake, inboxClosed, mainGone, admissionClosed, senders,
      accepted>>

PlayerKinds == LatestKinds \cup OrderedKinds
Kinds == PlayerKinds \cup {"Receipt", "Lossless"}

Command == [id : 0 .. MaxCommands, kind : Kinds \cup {"Shutdown"}]
TerminalShutdown == [id |-> 0, kind |-> "Shutdown"]

IdleSender == [pc |-> "idle"]
SenderState ==
    [pc : {"idle", "wake", "dropped"}] \cup [pc : {"admitted"}, kind : Kinds]
        \cup [pc : {"reply"}, id : 1 .. MaxCommands]

QueueInit ==
    /\ main = <<>>
    /\ reserve = <<>>
    /\ wake = FALSE
    /\ inboxClosed = FALSE
    /\ mainGone = FALSE
    /\ admissionClosed = FALSE
    /\ senders = [s \in Senders |-> IdleSender]
    /\ accepted = 0

QueueTypeOK ==
    /\ main \in Seq(Command)
    /\ Len(main) <= MainCap
    /\ reserve \in Seq(Command)
    /\ wake \in BOOLEAN
    /\ inboxClosed \in BOOLEAN
    /\ mainGone \in BOOLEAN
    /\ admissionClosed \in BOOLEAN
    /\ senders \in [Senders -> SenderState]
    /\ accepted \in 0 .. MaxCommands

Queued == Range(main) \cup Range(reserve)

-----------------------------------------------------------------------------
(* Sending.                                                                *)

InFlight == {s \in Senders : senders[s].pc = "admitted"}

\* ensure_admission_open: the gate is read before, and outside of, the
\* critical section.  A closed gate returns Disconnected and changes nothing.
Admit(s, kind) ==
    /\ senders[s].pc = "idle"
    /\ ~admissionClosed
    /\ accepted + Cardinality(InFlight) < MaxCommands
    /\ senders' = [senders EXCEPT ![s] = [pc |-> "admitted", kind |-> kind]]
    /\ UNCHANGED <<main, reserve, wake, inboxClosed, mainGone,
                   admissionClosed, accepted>>

\* The sender's call comes back, with Ok or with an error.
SenderReturns(s) == senders' = [senders EXCEPT ![s] = IdleSender]

\* The sender has left the critical section and still has to wake the worker.
SenderOwesWake(s) == senders' = [senders EXCEPT ![s] = [pc |-> "wake"]]

New(kind) == [id |-> accepted + 1, kind |-> kind]

PushMain(command) ==
    /\ main' = Append(main, command)
    /\ UNCHANGED reserve

\* The bug of merging with the tail whatever its kind.
Mut_CoalescesWithTail(kind) == kind \in LatestKinds /\ reserve # <<>>

\* A latest value only replaces the very last command of the reserve.
CoalescesWithTail(kind) ==
    /\ kind \in LatestKinds
    /\ reserve # <<>>
    /\ Last(reserve).kind = kind

ReserveIsFull == Len(reserve) >= ReserveCap

\* push_into_reserve, for the pushes it accepts.
PushIntoReserve(kind) ==
    /\ reserve' = IF CoalescesWithTail(kind)
                  THEN [reserve EXCEPT ![Len(reserve)] = New(kind)]
                  ELSE Append(reserve, New(kind))
    /\ UNCHANGED main

\* Only an empty reserve lets a command into the main channel.
MainAdmits == reserve = <<>> /\ Len(main) < MainCap

\* try_send_player_command
SendPlayerCommand(s) ==
    LET kind == senders[s].kind
    IN  /\ senders[s].pc = "admitted"
        /\ kind \in PlayerKinds
        /\ \/ /\ inboxClosed                                \* Disconnected
              /\ SenderReturns(s)
              /\ UNCHANGED <<main, reserve, accepted>>
           \/ /\ ~inboxClosed /\ MainAdmits                 \* Queued
              /\ PushMain(New(kind))
              /\ SenderReturns(s)
              /\ accepted' = accepted + 1
           \/ /\ ~inboxClosed /\ ~MainAdmits
              /\ CoalescesWithTail(kind) \/ ~ReserveIsFull  \* Reserved, Coalesced
              /\ PushIntoReserve(kind)
              /\ SenderOwesWake(s)
              /\ accepted' = accepted + 1
           \/ /\ ~inboxClosed /\ ~MainAdmits                \* Full
              /\ ~CoalescesWithTail(kind) /\ ReserveIsFull
              /\ SenderReturns(s)
              /\ UNCHANGED <<main, reserve, accepted>>
        /\ UNCHANGED <<wake, inboxClosed, mainGone, admissionClosed>>

\* The receipt command that ignores the commands waiting in the reserve.
Mut_SendOrdered(s) ==
    /\ senders[s].pc = "admitted"
    /\ senders[s].kind = "Receipt"
    /\ \/ /\ ~inboxClosed /\ Len(main) < MainCap
          /\ PushMain(New("Receipt"))
          /\ accepted' = accepted + 1
       \/ /\ inboxClosed \/ Len(main) >= MainCap
          /\ UNCHANGED <<main, reserve, accepted>>
    /\ SenderReturns(s)
    /\ UNCHANGED <<wake, inboxClosed, mainGone, admissionClosed>>

\* apply_runtime_settings blocks on the reply to the command it has sent; the
\* other ordered sends leave the sender with a receipt.
SenderAwaitsReply(s) ==
    senders' = [senders EXCEPT ![s] = [pc |-> "reply", id |-> accepted + 1]]

\* try_send_ordered_worker_command: Full rather than the reserve.
SendOrdered(s) ==
    /\ senders[s].pc = "admitted"
    /\ senders[s].kind = "Receipt"
    /\ \/ /\ ~inboxClosed /\ MainAdmits
          /\ PushMain(New("Receipt"))
          /\ accepted' = accepted + 1
          /\ SenderReturns(s) \/ SenderAwaitsReply(s)
       \/ /\ inboxClosed \/ ~MainAdmits                     \* Disconnected, Full
          /\ SenderReturns(s)
          /\ UNCHANGED <<main, reserve, accepted>>
    /\ UNCHANGED <<wake, inboxClosed, mainGone, admissionClosed>>

\* send_lossless_worker_command: the reserve takes it beyond its capacity.
SendLossless(s) ==
    /\ senders[s].pc = "admitted"
    /\ senders[s].kind = "Lossless"
    /\ \/ /\ inboxClosed                                    \* Disconnected
          /\ SenderReturns(s)
          /\ UNCHANGED <<main, reserve, accepted>>
       \/ /\ ~inboxClosed /\ MainAdmits
          /\ PushMain(New("Lossless"))
          /\ SenderReturns(s)
          /\ accepted' = accepted + 1
       \/ /\ ~inboxClosed /\ ~MainAdmits
          /\ PushIntoReserve("Lossless")
          /\ SenderOwesWake(s)
          /\ accepted' = accepted + 1
    /\ UNCHANGED <<wake, inboxClosed, mainGone, admissionClosed>>

\* wake_worker, after the mutex was released.  A full channel is left alone.
WakeWorker(s) ==
    /\ senders[s].pc = "wake"
    /\ wake' = TRUE
    /\ SenderReturns(s)
    /\ UNCHANGED <<main, reserve, inboxClosed, mainGone, admissionClosed,
                   accepted>>

SenderStep(s) ==
    \/ SendPlayerCommand(s)
    \/ SendOrdered(s)
    \/ SendLossless(s)
    \/ WakeWorker(s)

-----------------------------------------------------------------------------
(* Receiving: the pieces the worker loop puts together.                    *)

PopMain == main' = Tail(main) /\ UNCHANGED reserve
PopReserve == reserve' = Tail(reserve) /\ UNCHANGED main

\* Forgets to close the reserve to later senders.
Mut_CloseInbox ==
    /\ reserve' = <<>>
    /\ UNCHANGED <<main, wake, inboxClosed, mainGone, admissionClosed,
                   senders, accepted>>

\* Drop for WorkerCommandInbox: nothing is accepted for a reader that is gone.
CloseInbox ==
    /\ inboxClosed' = TRUE
    /\ reserve' = <<>>
    /\ UNCHANGED <<main, wake, mainGone, admissionClosed, senders, accepted>>

\* The receiver of the main channel goes after the body of that Drop.  That
\* disconnects the bounded channel for later senders; what was sent into it
\* stays there for as long as a sender is alive.
DropMain ==
    /\ mainGone' = TRUE
    /\ UNCHANGED <<main, reserve, wake, inboxClosed, admissionClosed, senders,
                   accepted>>

-----------------------------------------------------------------------------
(* What the queue promises.                                                *)

\* Whatever the senders and the worker interleave, the commands waiting in the
\* main channel were all accepted before the ones waiting in the reserve, and
\* each queue is in acceptance order (the three rules at the top of
\* command_queue.rs).
QueuesInAcceptanceOrder ==
    LET waiting == main \o reserve
    IN  \A i, j \in DOMAIN waiting :
           i < j /\ waiting[i].id # 0 /\ waiting[j].id # 0
               => waiting[i].id < waiting[j].id

\* User commands never hold more than COMMAND_RESERVE_CAPACITY cells of the
\* reserve, however many lossless commands push it over its limit.
ReserveHoldsItsBound ==
    Cardinality({i \in DOMAIN reserve : reserve[i].kind # "Lossless"}) <= ReserveCap

\* A closed inbox has an empty reserve, and it is closed before the channel is
\* disconnected (the order of the fields' Drops).
ClosedInboxIsEmpty ==
    /\ inboxClosed => reserve = <<>>
    /\ mainGone => inboxClosed

\* A sender that passed the admission gate before the worker stopped is not told
\* that its command was accepted once nobody will read it: the reserve of a
\* closed inbox stays empty, and the main channel takes nothing more but the
\* terminal Shutdown.
NothingLeftBehind ==
    [][/\ ClosedInboxIsEmpty'
       /\ inboxClosed =>
             \A c \in Range(main') : c.id = 0 \/ c \in Range(main)]_queueVars
=============================================================================
