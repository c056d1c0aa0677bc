------------------------- MODULE PlayerWorkerProofs -------------------------
(***************************************************************************)
(* Proofs about PlayerWorker and its CommandQueue: WorkerInv from an        *)
(* inductive invariant, and the properties of the steps: a closed inbox     *)
(* takes nothing more, a command is lost only by coalescing, and overtaken  *)
(* only in the window of try_receive.                                       *)
(***************************************************************************)
EXTENDS PlayerWorker, TLAPS, FiniteSetTheorems, SequenceTheorems

-----------------------------------------------------------------------------
(* The inductive invariant *)

\* The commands of the channel m and the reserve r when n were accepted: in
\* acceptance order, the channel before the reserve, the newest at the
\* reserve's end.  Id 0, the terminal request, has no place in the order.
Ordered(m, r, n) ==
    /\ \A i \in DOMAIN m : m[i].id <= n
    /\ \A i \in DOMAIN r : 0 < r[i].id /\ r[i].id <= n
    /\ \A i, j \in DOMAIN m :
          i < j /\ m[i].id # 0 /\ m[j].id # 0 => m[i].id < m[j].id
    /\ \A i, j \in DOMAIN r : i < j => r[i].id < r[j].id
    /\ \A i \in DOMAIN m, j \in DOMAIN r : m[i].id < r[j].id
    /\ r # <<>> => r[Len(r)].id = n

\* The cells of the reserve that user commands hold.
UserCells(r) == {i \in DOMAIN r : r[i].kind # "Lossless"}

\* The terminal requests in the channel.
Requests(m) == {i \in DOMAIN m : m[i].id = 0}

Flying(f) == {s \in Senders : f[s].pc = "admitted"}

\* What is accepted and what may still be stays within the bound of the model.
WithinBound == accepted + Cardinality(Flying(senders)) <= MaxCommands

\* Where the worker can be with what in its hands.
WorkerOK ==
    /\ IF worker = "handle" THEN \E c \in Command : current = {c} ELSE current = {}
    /\ worker \in {"dropMain", "dropCancel", "exit", "finished"} => inboxClosed
    /\ worker \in {"cancelCheck", "select", "asleep"} => mode # "batch"
    /\ mode = "batch" /\ worker \in {"recvMain", "recvReserve", "recvAgain", "handle"}
          => batch < MaxBatch
    /\ worker = "recvReserve" =>
          /\ seen <= accepted
          /\ \A i \in DOMAIN main : main[i].id # 0 => main[i].id > seen

\* The terminal request is sent at most once, by the owner that leaves Running.
RequestOK ==
    /\ owner \in {"sendCommand", "sendCancel"} => terminal = "Running"
    /\ owner = "gone" => terminal # "Running"
    /\ terminal = "Running" /\ owner # "sendCancel" =>
          Requests(main) = {} /\ \A c \in current : c.id # 0

\* Only shutdown_before polls: Drop returns with the thread joined or leaked.
OwnerOK ==
    /\ owner = "poll" => call = "shutdown_before"
    /\ ReleaseOnlyAfterExit

IInv ==
    /\ TypeOK
    /\ WithinBound
    /\ Ordered(main, reserve, accepted)
    /\ Cardinality(UserCells(reserve)) <= ReserveCap
    /\ ClosedInboxIsEmpty
    /\ NoLostWakeup
    /\ OneTerminalRequest
    /\ WorkerOK
    /\ RequestOK
    /\ OwnerOK

-----------------------------------------------------------------------------
(* Lemmas about the two queues *)

\* The operations on a sequence in the form the provers use them.
LEMMA SeqFacts ==
  ASSUME NEW S, NEW q \in Seq(S), NEW e \in S
  PROVE  /\ Len(q) \in Nat /\ DOMAIN q = 1 .. Len(q)
         /\ \A i \in DOMAIN q : q[i] \in S
         /\ Append(q, e) \in Seq(S) /\ Len(Append(q, e)) = Len(q) + 1
         /\ DOMAIN Append(q, e) = 1 .. Len(q) + 1
         /\ \A i \in 1 .. Len(q) : Append(q, e)[i] = q[i]
         /\ Append(q, e)[Len(q) + 1] = e
  OBVIOUS

\* What is left of a queue after its head has been taken.
LEMMA TailFacts ==
  ASSUME NEW S, NEW q \in Seq(S), q # <<>>
  PROVE  /\ Len(q) \in Nat \ {0} /\ DOMAIN q = 1 .. Len(q)
         /\ Head(q) = q[1] /\ Head(q) \in S
         /\ Tail(q) \in Seq(S) /\ Len(Tail(q)) = Len(q) - 1
         /\ DOMAIN Tail(q) = 1 .. Len(q) - 1
         /\ \A i \in 1 .. Len(q) - 1 : Tail(q)[i] = q[i + 1]
         /\ \A i \in 1 .. Len(q) - 1 : i + 1 \in DOMAIN q
         /\ (Tail(q) = <<>> <=> Len(q) = 1)
<1>1. /\ Len(q) \in Nat \ {0} /\ DOMAIN q = 1 .. Len(q)
      /\ Head(q) = q[1] /\ Head(q) \in S
      /\ Tail(q) \in Seq(S) /\ Len(Tail(q)) = Len(q) - 1
      /\ DOMAIN Tail(q) = 1 .. Len(q) - 1
      /\ \A i \in 1 .. Len(q) - 1 : Tail(q)[i] = q[i + 1]
  OBVIOUS
<1>2. \A i \in 1 .. Len(q) - 1 : i + 1 \in DOMAIN q
  BY <1>1
<1>3. Len(Tail(q)) = 0 <=> Tail(q) = <<>>
  BY <1>1, EmptySeq
<1>4. Tail(q) = <<>> <=> Len(q) = 1
  BY <1>1, <1>3
<1> QED
  BY <1>1, <1>2, <1>4

\* What is left of a queue whose last command was replaced (coalescing).
LEMMA ReplaceFacts ==
  ASSUME NEW S, NEW q \in Seq(S), q # <<>>, NEW e \in S
  PROVE  /\ [q EXCEPT ![Len(q)] = e] \in Seq(S)
         /\ Len([q EXCEPT ![Len(q)] = e]) = Len(q)
         /\ DOMAIN [q EXCEPT ![Len(q)] = e] = 1 .. Len(q)
         /\ Len(q) \in Nat \ {0} /\ DOMAIN q = 1 .. Len(q)
         /\ \A i \in 1 .. Len(q) - 1 : [q EXCEPT ![Len(q)] = e][i] = q[i]
         /\ [q EXCEPT ![Len(q)] = e][Len(q)] = e
  OBVIOUS

\* The ids of queued commands are numbers.
LEMMA CommandIds ==
  ASSUME NEW c \in Command
  PROVE  c.id \in Nat /\ c.id <= MaxCommands
  BY QueueAssumption DEF Command

\* A command accepted into the channel while the reserve is empty.
LEMMA OrderedPushMain ==
  ASSUME NEW m \in Seq(Command), NEW n \in Nat, NEW c \in Command, c.id = n + 1,
         Ordered(m, <<>>, n)
  PROVE  Ordered(Append(m, c), <<>>, n + 1)
<1> DEFINE a == Append(m, c)
<1>1. /\ Len(m) \in Nat /\ DOMAIN m = 1 .. Len(m) /\ DOMAIN a = 1 .. Len(m) + 1
      /\ \A i \in 1 .. Len(m) : a[i] = m[i]
      /\ a[Len(m) + 1] = c
  BY SeqFacts
<1>2. \A i \in DOMAIN m : m[i].id \in Nat /\ m[i].id <= n
  BY CommandIds, SeqFacts DEF Ordered
<1> HIDE DEF a
<1>3. \A i \in DOMAIN a : a[i].id <= n + 1
  BY <1>1, <1>2
<1>4. \A i, j \in DOMAIN a : i < j /\ a[i].id # 0 /\ a[j].id # 0 => a[i].id < a[j].id
  <2> SUFFICES ASSUME NEW i \in DOMAIN a, NEW j \in DOMAIN a, i < j, a[i].id # 0, a[j].id # 0
               PROVE  a[i].id < a[j].id
    OBVIOUS
  <2>1. i \in 1 .. Len(m) /\ a[i] = m[i]
    BY <1>1
  <2>2. CASE j = Len(m) + 1
    BY <2>1, <2>2, <1>1, <1>2
  <2>3. CASE j # Len(m) + 1
    <3>1. j \in 1 .. Len(m) /\ a[j] = m[j]
      BY <2>3, <1>1
    <3> QED
      BY <2>1, <3>1, <1>1 DEF Ordered
  <2> QED
    BY <2>2, <2>3
<1>5. Ordered(a, <<>>, n + 1)
  BY <1>3, <1>4 DEF Ordered
<1> QED
  BY <1>5 DEF a

\* A command accepted at the end of the reserve.
LEMMA OrderedPushReserve ==
  ASSUME NEW m \in Seq(Command), NEW r \in Seq(Command), NEW n \in Nat,
         NEW c \in Command, c.id = n + 1, Ordered(m, r, n)
  PROVE  Ordered(m, Append(r, c), n + 1)
<1> DEFINE a == Append(r, c)
<1>1. /\ Len(r) \in Nat /\ DOMAIN r = 1 .. Len(r) /\ DOMAIN a = 1 .. Len(r) + 1
      /\ Len(a) = Len(r) + 1
      /\ \A i \in 1 .. Len(r) : a[i] = r[i]
      /\ a[Len(r) + 1] = c
  BY SeqFacts
<1>2. /\ \A i \in DOMAIN r : r[i].id \in Nat /\ 0 < r[i].id /\ r[i].id <= n
      /\ \A i \in DOMAIN m : m[i].id \in Nat /\ m[i].id <= n
  BY CommandIds, SeqFacts DEF Ordered
<1> HIDE DEF a
<1>3. \A i \in DOMAIN m : m[i].id <= n + 1
  BY <1>2
<1>4. \A i \in DOMAIN a : 0 < a[i].id /\ a[i].id <= n + 1
  BY <1>1, <1>2
<1>5. \A i, j \in DOMAIN a : i < j => a[i].id < a[j].id
  <2> SUFFICES ASSUME NEW i \in DOMAIN a, NEW j \in DOMAIN a, i < j
               PROVE  a[i].id < a[j].id
    OBVIOUS
  <2>1. i \in 1 .. Len(r) /\ a[i] = r[i]
    BY <1>1
  <2>2. CASE j = Len(r) + 1
    BY <2>1, <2>2, <1>1, <1>2
  <2>3. CASE j # Len(r) + 1
    <3>1. j \in 1 .. Len(r) /\ a[j] = r[j]
      BY <2>3, <1>1
    <3> QED
      BY <2>1, <3>1, <1>1 DEF Ordered
  <2> QED
    BY <2>2, <2>3
<1>6. \A i \in DOMAIN m, j \in DOMAIN a : m[i].id < a[j].id
  <2> SUFFICES ASSUME NEW i \in DOMAIN m, NEW j \in DOMAIN a
               PROVE  m[i].id < a[j].id
    OBVIOUS
  <2>1. CASE j = Len(r) + 1
    BY <2>1, <1>1, <1>2
  <2>2. CASE j # Len(r) + 1
    <3>1. j \in 1 .. Len(r) /\ a[j] = r[j]
      BY <2>2, <1>1
    <3> QED
      BY <3>1, <1>1 DEF Ordered
  <2> QED
    BY <2>1, <2>2
<1>7. a[Len(a)].id = n + 1
  BY <1>1
<1>8. \A i, j \in DOMAIN m : i < j /\ m[i].id # 0 /\ m[j].id # 0 => m[i].id < m[j].id
  BY DEF Ordered
<1>9. Ordered(m, a, n + 1)
  BY <1>3, <1>4, <1>5, <1>6, <1>7, <1>8 DEF Ordered
<1> QED
  BY <1>9 DEF a

\* A latest value takes the cell of the newest command.
LEMMA OrderedCoalesce ==
  ASSUME NEW m \in Seq(Command), NEW r \in Seq(Command), r # <<>>, NEW n \in Nat,
         NEW c \in Command, c.id = n + 1, Ordered(m, r, n)
  PROVE  Ordered(m, [r EXCEPT ![Len(r)] = c], n + 1)
<1> DEFINE a == [r EXCEPT ![Len(r)] = c]
<1>1. /\ Len(r) \in Nat \ {0} /\ DOMAIN r = 1 .. Len(r) /\ DOMAIN a = 1 .. Len(r)
      /\ Len(a) = Len(r)
      /\ \A i \in 1 .. Len(r) - 1 : a[i] = r[i]
      /\ a[Len(r)] = c
  BY ReplaceFacts
<1>2. /\ \A i \in DOMAIN r : r[i].id \in Nat /\ 0 < r[i].id /\ r[i].id <= n
      /\ \A i \in DOMAIN m : m[i].id \in Nat /\ m[i].id <= n
  BY CommandIds, SeqFacts DEF Ordered
<1> HIDE DEF a
<1>3. \A i \in DOMAIN m : m[i].id <= n + 1
  BY <1>2
<1>4. \A i \in DOMAIN a : 0 < a[i].id /\ a[i].id <= n + 1
  BY <1>1, <1>2
<1>5. \A i, j \in DOMAIN a : i < j => a[i].id < a[j].id
  <2> SUFFICES ASSUME NEW i \in DOMAIN a, NEW j \in DOMAIN a, i < j
               PROVE  a[i].id < a[j].id
    OBVIOUS
  <2>1. i \in 1 .. Len(r) - 1 /\ a[i] = r[i]
    BY <1>1
  <2>2. CASE j = Len(r)
    BY <2>1, <2>2, <1>1, <1>2
  <2>3. CASE j # Len(r)
    <3>1. j \in 1 .. Len(r) - 1 /\ a[j] = r[j]
      BY <2>3, <1>1
    <3> QED
      BY <2>1, <3>1, <1>1 DEF Ordered
  <2> QED
    BY <2>2, <2>3
<1>6. \A i \in DOMAIN m, j \in DOMAIN a : m[i].id < a[j].id
  <2> SUFFICES ASSUME NEW i \in DOMAIN m, NEW j \in DOMAIN a
               PROVE  m[i].id < a[j].id
    OBVIOUS
  <2>1. CASE j = Len(r)
    BY <2>1, <1>1, <1>2
  <2>2. CASE j # Len(r)
    <3>1. j \in 1 .. Len(r) - 1 /\ a[j] = r[j]
      BY <2>2, <1>1
    <3> QED
      BY <3>1, <1>1 DEF Ordered
  <2> QED
    BY <2>1, <2>2
<1>7. a[Len(a)].id = n + 1
  BY <1>1
<1>8. \A i, j \in DOMAIN m : i < j /\ m[i].id # 0 /\ m[j].id # 0 => m[i].id < m[j].id
  BY DEF Ordered
<1>9. Ordered(m, a, n + 1)
  BY <1>3, <1>4, <1>5, <1>6, <1>7, <1>8 DEF Ordered
<1> QED
  BY <1>9 DEF a

\* Taking a command, clearing a queue and sending the terminal request keep the order.
LEMMA OrderedPopMain ==
  ASSUME NEW m \in Seq(Command), m # <<>>, NEW r \in Seq(Command), NEW n \in Nat,
         Ordered(m, r, n)
  PROVE  Ordered(Tail(m), r, n)
<1> DEFINE a == Tail(m)
<1>1. /\ Len(m) \in Nat \ {0} /\ DOMAIN m = 1 .. Len(m) /\ DOMAIN a = 1 .. Len(m) - 1
      /\ \A i \in 1 .. Len(m) - 1 : a[i] = m[i + 1] /\ i + 1 \in DOMAIN m
  BY TailFacts
<1> HIDE DEF a
<1>2. \A i, j \in DOMAIN a : i < j => i + 1 < j + 1
  BY <1>1
<1>3. Ordered(a, r, n)
  BY <1>1, <1>2 DEF Ordered
<1> QED
  BY <1>3 DEF a

\* Taking the oldest command of the reserve keeps the order of acceptance.
LEMMA OrderedPopReserve ==
  ASSUME NEW m \in Seq(Command), NEW r \in Seq(Command), r # <<>>, NEW n \in Nat,
         Ordered(m, r, n)
  PROVE  Ordered(m, Tail(r), n)
<1> DEFINE a == Tail(r)
<1>1. /\ Len(r) \in Nat \ {0} /\ DOMAIN r = 1 .. Len(r) /\ DOMAIN a = 1 .. Len(r) - 1
      /\ \A i \in 1 .. Len(r) - 1 : a[i] = r[i + 1] /\ i + 1 \in DOMAIN r
      /\ Len(a) = Len(r) - 1 /\ (a = <<>> <=> Len(r) = 1)
  BY TailFacts
<1> HIDE DEF a
<1>2. \A i, j \in DOMAIN a : i < j => i + 1 < j + 1
  BY <1>1
<1>3. a # <<>> => a[Len(a)].id = n
  <2> SUFFICES ASSUME a # <<>> PROVE a[Len(a)].id = n
    OBVIOUS
  <2>1. Len(a) \in 1 .. Len(r) - 1 /\ Len(a) + 1 = Len(r)
    BY <1>1
  <2> QED
    BY <2>1, <1>1 DEF Ordered
<1>4. /\ \A i \in DOMAIN a : 0 < a[i].id /\ a[i].id <= n
      /\ \A i, j \in DOMAIN a : i < j => a[i].id < a[j].id
      /\ \A i \in DOMAIN m, j \in DOMAIN a : m[i].id < a[j].id
  BY <1>1, <1>2 DEF Ordered
<1>5. Ordered(m, a, n)
  BY <1>3, <1>4 DEF Ordered
<1> QED
  BY <1>5 DEF a

\* A request without a number of acceptance does not take part in the order.
LEMMA OrderedRequest ==
  ASSUME NEW m \in Seq(Command), NEW r \in Seq(Command), NEW n \in Nat,
         Ordered(m, r, n), NEW c \in Command, c.id = 0
  PROVE  Ordered(Append(m, c), r, n)
<1> DEFINE a == Append(m, c)
<1>1. /\ Len(m) \in Nat /\ DOMAIN m = 1 .. Len(m) /\ DOMAIN a = 1 .. Len(m) + 1
      /\ \A i \in 1 .. Len(m) : a[i] = m[i]
      /\ a[Len(m) + 1] = c
  BY SeqFacts
<1> HIDE DEF a
<1>2. \A i \in DOMAIN a : (i \in DOMAIN m /\ a[i] = m[i]) \/ (i = Len(m) + 1 /\ a[i].id = 0)
  BY <1>1
<1>3. Ordered(a, r, n)
  <2>1. \A i \in DOMAIN a : a[i].id <= n
    BY <1>2 DEF Ordered
  <2>2. \A i, j \in DOMAIN a : i < j /\ a[i].id # 0 /\ a[j].id # 0 => a[i].id < a[j].id
    BY <1>2 DEF Ordered
  <2>3. \A i \in DOMAIN a, j \in DOMAIN r : a[i].id < r[j].id
    BY <1>2 DEF Ordered
  <2> QED
    BY <2>1, <2>2, <2>3 DEF Ordered
<1> QED
  BY <1>3 DEF a

\* Either queue may be emptied without disturbing the order of the other.
LEMMA OrderedEmpty ==
  ASSUME NEW m \in Seq(Command), NEW r \in Seq(Command), NEW n \in Nat, Ordered(m, r, n)
  PROVE  Ordered(m, <<>>, n) /\ Ordered(<<>>, r, n)
  BY DEF Ordered

\* The user cells of a reserve are finitely many, at most one per cell.
LEMMA UserCellsFinite ==
  ASSUME NEW r \in Seq(Command)
  PROVE  /\ IsFiniteSet(UserCells(r)) /\ Cardinality(UserCells(r)) \in Nat
         /\ Cardinality(UserCells(r)) <= Len(r)
<1>0. Len(r) \in Nat /\ DOMAIN r = 1 .. Len(r)
  BY LenProperties
<1>1. Len(r) \in Nat /\ UserCells(r) \in SUBSET (1 .. Len(r))
  BY <1>0 DEF UserCells
<1>2. IsFiniteSet(1 .. Len(r)) /\ Cardinality(1 .. Len(r)) = Len(r)
  <2>1. 1 \in Int /\ Len(r) \in Int
    BY <1>1
  <2>2. /\ IsFiniteSet(1 .. Len(r))
        /\ Cardinality(1 .. Len(r)) = IF 1 > Len(r) THEN 0 ELSE Len(r) - 1 + 1
    BY <2>1, FS_Interval
  <2> QED
    BY <2>2, <1>1
<1> QED
  BY <1>1, <1>2, FS_Subset, FS_CardinalityType

\* A lossless command takes no user cell, another one only below the bound.
LEMMA UserCellsPush ==
  ASSUME NEW r \in Seq(Command), NEW c \in Command,
         Cardinality(UserCells(r)) <= ReserveCap,
         c.kind = "Lossless" \/ Len(r) < ReserveCap
  PROVE  Cardinality(UserCells(Append(r, c))) <= ReserveCap
<1> DEFINE a == Append(r, c)
<1>1. /\ Len(r) \in Nat /\ DOMAIN r = 1 .. Len(r) /\ DOMAIN a = 1 .. Len(r) + 1
      /\ Len(a) = Len(r) + 1 /\ a \in Seq(Command)
      /\ \A i \in 1 .. Len(r) : a[i] = r[i]
      /\ a[Len(r) + 1] = c
  BY SeqFacts
<1> HIDE DEF a
<1>2. CASE c.kind = "Lossless"
  <2>1. UserCells(a) = UserCells(r)
    BY <1>1, <1>2 DEF UserCells
  <2> QED
    BY <2>1 DEF a
<1>3. CASE Len(r) < ReserveCap
  <2>1. Cardinality(UserCells(a)) <= Len(r) + 1 /\ Cardinality(UserCells(a)) \in Nat
    BY <1>1, UserCellsFinite
  <2> QED
    BY <1>1, <1>3, <2>1, QueueAssumption DEF a
<1> QED
  BY <1>2, <1>3

\* Coalescing keeps the kind of the cell.
LEMMA UserCellsReplace ==
  ASSUME NEW r \in Seq(Command), r # <<>>, NEW c \in Command, r[Len(r)].kind = c.kind
  PROVE  UserCells([r EXCEPT ![Len(r)] = c]) = UserCells(r)
<1> DEFINE a == [r EXCEPT ![Len(r)] = c]
<1>1. /\ Len(r) \in Nat \ {0} /\ DOMAIN r = 1 .. Len(r) /\ DOMAIN a = 1 .. Len(r)
      /\ \A i \in 1 .. Len(r) - 1 : a[i] = r[i]
      /\ a[Len(r)] = c
  BY ReplaceFacts
<1> HIDE DEF a
<1>2. \A i \in 1 .. Len(r) : a[i].kind = r[i].kind
  BY <1>1
<1>3. UserCells(a) = UserCells(r)
  BY <1>1, <1>2 DEF UserCells
<1> QED
  BY <1>3 DEF a

\* Taking the head of the reserve frees a cell at most.
LEMMA UserCellsTail ==
  ASSUME NEW r \in Seq(Command), r # <<>>, Cardinality(UserCells(r)) <= ReserveCap
  PROVE  Cardinality(UserCells(Tail(r))) <= ReserveCap
<1> DEFINE a == Tail(r)
           f == [i \in UserCells(a) |-> i + 1]
<1>1. /\ Len(r) \in Nat \ {0} /\ DOMAIN r = 1 .. Len(r) /\ DOMAIN a = 1 .. Len(r) - 1
      /\ a \in Seq(Command)
      /\ \A i \in 1 .. Len(r) - 1 : a[i] = r[i + 1] /\ i + 1 \in DOMAIN r
  BY TailFacts
<1> HIDE DEF a
<1>2. \A i \in UserCells(a) : i \in Nat /\ i + 1 \in UserCells(r)
  BY <1>1 DEF UserCells
<1>3. f \in [UserCells(a) -> UserCells(r)]
  BY <1>2
<1>4. \A i, j \in UserCells(a) : f[i] = f[j] => i = j
  BY <1>2
<1>5. f \in Injection(UserCells(a), UserCells(r))
  BY <1>3, <1>4 DEF Injection, IsInjective
<1>6. Cardinality(UserCells(a)) <= Cardinality(UserCells(r))
  BY <1>5, UserCellsFinite, FS_Injection
<1>7. Cardinality(UserCells(a)) \in Nat /\ Cardinality(UserCells(r)) \in Nat
  BY <1>1, UserCellsFinite
<1>8. Cardinality(UserCells(a)) <= ReserveCap
  BY <1>6, <1>7, QueueAssumption
<1> QED
  BY <1>8 DEF a

\* The senders past the gate are finitely many; one enters or leaves at a time.
LEMMA FlyingFinite ==
  ASSUME NEW f
  PROVE  IsFiniteSet(Flying(f)) /\ Cardinality(Flying(f)) \in Nat
<1>1. Flying(f) \in SUBSET Senders
  BY DEF Flying
<1> QED
  BY <1>1, QueueAssumption, FS_Subset, FS_CardinalityType

\* One sender moves: how that changes the number of admitted senders.
LEMMA FlyingMoves ==
  ASSUME NEW f \in [Senders -> SenderState], NEW s \in Senders, NEW x \in SenderState
  PROVE  /\ x.pc # "admitted" /\ f[s].pc = "admitted" =>
               Cardinality(Flying([f EXCEPT ![s] = x])) = Cardinality(Flying(f)) - 1
         /\ x.pc # "admitted" /\ f[s].pc # "admitted" =>
               Cardinality(Flying([f EXCEPT ![s] = x])) = Cardinality(Flying(f))
         /\ x.pc = "admitted" /\ f[s].pc # "admitted" =>
               Cardinality(Flying([f EXCEPT ![s] = x])) = Cardinality(Flying(f)) + 1
<1> DEFINE g == [f EXCEPT ![s] = x]
<1>1. g[s] = x /\ \A u \in Senders : u # s => g[u] = f[u]
  OBVIOUS
<1> HIDE DEF g
<1>2. ASSUME x.pc # "admitted", f[s].pc = "admitted"
      PROVE  Cardinality(Flying(g)) = Cardinality(Flying(f)) - 1
  <2>1. Flying(g) = Flying(f) \ {s} /\ s \in Flying(f)
    BY <1>1, <1>2 DEF Flying
  <2> QED
    BY <2>1, FlyingFinite, FS_RemoveElement
<1>3. ASSUME x.pc # "admitted", f[s].pc # "admitted"
      PROVE  Cardinality(Flying(g)) = Cardinality(Flying(f))
  <2>1. Flying(g) = Flying(f)
    BY <1>1, <1>3 DEF Flying
  <2> QED
    BY <2>1
<1>4. ASSUME x.pc = "admitted", f[s].pc # "admitted"
      PROVE  Cardinality(Flying(g)) = Cardinality(Flying(f)) + 1
  <2>1. Flying(g) = Flying(f) \cup {s} /\ s \notin Flying(f)
    BY <1>1, <1>4 DEF Flying
  <2> QED
    BY <2>1, FlyingFinite, FS_AddElement
<1> QED
  BY <1>2, <1>3, <1>4 DEF g

-----------------------------------------------------------------------------
(* The steps of the senders *)

\* A sender that leaves the gate: refused, or with its command in the channel,
\* in a new cell of the reserve, or in the cell of the newest latest value.
LEMMA SendEffect ==
  ASSUME TypeOK, WithinBound, NEW s \in Senders,
         SendPlayerCommand(s) \/ SendOrdered(s) \/ SendLossless(s)
  PROVE  \E x \in SenderState :
           /\ senders[s].pc = "admitted" /\ x.pc # "admitted"
           /\ senders' = [senders EXCEPT ![s] = x]
           /\ UNCHANGED <<wake, inboxClosed, mainGone, admissionClosed>>
           /\ \/ UNCHANGED <<main, reserve, accepted>>
              \/ \E c \in Command :
                   /\ ~inboxClosed
                   /\ c.id = accepted + 1 /\ accepted' = accepted + 1
                   /\ accepted + 1 <= MaxCommands
                   /\ \/ /\ reserve = <<>> /\ Len(main) < MainCap
                         /\ main' = Append(main, c) /\ reserve' = reserve
                      \/ /\ main' = main /\ x.pc = "wake"
                         /\ c.kind = "Lossless" \/ Len(reserve) < ReserveCap
                         /\ reserve' = Append(reserve, c)
                      \/ /\ main' = main /\ x.pc = "wake"
                         /\ reserve # <<>> /\ reserve[Len(reserve)].kind = c.kind
                         /\ c.kind \in LatestKinds
                         /\ reserve' = [reserve EXCEPT ![Len(reserve)] = c]
<1> DEFINE kind == senders[s].kind
           c == [id |-> accepted + 1, kind |-> kind]
<1>1. senders[s].pc = "admitted"
  BY DEF SendPlayerCommand, SendOrdered, SendLossless
<1>2. senders[s] \in SenderState /\ accepted \in Nat
  BY QueueAssumption DEF TypeOK, QueueTypeOK
<1>3. kind \in Kinds
  BY <1>1, <1>2 DEF SenderState
<1>4. accepted + 1 <= MaxCommands
  <2>1. Flying(senders) # {}
    BY <1>1 DEF Flying
  <2>2. Cardinality(Flying(senders)) \in Nat /\ Cardinality(Flying(senders)) # 0
    BY <2>1, FlyingFinite, FS_EmptySet
  <2> QED
    BY <2>2, <1>2, QueueAssumption DEF WithinBound
<1>5. c \in Command
  BY <1>2, <1>3, <1>4, QueueAssumption DEF Command
<1>6. IdleSender \in SenderState /\ IdleSender.pc # "admitted"
  BY DEF IdleSender, SenderState
<1>7. [pc |-> "wake"] \in SenderState /\ [pc |-> "wake"].pc = "wake"
  BY DEF SenderState
<1>8. [pc |-> "reply", id |-> accepted + 1] \in SenderState
      /\ [pc |-> "reply", id |-> accepted + 1].pc # "admitted"
  BY <1>2, <1>4, QueueAssumption DEF SenderState
<1>9. Len(reserve) \in Nat
  BY DEF TypeOK, QueueTypeOK
<1>10. CASE SendPlayerCommand(s)
  <2>1. kind \in PlayerKinds /\ UNCHANGED <<wake, inboxClosed, mainGone, admissionClosed>>
    BY <1>10 DEF SendPlayerCommand
  <2>2. CASE SenderReturns(s) /\ UNCHANGED <<main, reserve, accepted>>
    BY <2>1, <2>2, <1>1, <1>6 DEF SenderReturns
  <2>3. CASE /\ ~inboxClosed /\ MainAdmits /\ PushMain(New(kind))
             /\ SenderReturns(s) /\ accepted' = accepted + 1
    BY <2>1, <2>3, <1>1, <1>4, <1>5, <1>6 DEF SenderReturns, PushMain, New, MainAdmits
  <2>4. CASE /\ ~inboxClosed /\ (CoalescesWithTail(kind) \/ ~ReserveIsFull)
             /\ PushIntoReserve(kind) /\ SenderOwesWake(s) /\ accepted' = accepted + 1
    <3>1. main' = main /\ senders' = [senders EXCEPT ![s] = [pc |-> "wake"]]
      BY <2>4 DEF PushIntoReserve, SenderOwesWake
    <3>2. CASE CoalescesWithTail(kind)
      <4>1. /\ reserve # <<>> /\ reserve[Len(reserve)].kind = kind /\ kind \in LatestKinds
            /\ reserve' = [reserve EXCEPT ![Len(reserve)] = c]
        BY <2>4, <3>2 DEF PushIntoReserve, CoalescesWithTail, Last, New
      <4> QED
        BY <4>1, <3>1, <2>4, <2>1, <1>1, <1>4, <1>5, <1>7
    <3>3. CASE ~CoalescesWithTail(kind)
      <4>1. Len(reserve) < ReserveCap /\ reserve' = Append(reserve, c)
        BY <2>4, <3>3, <1>9, QueueAssumption DEF PushIntoReserve, ReserveIsFull, New
      <4> QED
        BY <4>1, <3>1, <2>4, <2>1, <1>1, <1>4, <1>5, <1>7
    <3> QED
      BY <3>2, <3>3
  <2> QED
    BY <1>10, <2>2, <2>3, <2>4 DEF SendPlayerCommand
<1>11. CASE SendOrdered(s)
  <2>1. kind = "Receipt" /\ UNCHANGED <<wake, inboxClosed, mainGone, admissionClosed>>
    BY <1>11 DEF SendOrdered
  <2>2. CASE SenderReturns(s) /\ UNCHANGED <<main, reserve, accepted>>
    BY <2>1, <2>2, <1>1, <1>6 DEF SenderReturns
  <2>3. CASE /\ ~inboxClosed /\ MainAdmits /\ PushMain(New("Receipt"))
             /\ (SenderReturns(s) \/ SenderAwaitsReply(s)) /\ accepted' = accepted + 1
    BY <2>1, <2>3, <1>1, <1>4, <1>5, <1>6, <1>8
    DEF SenderReturns, SenderAwaitsReply, PushMain, New, MainAdmits
  <2> QED
    BY <1>11, <2>2, <2>3 DEF SendOrdered
<1>12. CASE SendLossless(s)
  <2>1. kind = "Lossless" /\ UNCHANGED <<wake, inboxClosed, mainGone, admissionClosed>>
    BY <1>12 DEF SendLossless
  <2>2. CASE SenderReturns(s) /\ UNCHANGED <<main, reserve, accepted>>
    BY <2>1, <2>2, <1>1, <1>6 DEF SenderReturns
  <2>3. CASE /\ ~inboxClosed /\ MainAdmits /\ PushMain(New("Lossless"))
             /\ SenderReturns(s) /\ accepted' = accepted + 1
    BY <2>1, <2>3, <1>1, <1>4, <1>5, <1>6 DEF SenderReturns, PushMain, New, MainAdmits
  <2>4. CASE /\ ~inboxClosed /\ PushIntoReserve("Lossless")
             /\ SenderOwesWake(s) /\ accepted' = accepted + 1
    <3>1. main' = main /\ senders' = [senders EXCEPT ![s] = [pc |-> "wake"]]
      BY <2>4 DEF PushIntoReserve, SenderOwesWake
    <3>2. ~CoalescesWithTail("Lossless")
      BY QueueAssumption DEF CoalescesWithTail
    <3>3. reserve' = Append(reserve, c) /\ c.kind = "Lossless"
      BY <2>1, <2>4, <3>2 DEF PushIntoReserve, New
    <3> QED
      BY <3>1, <3>3, <2>4, <2>1, <1>1, <1>4, <1>5, <1>7
  <2> QED
    BY <1>12, <2>2, <2>3, <2>4 DEF SendLossless
<1> QED
  BY <1>10, <1>11, <1>12

\* What a command sent into the queues leaves true.
LEMMA SendKeeps ==
  ASSUME IInv, NEW s \in Senders, SendPlayerCommand(s) \/ SendOrdered(s) \/ SendLossless(s),
         UNCHANGED <<workerVars, cancel, ownerVars>>
  PROVE  IInv'
<1>1. PICK x \in SenderState :
           /\ senders[s].pc = "admitted" /\ x.pc # "admitted"
           /\ senders' = [senders EXCEPT ![s] = x]
           /\ UNCHANGED <<wake, inboxClosed, mainGone, admissionClosed>>
           /\ \/ UNCHANGED <<main, reserve, accepted>>
              \/ \E c \in Command :
                   /\ ~inboxClosed
                   /\ c.id = accepted + 1 /\ accepted' = accepted + 1
                   /\ accepted + 1 <= MaxCommands
                   /\ \/ /\ reserve = <<>> /\ Len(main) < MainCap
                         /\ main' = Append(main, c) /\ reserve' = reserve
                      \/ /\ main' = main /\ x.pc = "wake"
                         /\ c.kind = "Lossless" \/ Len(reserve) < ReserveCap
                         /\ reserve' = Append(reserve, c)
                      \/ /\ main' = main /\ x.pc = "wake"
                         /\ reserve # <<>> /\ reserve[Len(reserve)].kind = c.kind
                         /\ c.kind \in LatestKinds
                         /\ reserve' = [reserve EXCEPT ![Len(reserve)] = c]
  BY SendEffect DEF IInv
<1>2. /\ main \in Seq(Command) /\ reserve \in Seq(Command) /\ Len(main) <= MainCap
      /\ accepted \in Nat /\ accepted <= MaxCommands
      /\ senders \in [Senders -> SenderState]
      /\ Ordered(main, reserve, accepted) /\ Cardinality(UserCells(reserve)) <= ReserveCap
  BY QueueAssumption DEF IInv, TypeOK, QueueTypeOK
<1>3. /\ senders' \in [Senders -> SenderState]
      /\ senders'[s] = x /\ \A u \in Senders : u # s => senders'[u] = senders[u]
  BY <1>1, <1>2
<1>4. /\ Cardinality(Flying(senders')) = Cardinality(Flying(senders)) - 1
      /\ Cardinality(Flying(senders)) \in Nat
  BY <1>1, <1>2, FlyingMoves, FlyingFinite
<1>5. /\ UNCHANGED <<wake, inboxClosed, mainGone, admissionClosed, worker, batch, mode,
                     current, seen, cancel, terminal, owner, call, handle>>
      /\ TypeOK /\ WithinBound /\ ClosedInboxIsEmpty /\ NoLostWakeup
      /\ OneTerminalRequest /\ WorkerOK /\ RequestOK /\ OwnerOK
  BY <1>1 DEF IInv, workerVars, ownerVars
<1>6. OwnerOK'
  BY <1>5 DEF OwnerOK, ReleaseOnlyAfterExit, Finished
<1>7. CASE UNCHANGED <<main, reserve, accepted>>
  <2>1. TypeOK'
    BY <1>3, <1>5, <1>7 DEF TypeOK, QueueTypeOK
  <2>2. WithinBound'
    BY <1>2, <1>4, <1>5, <1>7, QueueAssumption DEF WithinBound
  <2>3. ClosedInboxIsEmpty' /\ OneTerminalRequest'
    BY <1>5, <1>7 DEF ClosedInboxIsEmpty, OneTerminalRequest
  <2>4. NoLostWakeup'
    BY <1>1, <1>3, <1>5, <1>7 DEF NoLostWakeup
  <2>5. WorkerOK' /\ RequestOK'
    BY <1>5, <1>7 DEF WorkerOK, RequestOK
  <2> QED
    BY <1>2, <1>6, <1>7, <2>1, <2>2, <2>3, <2>4, <2>5 DEF IInv
<1>8. ASSUME NEW c \in Command, ~inboxClosed,
             c.id = accepted + 1, accepted' = accepted + 1, accepted + 1 <= MaxCommands,
             \/ /\ reserve = <<>> /\ Len(main) < MainCap
                /\ main' = Append(main, c) /\ reserve' = reserve
             \/ /\ main' = main /\ x.pc = "wake"
                /\ c.kind = "Lossless" \/ Len(reserve) < ReserveCap
                /\ reserve' = Append(reserve, c)
             \/ /\ main' = main /\ x.pc = "wake"
                /\ reserve # <<>> /\ reserve[Len(reserve)].kind = c.kind
                /\ c.kind \in LatestKinds
                /\ reserve' = [reserve EXCEPT ![Len(reserve)] = c]
      PROVE  IInv'
  <2>1. accepted' \in 0 .. MaxCommands
    BY <1>2, <1>8, QueueAssumption
  <2>2. WithinBound'
    BY <1>2, <1>4, <1>5, <1>8, QueueAssumption DEF WithinBound
  <2>3. ~mainGone /\ ~inboxClosed' /\ ~mainGone' /\ ClosedInboxIsEmpty'
    BY <1>5, <1>8 DEF ClosedInboxIsEmpty
  <2>4. CASE reserve = <<>> /\ Len(main) < MainCap /\ main' = Append(main, c) /\ reserve' = reserve
    <3>1. /\ Len(main) \in Nat /\ DOMAIN main = 1 .. Len(main)
          /\ main' \in Seq(Command) /\ Len(main') = Len(main) + 1
          /\ DOMAIN main' = 1 .. Len(main) + 1
          /\ \A i \in 1 .. Len(main) : main'[i] = main[i]
          /\ main'[Len(main) + 1] = c
      BY <1>2, <2>4, SeqFacts
    <3>2. Len(main') <= MainCap
      BY <3>1, <2>4, QueueAssumption
    <3>3. TypeOK'
      BY <1>2, <1>3, <1>5, <2>1, <2>4, <3>1, <3>2 DEF TypeOK, QueueTypeOK
    <3>4. Ordered(main', reserve', accepted')
      BY <1>2, <1>8, <2>4, OrderedPushMain
    <3>5. \A i \in DOMAIN main' : main'[i].id = 0 => i \in DOMAIN main /\ main[i].id = 0
      BY <1>2, <1>8, <3>1
    <3>6. OneTerminalRequest'
      BY <1>5, <3>5 DEF OneTerminalRequest
    <3>7. NoLostWakeup'
      BY <2>4 DEF NoLostWakeup
    <3>8. RequestOK'
      BY <1>5, <3>5 DEF RequestOK, Requests
    <3>9. worker = "recvReserve" =>
             /\ seen <= accepted'
             /\ \A i \in DOMAIN main' : main'[i].id # 0 => main'[i].id > seen
      <4> SUFFICES ASSUME worker = "recvReserve", NEW i \in DOMAIN main', main'[i].id # 0
                   PROVE  seen <= accepted' /\ main'[i].id > seen
        BY <1>2, <1>5, <1>8 DEF WorkerOK, TypeOK
      <4>1. seen \in Nat /\ seen <= accepted
        BY <1>5, QueueAssumption DEF WorkerOK, TypeOK
      <4>2. CASE i = Len(main) + 1
        BY <4>1, <4>2, <3>1, <1>2, <1>8
      <4>3. CASE i # Len(main) + 1
        <5>1. i \in DOMAIN main /\ main'[i] = main[i]
          BY <4>3, <3>1
        <5> QED
          BY <5>1, <4>1, <1>2, <1>5, <1>8 DEF WorkerOK
      <4> QED
        BY <4>2, <4>3
    <3>10. WorkerOK'
      BY <1>5, <3>9 DEF WorkerOK
    <3> QED
      BY <1>2, <1>6, <2>2, <2>3, <2>4, <3>3, <3>4, <3>6, <3>7, <3>8, <3>10 DEF IInv
  <2>5. ASSUME main' = main, x.pc = "wake", reserve' \in Seq(Command),
               Ordered(main, reserve', accepted + 1),
               Cardinality(UserCells(reserve')) <= ReserveCap
        PROVE  IInv'
    <3>1. TypeOK'
      BY <1>2, <1>3, <1>5, <2>1, <2>5 DEF TypeOK, QueueTypeOK
    <3>2. NoLostWakeup'
      BY <1>3, <2>5 DEF NoLostWakeup
    <3>3. OneTerminalRequest' /\ RequestOK'
      BY <1>5, <2>5 DEF OneTerminalRequest, RequestOK
    <3>4. seen \in Nat
      BY <1>5, QueueAssumption DEF TypeOK
    <3>5. WorkerOK'
      BY <1>2, <1>5, <1>8, <2>5, <3>4 DEF WorkerOK
    <3> QED
      BY <1>6, <1>8, <2>2, <2>3, <2>5, <3>1, <3>2, <3>3, <3>5 DEF IInv
  <2>6. CASE /\ main' = main /\ x.pc = "wake"
             /\ c.kind = "Lossless" \/ Len(reserve) < ReserveCap
             /\ reserve' = Append(reserve, c)
    BY <1>2, <1>8, <2>5, <2>6, SeqFacts, OrderedPushReserve, UserCellsPush
  <2>7. CASE /\ main' = main /\ x.pc = "wake"
             /\ reserve # <<>> /\ reserve[Len(reserve)].kind = c.kind
             /\ reserve' = [reserve EXCEPT ![Len(reserve)] = c]
    BY <1>2, <1>8, <2>5, <2>7, ReplaceFacts, OrderedCoalesce, UserCellsReplace
  <2> QED
    BY <1>8, <2>4, <2>6, <2>7
<1> QED
  BY <1>1, <1>7, <1>8

\* The other steps of a sender touch no queue.
LEMMA SenderKeeps ==
  ASSUME IInv, NEW s \in Senders,
         AdmitCommand(s) \/ DropSender(s)
            \/ ((WakeWorker(s) \/ ReceiveReply(s)) /\ UNCHANGED <<workerVars, cancel, ownerVars>>)
  PROVE  IInv'
<1>1. /\ UNCHANGED <<main, reserve, inboxClosed, mainGone, admissionClosed, accepted, worker,
                     batch, mode, current, seen, cancel, terminal, owner, call, handle>>
      /\ TypeOK /\ WithinBound /\ ClosedInboxIsEmpty /\ NoLostWakeup
      /\ OneTerminalRequest /\ WorkerOK /\ RequestOK /\ OwnerOK
      /\ accepted \in Nat /\ senders \in [Senders -> SenderState]
  BY QueueAssumption DEF IInv, TypeOK, QueueTypeOK, workerVars, ownerVars, AdmitCommand, Admit, DropSender,
     WakeWorker, ReceiveReply
<1>2. \E x \in SenderState :
         /\ senders' = [senders EXCEPT ![s] = x]
         /\ \/ /\ x.pc = "admitted" /\ senders[s].pc # "admitted" /\ wake' = wake
               /\ accepted + Cardinality(Flying(senders)) < MaxCommands
            \/ x.pc # "admitted" /\ senders[s].pc # "admitted" /\ wake'
            \/ x.pc # "admitted" /\ senders[s].pc \notin {"admitted", "wake"} /\ wake' = wake
         /\ senders[s].pc = "wake" => wake'
  <2>1. CASE AdmitCommand(s)
    <3>1. PICK kind \in Kinds : Admit(s, kind)
      BY <2>1 DEF AdmitCommand
    <3>2. [pc |-> "admitted", kind |-> kind] \in SenderState
      BY DEF SenderState
    <3>3. InFlight = Flying(senders)
      BY DEF InFlight, Flying
    <3> QED
      BY <3>1, <3>2, <3>3 DEF Admit
  <2>2. CASE DropSender(s)
    <3>1. [pc |-> "dropped"] \in SenderState
      BY DEF SenderState
    <3> QED
      BY <2>2, <3>1 DEF DropSender
  <2>3. IdleSender \in SenderState /\ IdleSender.pc # "admitted"
    BY DEF IdleSender, SenderState
  <2>4. CASE WakeWorker(s)
    BY <2>3, <2>4 DEF WakeWorker, SenderReturns
  <2>5. CASE ReceiveReply(s)
    BY <2>3, <2>5 DEF ReceiveReply, SenderReturns
  <2> QED
    BY <2>1, <2>2, <2>4, <2>5
<1>3. senders' \in [Senders -> SenderState] /\ wake' \in BOOLEAN
  <2>1. wake \in BOOLEAN
    BY <1>1 DEF TypeOK, QueueTypeOK
  <2> QED
    BY <1>1, <1>2, <2>1
<1>4. TypeOK'
  BY <1>1, <1>3 DEF TypeOK, QueueTypeOK
<1>5. WithinBound'
  <2>1. PICK x \in SenderState :
         /\ senders' = [senders EXCEPT ![s] = x] /\ senders[s].pc # "admitted"
         /\ x.pc = "admitted" => accepted + Cardinality(Flying(senders)) < MaxCommands
    BY <1>2
  <2>2. Cardinality(Flying(senders)) \in Nat
    BY FlyingFinite
  <2>3. /\ x.pc # "admitted" => Cardinality(Flying(senders')) = Cardinality(Flying(senders))
        /\ x.pc = "admitted" => Cardinality(Flying(senders')) = Cardinality(Flying(senders)) + 1
    BY <1>1, <2>1, FlyingMoves
  <2>4. accepted + Cardinality(Flying(senders')) <= MaxCommands
    BY <1>1, <2>1, <2>2, <2>3, QueueAssumption DEF WithinBound
  <2> QED
    BY <1>1, <2>4 DEF WithinBound
<1>6. NoLostWakeup'
  <2>1. wake => wake'
    BY <1>2
  <2>2. \A u \in Senders : senders[u].pc = "wake" => senders'[u].pc = "wake" \/ wake'
    BY <1>1, <1>2
  <2> QED
    BY <1>1, <2>1, <2>2 DEF NoLostWakeup
<1>7. ClosedInboxIsEmpty' /\ OneTerminalRequest' /\ WorkerOK' /\ RequestOK' /\ OwnerOK'
  BY <1>1 DEF ClosedInboxIsEmpty, OneTerminalRequest, WorkerOK, RequestOK, OwnerOK,
     ReleaseOnlyAfterExit, Finished
<1> QED
  BY <1>1, <1>4, <1>5, <1>6, <1>7 DEF IInv

-----------------------------------------------------------------------------
(* The steps of the worker *)

\* One command in the worker's hands.
LEMMA OneInHand ==
  ASSUME NEW c \in Command
  PROVE  {c} \in SUBSET Command /\ Cardinality({c}) <= 1
<1>1. Cardinality({c}) = 1
  BY FS_Singleton
<1> QED
  BY <1>1

\* A worker that takes the head of the channel has the oldest command, or the
\* terminal request, in its hands.
LEMMA TakeMainKeeps ==
  ASSUME IInv, main # <<>>, PopMain, Take(Head(main)),
         worker \in {"recvMain", "recvAgain", "select", "asleep"},
         UNCHANGED <<wake, inboxClosed, mainGone, admissionClosed, senders, accepted, batch,
                     mode, seen, cancel, ownerVars>>
  PROVE  IInv'
<1>1. /\ main \in Seq(Command) /\ reserve \in Seq(Command) /\ Len(main) <= MainCap
      /\ accepted \in Nat /\ Ordered(main, reserve, accepted)
      /\ main' = Tail(main) /\ current' = {Head(main)} /\ worker' = "handle"
      /\ UNCHANGED <<reserve, wake, inboxClosed, mainGone, admissionClosed, senders, accepted,
                     batch, mode, seen, cancel, terminal, owner, call, handle>>
  BY QueueAssumption DEF IInv, TypeOK, QueueTypeOK, PopMain, Take, Goto, ownerVars
<1>2. /\ Len(main) \in Nat \ {0} /\ DOMAIN main = 1 .. Len(main)
      /\ Head(main) = main[1] /\ Head(main) \in Command
      /\ main' \in Seq(Command) /\ Len(main') = Len(main) - 1
      /\ DOMAIN main' = 1 .. Len(main) - 1
      /\ \A i \in 1 .. Len(main) - 1 : main'[i] = main[i + 1] /\ i + 1 \in DOMAIN main
  BY <1>1, TailFacts
<1>3. TypeOK'
  <2>1. Len(main') <= MainCap
    BY <1>1, <1>2, QueueAssumption
  <2>2. current' \in SUBSET Command /\ Cardinality(current') <= 1
    BY <1>1, <1>2, OneInHand
  <2> QED
    BY <1>1, <1>2, <2>1, <2>2 DEF IInv, TypeOK, QueueTypeOK, WorkerPC
<1>4. WithinBound' /\ Cardinality(UserCells(reserve')) <= ReserveCap
  BY <1>1 DEF IInv, WithinBound
<1>5. Ordered(main', reserve', accepted')
  BY <1>1, OrderedPopMain
<1>6. ClosedInboxIsEmpty' /\ NoLostWakeup'
  BY <1>1 DEF IInv, ClosedInboxIsEmpty, NoLostWakeup
<1>7. current = {}
  BY DEF IInv, WorkerOK
<1>8. OneTerminalRequest'
  <2>1. \A i, j \in DOMAIN main : main[i].id = 0 /\ main[j].id = 0 => i = j
    BY DEF IInv, OneTerminalRequest
  <2>2. \A i, j \in DOMAIN main' : main'[i].id = 0 /\ main'[j].id = 0 => i = j
    <3> SUFFICES ASSUME NEW i \in DOMAIN main', NEW j \in DOMAIN main',
                        main'[i].id = 0, main'[j].id = 0
                 PROVE  i = j
      OBVIOUS
    <3>1. i + 1 = j + 1
      BY <1>2, <2>1
    <3> QED
      BY <3>1, <1>2
  <2>3. Head(main).id = 0 => \A i \in DOMAIN main' : main'[i].id # 0
    <3> SUFFICES ASSUME main[1].id = 0, NEW i \in DOMAIN main', main'[i].id = 0
                 PROVE  FALSE
      BY <1>2
    <3>1. i + 1 = 1
      BY <1>2, <2>1
    <3> QED
      BY <3>1, <1>2
  <2> QED
    BY <1>1, <2>2, <2>3 DEF OneTerminalRequest
<1>9. WorkerOK'
  BY <1>1, <1>2 DEF IInv, WorkerOK
<1>10. RequestOK'
  <2> SUFFICES ASSUME terminal = "Running", owner # "sendCancel"
               PROVE  Requests(main') = {} /\ \A c \in current' : c.id # 0
    BY <1>1 DEF IInv, RequestOK
  <2>1. \A i \in DOMAIN main : main[i].id # 0
    BY DEF IInv, RequestOK, Requests
  <2> QED
    BY <1>1, <1>2, <2>1 DEF Requests
<1>11. OwnerOK'
  BY <1>1 DEF IInv, OwnerOK, ReleaseOnlyAfterExit, Finished
<1> QED
  BY <1>3, <1>4, <1>5, <1>6, <1>8, <1>9, <1>10, <1>11 DEF IInv

\* The worker in try_receive and select.
LEMMA ReceiveKeeps ==
  ASSUME IInv, ReceiveMain \/ ReceiveReserve \/ ReceiveMainAgain \/ SelectMain
  PROVE  IInv'
<1>1. /\ main \in Seq(Command) /\ reserve \in Seq(Command) /\ Len(main) <= MainCap
      /\ accepted \in Nat /\ Ordered(main, reserve, accepted)
      /\ TypeOK /\ WithinBound /\ Cardinality(UserCells(reserve)) <= ReserveCap
      /\ ClosedInboxIsEmpty /\ NoLostWakeup /\ OneTerminalRequest /\ WorkerOK
      /\ RequestOK /\ OwnerOK
  BY QueueAssumption DEF IInv, TypeOK, QueueTypeOK
<1>2. /\ current = {}
      /\ UNCHANGED <<wake, inboxClosed, mainGone, admissionClosed, senders, accepted,
                     batch, mode, cancel, terminal, owner, call, handle>>
      /\ worker \in {"recvMain", "recvReserve", "recvAgain", "select", "asleep"}
      /\ worker' # "finished"
  BY <1>1 DEF WorkerOK, ReceiveMain, ReceiveReserve, ReceiveMainAgain, SelectMain,
     ownerVars, Waiting, Goto, Take
<1>3. WithinBound' /\ OwnerOK'
  BY <1>1, <1>2 DEF WithinBound, OwnerOK, ReleaseOnlyAfterExit, Finished
<1>4. CASE main # <<>> /\ PopMain /\ Take(Head(main)) /\ worker # "recvReserve" /\ seen' = seen
  BY <1>2, <1>4, TakeMainKeeps DEF ownerVars
<1>5. ASSUME UNCHANGED <<main, reserve>>, current' = {},
             seen' \in 0 .. MaxCommands, worker' \in WorkerPC,
             worker' \notin {"handle", "dropMain", "dropCancel", "exit", "finished"},
             worker' \in {"recvAgain", "plan", "cancelCheck", "select", "asleep"} =>
                worker \in {"recvAgain", "select", "asleep"} \/ reserve = <<>>,
             worker' \in {"cancelCheck", "select", "asleep"} => mode # "batch",
             worker' = "recvReserve" => worker = "recvMain" /\ main = <<>> /\ seen' = accepted,
             worker' \notin {"recvMain"}, worker # "recvMain" \/ worker' = "recvReserve",
             worker' = "recvAgain" => worker = "recvReserve"
      PROVE  IInv'
  <2>1. TypeOK'
    BY <1>1, <1>2, <1>5, FS_EmptySet DEF TypeOK, QueueTypeOK
  <2>2. ClosedInboxIsEmpty' /\ OneTerminalRequest'
    BY <1>1, <1>2, <1>5 DEF ClosedInboxIsEmpty, OneTerminalRequest
  <2>3. NoLostWakeup'
    BY <1>1, <1>2, <1>5 DEF NoLostWakeup
  <2>4. RequestOK'
    BY <1>1, <1>2, <1>5 DEF RequestOK
  <2>5. WorkerOK'
    BY <1>1, <1>2, <1>5 DEF WorkerOK
  <2> QED
    BY <1>1, <1>2, <1>3, <1>5, <2>1, <2>2, <2>3, <2>4, <2>5 DEF IInv
<1>6. CASE ReceiveMain
  <2>1. CASE main = <<>> /\ seen' = accepted /\ Goto("recvReserve") /\ UNCHANGED <<main, reserve, current>>
    <3>1. accepted \in 0 .. MaxCommands
      BY <1>1 DEF TypeOK, QueueTypeOK
    <3> QED
      BY <1>2, <1>5, <1>6, <2>1, <3>1 DEF ReceiveMain, Goto, WorkerPC
  <2> QED
    BY <1>4, <1>6, <2>1 DEF ReceiveMain
<1>7. CASE ReceiveReserve
  <2>1. seen' = 0 /\ seen' \in 0 .. MaxCommands /\ worker = "recvReserve"
    BY <1>7, QueueAssumption DEF ReceiveReserve
  <2>2. CASE reserve = <<>> /\ Goto("recvAgain") /\ UNCHANGED <<main, reserve, current>>
    BY <1>2, <1>5, <2>1, <2>2 DEF Goto, WorkerPC
  <2>3. CASE reserve # <<>> /\ PopReserve /\ Take(Head(reserve))
    <3>1. /\ main' = main /\ reserve' = Tail(reserve) /\ current' = {Head(reserve)}
          /\ worker' = "handle"
      BY <2>3 DEF PopReserve, Take, Goto
    <3>2. Head(reserve) = reserve[1] /\ Head(reserve) \in Command /\ reserve' \in Seq(Command)
          /\ 1 \in DOMAIN reserve
      BY <1>1, <2>3, <3>1, TailFacts
    <3>3. current' \in SUBSET Command /\ Cardinality(current') <= 1
      BY <3>1, <3>2, OneInHand
    <3>4. TypeOK'
      BY <1>1, <1>2, <2>1, <3>1, <3>2, <3>3 DEF TypeOK, QueueTypeOK, WorkerPC
    <3>5. Ordered(main', reserve', accepted') /\ Cardinality(UserCells(reserve')) <= ReserveCap
      BY <1>1, <1>2, <2>3, <3>1, OrderedPopReserve, UserCellsTail
    <3>6. ClosedInboxIsEmpty' /\ NoLostWakeup'
      BY <1>1, <1>2, <2>3, <3>1 DEF ClosedInboxIsEmpty, NoLostWakeup
    <3>7. Head(reserve).id # 0
      BY <1>1, <3>2 DEF Ordered
    <3>8. OneTerminalRequest' /\ RequestOK'
      BY <1>1, <1>2, <3>1, <3>7 DEF OneTerminalRequest, RequestOK
    <3>9. WorkerOK'
      BY <1>1, <1>2, <2>1, <3>1, <3>2 DEF WorkerOK
    <3> QED
      BY <1>3, <3>4, <3>5, <3>6, <3>8, <3>9 DEF IInv
  <2> QED
    BY <1>7, <2>2, <2>3 DEF ReceiveReserve
<1>8. CASE ReceiveMainAgain
  <2>1. seen' = seen /\ seen' \in 0 .. MaxCommands /\ worker = "recvAgain"
    BY <1>1, <1>8 DEF ReceiveMainAgain, TypeOK
  <2>2. CASE /\ main = <<>> /\ ~SendersGone /\ Goto(IF mode = "batch" THEN "plan" ELSE "cancelCheck")
             /\ UNCHANGED <<main, reserve, current>>
    BY <1>2, <1>5, <2>1, <2>2 DEF Goto, WorkerPC
  <2>3. CASE main = <<>> /\ SendersGone /\ Take(TerminalShutdown) /\ UNCHANGED <<main, reserve>>
    <3>1. current' = {TerminalShutdown} /\ worker' = "handle" /\ main' = main /\ reserve' = reserve
      BY <2>3 DEF Take, Goto
    <3>2. TerminalShutdown \in Command
      BY QueueAssumption DEF TerminalShutdown, Command
    <3>3. current' \in SUBSET Command /\ Cardinality(current') <= 1
      BY <3>1, <3>2, OneInHand
    <3>4. TypeOK'
      BY <1>1, <1>2, <2>1, <3>1, <3>3 DEF TypeOK, QueueTypeOK, WorkerPC
    <3>5. ClosedInboxIsEmpty' /\ NoLostWakeup'
      BY <1>1, <1>2, <3>1 DEF ClosedInboxIsEmpty, NoLostWakeup
    <3>6. OneTerminalRequest'
      BY <2>3, <3>1 DEF OneTerminalRequest
    <3>7. RequestOK'
      BY <1>1, <1>2, <2>3 DEF RequestOK, SendersGone
    <3>8. WorkerOK'
      BY <1>1, <1>2, <2>1, <3>1, <3>2 DEF WorkerOK
    <3> QED
      BY <1>1, <1>2, <1>3, <3>1, <3>4, <3>5, <3>6, <3>7, <3>8 DEF IInv
  <2> QED
    BY <1>4, <1>8, <2>1, <2>2, <2>3 DEF ReceiveMainAgain
<1>9. CASE SelectMain
  <2>1. seen' = seen /\ seen' \in 0 .. MaxCommands /\ worker \in {"select", "asleep"}
    BY <1>1, <1>9 DEF SelectMain, TypeOK, Waiting
  <2>2. CASE main = <<>> /\ SendersGone /\ Goto("closeInbox") /\ UNCHANGED <<main, reserve, current>>
    BY <1>2, <1>5, <2>1, <2>2 DEF Goto, WorkerPC
  <2> QED
    BY <1>4, <1>9, <2>1, <2>2 DEF SelectMain
<1> QED
  BY <1>6, <1>7, <1>8, <1>9

\* The steps of the worker that leave the queues alone.
LEMMA QuietKeeps ==
  ASSUME IInv,
         Turn \/ Handle \/ PlanWait \/ CancelCheck \/ SelectWake \/ SelectCancel
            \/ OtherWakeup \/ FallAsleep
  PROVE  IInv'
<1>1. /\ accepted \in Nat /\ TypeOK /\ WithinBound /\ ClosedInboxIsEmpty /\ NoLostWakeup
      /\ OneTerminalRequest /\ WorkerOK /\ RequestOK /\ OwnerOK
      /\ Ordered(main, reserve, accepted) /\ Cardinality(UserCells(reserve)) <= ReserveCap
  BY QueueAssumption DEF IInv, TypeOK, QueueTypeOK
<1>2. /\ UNCHANGED <<main, reserve, inboxClosed, mainGone, admissionClosed, senders, accepted,
                     seen, terminal, owner, call, handle>>
      /\ current' = {}
      /\ worker \in {"turn", "handle", "plan", "cancelCheck", "select", "asleep"}
  BY <1>1 DEF WorkerOK, Turn, Handle, PlanWait, CancelCheck, SelectWake, SelectCancel,
     OtherWakeup, FallAsleep, queueVars, ownerVars, Waiting
<1>3. /\ worker' \in {"turn", "recvMain", "closeInbox", "cancelCheck", "select", "asleep"}
      /\ worker' \in {"select", "asleep"} =>
            /\ worker \in {"plan", "cancelCheck", "select"} /\ wake' = wake
            /\ mode' # "batch"
      /\ worker' = "cancelCheck" => FALSE
      /\ worker' = "recvMain" => mode' # "batch" \/ batch' < MaxBatch
  <2>1. CASE Turn
    BY <2>1, BatchAssumption DEF Turn, Goto
  <2>2. CASE Handle
    BY <2>2, <1>1 DEF Handle, Goto
  <2>3. CASE PlanWait
    BY <2>3 DEF PlanWait, Goto, queueVars
  <2>4. CASE CancelCheck
    BY <1>1, <2>4 DEF CancelCheck, Goto, WorkerOK, queueVars
  <2>5. CASE SelectWake \/ SelectCancel
    BY <2>5 DEF SelectWake, SelectCancel, Goto
  <2>6. CASE OtherWakeup
    BY <2>6 DEF OtherWakeup, Goto
  <2>7. CASE FallAsleep
    BY <1>1, <2>7 DEF FallAsleep, Goto, WorkerOK, queueVars
  <2> QED
    BY <2>1, <2>2, <2>3, <2>4, <2>5, <2>6, <2>7
<1>4. batch' \in 0 .. MaxBatch
  <2>1. batch \in 0 .. MaxBatch /\ 0 \in 0 .. MaxBatch
    BY <1>1, BatchAssumption DEF TypeOK
  <2>2. CASE Handle
    <3>1. mode = "batch" => batch + 1 \in 0 .. MaxBatch
      BY <1>1, <2>1, <2>2, BatchAssumption DEF WorkerOK, Handle
    <3> QED
      BY <2>1, <2>2, <3>1 DEF Handle
  <2> QED
    BY <2>1, <2>2 DEF Turn, PlanWait, CancelCheck, SelectWake, SelectCancel, OtherWakeup, FallAsleep
<1>5. mode' \in {"batch", "timed", "idle"}
  BY <1>1 DEF TypeOK, Turn, Handle, PlanWait, CancelCheck, SelectWake, SelectCancel,
     OtherWakeup, FallAsleep
<1>6. wake' \in BOOLEAN /\ cancel' \in BOOLEAN
  BY <1>1 DEF TypeOK, QueueTypeOK, Turn, Handle, PlanWait, CancelCheck, SelectWake, SelectCancel,
     OtherWakeup, FallAsleep, queueVars
<1>7. TypeOK'
  BY <1>1, <1>2, <1>3, <1>4, <1>5, <1>6, FS_EmptySet DEF TypeOK, QueueTypeOK, WorkerPC
<1>8. WithinBound' /\ OwnerOK' /\ RequestOK'
  BY <1>1, <1>2, <1>3 DEF WithinBound, OwnerOK, ReleaseOnlyAfterExit, Finished, RequestOK
<1>9. ClosedInboxIsEmpty' /\ OneTerminalRequest'
  BY <1>1, <1>2 DEF ClosedInboxIsEmpty, OneTerminalRequest
<1>10. NoLostWakeup'
  BY <1>1, <1>2, <1>3 DEF NoLostWakeup
<1>11. WorkerOK'
  BY <1>2, <1>3 DEF WorkerOK
<1> QED
  BY <1>1, <1>2, <1>7, <1>8, <1>9, <1>10, <1>11 DEF IInv

\* The empty queue.
LEMMA EmptyFacts ==
  <<>> \in Seq(Command) /\ Len(<<>>) = 0 /\ DOMAIN <<>> = {}
  OBVIOUS

\* The worker drops its inbox first, then the channel.
LEMMA DropRuntimeKeeps ==
  ASSUME IInv, DropRuntime
  PROVE  IInv'
<1>1. /\ accepted \in Nat /\ TypeOK /\ WithinBound /\ ClosedInboxIsEmpty /\ OneTerminalRequest
      /\ WorkerOK /\ RequestOK /\ OwnerOK /\ Cardinality(UserCells(reserve)) <= ReserveCap
      /\ main \in Seq(Command) /\ reserve \in Seq(Command) /\ Ordered(main, reserve, accepted)
  BY QueueAssumption DEF IInv, TypeOK, QueueTypeOK
<1>2. /\ UNCHANGED <<wake, admissionClosed, senders, accepted, batch, mode, current, seen,
                     cancel, terminal, owner, call, handle>>
      /\ current = {}
      /\ worker \in {"closeInbox", "dropMain", "dropCancel", "exit"}
      /\ worker' \in {"dropMain", "dropCancel", "exit", "finished"}
  BY <1>1 DEF DropRuntime, CloseInbox, DropMain, queueVars, ownerVars, Goto, WorkerOK
<1>3. /\ main' = main
      /\ mainGone' = mainGone \/ mainGone' = TRUE
      /\ \/ reserve' = reserve /\ inboxClosed' = inboxClosed /\ worker # "closeInbox"
         \/ reserve' = <<>> /\ inboxClosed' = TRUE
  BY DEF DropRuntime, CloseInbox, DropMain, queueVars
<1>4. inboxClosed' = TRUE
  BY <1>1, <1>2, <1>3 DEF WorkerOK, TypeOK, QueueTypeOK
<1>5. main' \in Seq(Command) /\ Len(main') <= MainCap /\ reserve' \in Seq(Command)
      /\ mainGone' \in BOOLEAN
  <2>1. main' \in Seq(Command) /\ Len(main') <= MainCap
    BY <1>1, <1>3 DEF TypeOK, QueueTypeOK
  <2>2. reserve' \in Seq(Command)
    BY <1>1, <1>3, EmptyFacts
  <2>3. mainGone' \in BOOLEAN
    BY <1>1, <1>3 DEF TypeOK, QueueTypeOK
  <2> QED
    BY <2>1, <2>2, <2>3
<1>6. TypeOK'
  <2>1. inboxClosed' \in BOOLEAN
    BY <1>4
  <2> QED
    BY <1>1, <1>2, <1>5, <2>1 DEF TypeOK, QueueTypeOK, WorkerPC
<1>7. Ordered(main', reserve', accepted')
  <2>1. accepted' = accepted
    BY <1>2
  <2>2. CASE main' = main /\ reserve' = reserve
    BY <1>1, <2>1, <2>2
  <2>3. CASE reserve' = <<>>
    <3>1. Ordered(main, <<>>, accepted)
      BY <1>1, EmptyFacts, OrderedEmpty
    <3> QED
      BY <1>3, <2>1, <2>3, <3>1
  <2> QED
    BY <1>3, <2>2, <2>3
<1>8. Cardinality(UserCells(reserve')) <= ReserveCap
  <2>1. Cardinality(UserCells(<<>>)) <= ReserveCap
    <3>1. UserCells(<<>>) = {}
      BY EmptyFacts DEF UserCells
    <3> QED
      BY <3>1, FS_EmptySet, QueueAssumption
  <2> QED
    BY <1>1, <1>3, <2>1
<1>9. ClosedInboxIsEmpty'
  <2>1. reserve' = <<>>
    BY <1>1, <1>2, <1>3 DEF ClosedInboxIsEmpty, WorkerOK
  <2> QED
    BY <1>4, <2>1 DEF ClosedInboxIsEmpty
<1>10. OneTerminalRequest' /\ RequestOK'
  BY <1>1, <1>2, <1>3 DEF OneTerminalRequest, RequestOK, Requests
<1>11. NoLostWakeup' /\ WorkerOK'
  BY <1>2, <1>4 DEF NoLostWakeup, WorkerOK
<1>12. WithinBound' /\ OwnerOK'
  BY <1>1, <1>2 DEF WithinBound, OwnerOK, ReleaseOnlyAfterExit, Finished
<1> QED
  BY <1>6, <1>7, <1>8, <1>9, <1>10, <1>11, <1>12 DEF IInv

-----------------------------------------------------------------------------
(* The steps of the owner *)

\* The owner that sends the terminal request has found none in the queue.
LEMMA SendTerminalCommandKeeps ==
  ASSUME IInv, SendTerminalCommand
  PROVE  IInv'
<1>1. /\ accepted \in Nat /\ TypeOK /\ WithinBound /\ ClosedInboxIsEmpty /\ NoLostWakeup
      /\ WorkerOK /\ RequestOK /\ OwnerOK /\ Cardinality(UserCells(reserve)) <= ReserveCap
      /\ main \in Seq(Command) /\ reserve \in Seq(Command) /\ Ordered(main, reserve, accepted)
      /\ OneTerminalRequest
  BY QueueAssumption DEF IInv, TypeOK, QueueTypeOK
<1>2. /\ UNCHANGED <<reserve, wake, inboxClosed, mainGone, admissionClosed, senders, accepted,
                     worker, batch, mode, current, seen, cancel, terminal, call, handle>>
      /\ owner = "sendCommand" /\ owner' = "sendCancel"
      /\ terminal = "Running"
  BY <1>1 DEF SendTerminalCommand, workerVars, RequestOK
<1>3. TerminalShutdown \in Command /\ TerminalShutdown.id = 0
  BY QueueAssumption DEF TerminalShutdown, Command
<1>4. (\A i \in DOMAIN main : main[i].id # 0) /\ \A c \in current : c.id # 0
  BY <1>1, <1>2 DEF RequestOK, Requests
<1>5. Len(main) \in Nat /\ DOMAIN main = 1 .. Len(main)
  BY <1>1, LenProperties
<1>6. /\ main' \in Seq(Command) /\ Len(main') <= MainCap /\ Ordered(main', reserve, accepted)
      /\ mainGone => main' = main
      /\ \A i \in DOMAIN main' :
            \/ i \in DOMAIN main /\ main'[i] = main[i]
            \/ i = Len(main) + 1 /\ main'[i].id = 0
  <2>1. CASE main' = main
    BY <1>1, <2>1 DEF TypeOK, QueueTypeOK
  <2>2. CASE ~mainGone /\ ~(Len(main) >= MainCap) /\ main' = Append(main, TerminalShutdown)
    <3>1. /\ main' \in Seq(Command) /\ Len(main') = Len(main) + 1
          /\ DOMAIN main' = 1 .. Len(main) + 1
          /\ \A i \in 1 .. Len(main) : main'[i] = main[i]
          /\ main'[Len(main) + 1] = TerminalShutdown
      BY <1>1, <1>3, <2>2, SeqFacts
    <3>2. Ordered(main', reserve, accepted)
      BY <1>1, <1>3, <2>2, OrderedRequest
    <3>3. Len(main') <= MainCap
      BY <1>5, <2>2, <3>1, QueueAssumption
    <3>4. \A i \in DOMAIN main' :
             \/ i \in DOMAIN main /\ main'[i] = main[i]
             \/ i = Len(main) + 1 /\ main'[i].id = 0
      BY <1>3, <1>5, <3>1
    <3> QED
      BY <2>2, <3>1, <3>2, <3>3, <3>4
  <2> QED
    BY <2>1, <2>2 DEF SendTerminalCommand
<1>7. TypeOK'
  BY <1>1, <1>2, <1>6 DEF TypeOK, QueueTypeOK
<1>8. ClosedInboxIsEmpty' /\ NoLostWakeup'
  BY <1>1, <1>2, <1>6 DEF ClosedInboxIsEmpty, NoLostWakeup
<1>9. OneTerminalRequest'
  BY <1>2, <1>4, <1>6 DEF OneTerminalRequest
<1>10. WorkerOK'
  BY <1>1, <1>2, <1>6 DEF WorkerOK
<1>11. WithinBound' /\ RequestOK' /\ OwnerOK'
  BY <1>1, <1>2 DEF WithinBound, RequestOK, OwnerOK, ReleaseOnlyAfterExit, Finished
<1> QED
  BY <1>1, <1>2, <1>6, <1>7, <1>8, <1>9, <1>10, <1>11 DEF IInv

\* The other steps of the owner.
LEMMA OwnerKeeps ==
  ASSUME IInv,
         \/ \E operation \in {"shutdown_before", "shutdown", "drop"} : OwnerCalls(operation)
         \/ SendTerminalCancel \/ JoinThread \/ DeadlinePasses \/ DropOwner
  PROVE  IInv'
<1>1. /\ accepted \in Nat /\ TypeOK /\ WithinBound /\ ClosedInboxIsEmpty /\ NoLostWakeup
      /\ WorkerOK /\ RequestOK /\ OwnerOK /\ Cardinality(UserCells(reserve)) <= ReserveCap
      /\ Ordered(main, reserve, accepted) /\ OneTerminalRequest
  BY QueueAssumption DEF IInv, TypeOK, QueueTypeOK
<1>2. /\ UNCHANGED <<main, reserve, wake, inboxClosed, mainGone, senders, accepted,
                     worker, batch, mode, current, seen>>
      /\ admissionClosed' \in BOOLEAN /\ cancel' \in BOOLEAN
      /\ owner \notin {"sendCommand", "gone"}
  BY <1>1 DEF OwnerCalls, SendTerminalCancel, JoinThread, DeadlinePasses, DropOwner,
     queueVars, workerVars, TypeOK, QueueTypeOK
<1>3. /\ owner' \in {"idle", "sendCommand", "sendCancel", "poll", "join", "gone"}
      /\ call' \in {"none", "shutdown_before", "shutdown", "drop"}
      /\ handle' \in {"held", "joined", "leaked"}
      /\ terminal' \in {"Running", "ShutdownRequested", "TimedOut", "Completed"}
  BY <1>1 DEF OwnerCalls, SendTerminalCancel, JoinThread, DeadlinePasses, DropOwner,
     OwnerReturns, TypeOK
<1>4. TypeOK'
  BY <1>1, <1>2, <1>3 DEF TypeOK, QueueTypeOK
<1>5. WithinBound' /\ ClosedInboxIsEmpty' /\ NoLostWakeup' /\ OneTerminalRequest' /\ WorkerOK'
  BY <1>1, <1>2 DEF WithinBound, ClosedInboxIsEmpty, NoLostWakeup, OneTerminalRequest, WorkerOK
<1>6. RequestOK' /\ OwnerOK'
  <2>1. CASE \E operation \in {"shutdown_before", "shutdown", "drop"} : OwnerCalls(operation)
    BY <1>1, <1>2, <2>1 DEF OwnerCalls, RequestOK, OwnerOK, ReleaseOnlyAfterExit, Finished
  <2>2. CASE SendTerminalCancel
    BY <1>1, <1>2, <2>2 DEF SendTerminalCancel, RequestOK, OwnerOK, ReleaseOnlyAfterExit, Finished
  <2>3. CASE JoinThread
    BY <1>1, <1>2, <2>3
    DEF JoinThread, OwnerReturns, RequestOK, OwnerOK, ReleaseOnlyAfterExit, Finished
  <2>4. CASE DeadlinePasses
    BY <1>1, <1>2, <2>4
    DEF DeadlinePasses, OwnerReturns, RequestOK, OwnerOK, ReleaseOnlyAfterExit, Finished
  <2>5. CASE DropOwner
    BY <1>1, <1>2, <2>5 DEF DropOwner, RequestOK, OwnerOK, ReleaseOnlyAfterExit, Finished
  <2> QED
    BY <2>1, <2>2, <2>3, <2>4, <2>5
<1> QED
  BY <1>1, <1>2, <1>4, <1>5, <1>6 DEF IInv

-----------------------------------------------------------------------------
(* The invariant *)

\* A new worker: empty queues, every sender idle.
LEMMA InitEstablishes == Init => IInv
<1> SUFFICES ASSUME Init PROVE IInv
  OBVIOUS
<1>1. /\ main = <<>> /\ reserve = <<>> /\ wake = FALSE /\ inboxClosed = FALSE
      /\ mainGone = FALSE /\ admissionClosed = FALSE /\ accepted = 0
      /\ senders = [s \in Senders |-> IdleSender]
      /\ worker = "turn" /\ batch = 0 /\ mode = "batch" /\ current = {} /\ seen = 0
      /\ cancel = FALSE /\ terminal = "Running" /\ owner = "idle" /\ call = "none"
      /\ handle = "held"
  BY DEF Init, QueueInit
<1>2. Cardinality({}) = 0
  BY FS_EmptySet
<1>3. senders \in [Senders -> SenderState] /\ Flying(senders) = {}
  BY <1>1 DEF IdleSender, SenderState, Flying
<1>4. QueueTypeOK
  <2>1. /\ wake \in BOOLEAN /\ inboxClosed \in BOOLEAN /\ mainGone \in BOOLEAN
        /\ admissionClosed \in BOOLEAN
    BY <1>1
  <2>2. accepted \in 0 .. MaxCommands /\ 0 <= MainCap
    BY <1>1, QueueAssumption
  <2>3. main \in Seq(Command) /\ Len(main) = 0 /\ reserve \in Seq(Command)
    BY <1>1, EmptyFacts
  <2> QED
    BY <1>3, <2>1, <2>2, <2>3 DEF QueueTypeOK
<1>5. TypeOK
  <2>1. batch \in 0 .. MaxBatch /\ seen \in 0 .. MaxCommands
    BY <1>1, QueueAssumption, BatchAssumption
  <2>2. worker \in WorkerPC /\ cancel \in BOOLEAN
    BY <1>1 DEF WorkerPC
  <2>3. current \in SUBSET Command /\ Cardinality(current) <= 1
    BY <1>1, <1>2
  <2>4. /\ mode \in {"batch", "timed", "idle"}
        /\ terminal \in {"Running", "ShutdownRequested", "TimedOut", "Completed"}
        /\ owner \in {"idle", "sendCommand", "sendCancel", "poll", "join", "gone"}
        /\ call \in {"none", "shutdown_before", "shutdown", "drop"}
        /\ handle \in {"held", "joined", "leaked"}
    BY <1>1
  <2> QED
    BY <1>4, <2>1, <2>2, <2>3, <2>4 DEF TypeOK
<1>6. WithinBound
  <2>1. accepted = 0 /\ Cardinality(Flying(senders)) = 0
    BY <1>1, <1>2, <1>3
  <2> QED
    BY <2>1, QueueAssumption DEF WithinBound
<1>7. Ordered(main, reserve, accepted)
  BY <1>1, EmptyFacts DEF Ordered
<1>8. Cardinality(UserCells(reserve)) <= ReserveCap
  <2>1. UserCells(reserve) = {}
    BY <1>1, EmptyFacts DEF UserCells
  <2> QED
    BY <1>2, <2>1, QueueAssumption
<1>9. ClosedInboxIsEmpty /\ NoLostWakeup /\ OneTerminalRequest
  BY <1>1, EmptyFacts DEF ClosedInboxIsEmpty, NoLostWakeup, OneTerminalRequest
<1>10. WorkerOK /\ RequestOK /\ OwnerOK
  BY <1>1, EmptyFacts
  DEF WorkerOK, RequestOK, Requests, OwnerOK, ReleaseOnlyAfterExit, Finished
<1> QED
  BY <1>5, <1>6, <1>7, <1>8, <1>9, <1>10 DEF IInv

\* Every step keeps the invariant.
LEMMA NextKeeps == IInv /\ [Next]_vars => IInv'
<1> SUFFICES ASSUME IInv, [Next]_vars PROVE IInv'
  OBVIOUS
<1>1. CASE UNCHANGED vars
  <2>1. /\ UNCHANGED <<main, reserve, wake, inboxClosed, mainGone, admissionClosed, senders,
                       accepted, worker, batch, mode, current, seen, cancel, terminal,
                       owner, call, handle>>
    BY <1>1 DEF vars, queueVars, workerVars, ownerVars
  <2>2. TypeOK' /\ WithinBound' /\ ClosedInboxIsEmpty' /\ NoLostWakeup' /\ OneTerminalRequest'
    BY <2>1 DEF IInv, TypeOK, QueueTypeOK, WithinBound, ClosedInboxIsEmpty, NoLostWakeup,
       OneTerminalRequest
  <2>3. WorkerOK' /\ RequestOK' /\ OwnerOK'
    BY <2>1 DEF IInv, WorkerOK, RequestOK, OwnerOK, ReleaseOnlyAfterExit, Finished
  <2> QED
    BY <2>1, <2>2, <2>3 DEF IInv
<1>2. ASSUME NEW s \in Senders, AdmitCommand(s) \/ SenderRuns(s) \/ DropSender(s)
      PROVE  IInv'
  BY <1>2, SendKeeps, SenderKeeps DEF SenderRuns, SenderStep
<1>3. CASE WorkerStep
  BY <1>3, ReceiveKeeps, QuietKeeps, DropRuntimeKeeps DEF WorkerStep
<1>4. CASE OtherWakeup
  BY <1>4, QuietKeeps
<1>5. CASE \E operation \in {"shutdown_before", "shutdown", "drop"} : OwnerCalls(operation)
  BY <1>5, OwnerKeeps
<1>6. CASE SendTerminalCommand
  BY <1>6, SendTerminalCommandKeeps
<1>7. CASE SendTerminalCancel \/ JoinThread \/ DeadlinePasses \/ DropOwner
  BY <1>7, OwnerKeeps
<1>8. CASE Done
  BY <1>1, <1>8 DEF Done
<1> QED
  BY <1>1, <1>2, <1>3, <1>4, <1>5, <1>6, <1>7, <1>8 DEF Next

\* The invariant holds whatever senders, worker and owner interleave.
THEOREM Invariance == Spec => []IInv
  BY InitEstablishes, NextKeeps, PTL DEF Spec

\* WorkerInv: the types, the order of acceptance between the channel and the
\* reserve of command_queue.rs, the bound of the reserve, a wake for every
\* filled reserve, one terminal request, and a handle that is joined or leaked.
THEOREM WorkerCorrect == Spec => []WorkerInv
<1>1. IInv => WorkerInv
  <2> SUFFICES ASSUME IInv PROVE WorkerInv
    OBVIOUS
  <2>1. /\ main \in Seq(Command) /\ reserve \in Seq(Command) /\ accepted \in Nat
        /\ Ordered(main, reserve, accepted)
    BY QueueAssumption DEF IInv, TypeOK, QueueTypeOK
  <2>2. QueuesInAcceptanceOrder
    <3> DEFINE waiting == main \o reserve
    <3>1. /\ Len(main) \in Nat /\ Len(reserve) \in Nat
          /\ DOMAIN main = 1 .. Len(main) /\ DOMAIN reserve = 1 .. Len(reserve)
          /\ DOMAIN waiting = 1 .. Len(main) + Len(reserve)
          /\ \A i \in 1 .. Len(main) : waiting[i] = main[i]
          /\ \A i \in Len(main) + 1 .. Len(main) + Len(reserve) :
                waiting[i] = reserve[i - Len(main)]
      BY <2>1
    <3> HIDE DEF waiting
    <3>2. ASSUME NEW i \in DOMAIN waiting, NEW j \in DOMAIN waiting,
                 i < j, waiting[i].id # 0, waiting[j].id # 0
          PROVE  waiting[i].id < waiting[j].id
      <4>1. CASE j <= Len(main)
        <5>1. /\ i \in DOMAIN main /\ waiting[i] = main[i]
              /\ j \in DOMAIN main /\ waiting[j] = main[j]
          BY <3>1, <3>2, <4>1
        <5> QED
          BY <2>1, <3>2, <5>1 DEF Ordered
      <4>2. CASE ~(j <= Len(main)) /\ i <= Len(main)
        <5>1. /\ i \in DOMAIN main /\ waiting[i] = main[i]
              /\ j - Len(main) \in DOMAIN reserve /\ waiting[j] = reserve[j - Len(main)]
          BY <3>1, <3>2, <4>2
        <5> QED
          BY <2>1, <3>2, <5>1 DEF Ordered
      <4>3. CASE ~(i <= Len(main))
        <5>1. /\ i - Len(main) \in DOMAIN reserve /\ waiting[i] = reserve[i - Len(main)]
              /\ j - Len(main) \in DOMAIN reserve /\ waiting[j] = reserve[j - Len(main)]
              /\ i - Len(main) < j - Len(main)
          BY <3>1, <3>2, <4>3
        <5> QED
          BY <2>1, <3>2, <5>1 DEF Ordered
      <4> QED
        BY <4>1, <4>2, <4>3
    <3> QED
      BY <3>2 DEF QueuesInAcceptanceOrder, waiting
  <2>3. ReserveHoldsItsBound
    BY DEF IInv, ReserveHoldsItsBound, UserCells
  <2> QED
    BY <2>2, <2>3 DEF IInv, WorkerInv, OwnerOK
<1> QED
  BY <1>1, Invariance, PTL

-----------------------------------------------------------------------------
(* The steps *)

\* The members of a sequence after the operations on the queues.
LEMMA Members ==
  ASSUME NEW S, NEW q \in Seq(S), NEW e \in S
  PROVE  /\ Range(Append(q, e)) = Range(q) \cup {e}
         /\ q # <<>> => Range(q) = Range(Tail(q)) \cup {Head(q)}
<1>1. Range(Append(q, e)) = Range(q) \cup {e}
  <2> DEFINE a == Append(q, e)
  <2>1. /\ DOMAIN q = 1 .. Len(q) /\ Len(q) \in Nat /\ DOMAIN a = 1 .. Len(q) + 1
        /\ \A i \in 1 .. Len(q) : a[i] = q[i]
        /\ a[Len(q) + 1] = e
    BY SeqFacts
  <2> HIDE DEF a
  <2>2. Range(a) = Range(q) \cup {e}
    BY <2>1 DEF Range
  <2> QED
    BY <2>2 DEF a
<1>2. ASSUME q # <<>> PROVE Range(q) = Range(Tail(q)) \cup {Head(q)}
  <2> DEFINE t == Tail(q)
  <2>1. /\ Len(q) \in Nat \ {0} /\ DOMAIN q = 1 .. Len(q) /\ Head(q) = q[1]
        /\ DOMAIN t = 1 .. Len(q) - 1
        /\ \A i \in 1 .. Len(q) - 1 : t[i] = q[i + 1] /\ i + 1 \in DOMAIN q
    BY <1>2, TailFacts
  <2> HIDE DEF t
  <2>2. \A i \in DOMAIN q : i = 1 \/ (i - 1 \in DOMAIN t /\ t[i - 1] = q[i])
    BY <2>1
  <2>3. Range(q) \subseteq Range(t) \cup {Head(q)}
    BY <2>1, <2>2 DEF Range
  <2>4. Range(t) \subseteq Range(q) /\ Head(q) \in Range(q)
    BY <2>1 DEF Range
  <2>5. Range(q) = Range(t) \cup {Head(q)}
    BY <2>3, <2>4
  <2> QED
    BY <2>5 DEF t
<1> QED
  BY <1>1, <1>2

\* A command in the main channel or the reserve, whatever the step.
LEMMA LossStep ==
  ASSUME IInv, Next
  PROVE  \A c \in Queued :
            \/ c \in Queued' \cup Taken
            \/ worker = "closeInbox" /\ c \in Range(reserve)
            \/ /\ c.id = accepted /\ accepted' = accepted + 1
               /\ c.kind \in LatestKinds
               /\ \E d \in Range(reserve') : d.id = accepted' /\ d.kind = c.kind
<1> DEFINE Kept == \A c \in Queued : c \in Queued' \cup Taken
<1>1. /\ main \in Seq(Command) /\ reserve \in Seq(Command)
      /\ TypeOK /\ WithinBound /\ Ordered(main, reserve, accepted) /\ WorkerOK
  BY DEF IInv, TypeOK, QueueTypeOK
<1>2. CASE UNCHANGED <<main, reserve>>
  BY <1>2 DEF Queued
<1>3. CASE main # <<>> /\ PopMain /\ Take(Head(main)) /\ worker # "handle"
  <2>1. /\ main' = Tail(main) /\ reserve' = reserve /\ current' = {Head(main)}
        /\ current = {}
    BY <1>1, <1>3 DEF PopMain, Take, WorkerOK
  <2>2. Range(main) = Range(main') \cup {Head(main)}
    BY <1>1, <1>3, <2>1, TailFacts, Members
  <2>3. Kept
    BY <2>1, <2>2 DEF Queued, Taken
  <2> QED
    BY <2>3
<1>4. CASE reserve # <<>> /\ PopReserve /\ Take(Head(reserve)) /\ worker # "handle"
  <2>1. /\ reserve' = Tail(reserve) /\ main' = main /\ current' = {Head(reserve)}
        /\ current = {}
    BY <1>1, <1>4 DEF PopReserve, Take, WorkerOK
  <2>2. Range(reserve) = Range(reserve') \cup {Head(reserve)}
    BY <1>1, <1>4, <2>1, TailFacts, Members
  <2>3. Kept
    BY <2>1, <2>2 DEF Queued, Taken
  <2> QED
    BY <2>3
<1>5. ASSUME NEW s \in Senders, SendPlayerCommand(s) \/ SendOrdered(s) \/ SendLossless(s),
             ~ UNCHANGED <<main, reserve>>
      PROVE  \A c \in Queued :
                \/ c \in Queued'
                \/ /\ c.id = accepted /\ accepted' = accepted + 1
                   /\ c.kind \in LatestKinds
                   /\ \E d \in Range(reserve') : d.id = accepted' /\ d.kind = c.kind
  <2>1. PICK n \in Command :
          /\ n.id = accepted + 1 /\ accepted' = accepted + 1
          /\ \/ main' = Append(main, n) /\ reserve' = reserve
             \/ main' = main /\ reserve' = Append(reserve, n)
             \/ /\ main' = main /\ reserve # <<>> /\ reserve[Len(reserve)].kind = n.kind
                /\ n.kind \in LatestKinds
                /\ reserve' = [reserve EXCEPT ![Len(reserve)] = n]
    BY <1>1, <1>5, SendEffect
  <2>2. CASE main' = Append(main, n) /\ reserve' = reserve
    BY <1>1, <2>2, Members DEF Queued
  <2>3. CASE main' = main /\ reserve' = Append(reserve, n)
    BY <1>1, <2>3, Members DEF Queued
  <2>4. CASE /\ main' = main /\ reserve # <<>> /\ reserve[Len(reserve)].kind = n.kind
             /\ n.kind \in LatestKinds
             /\ reserve' = [reserve EXCEPT ![Len(reserve)] = n]
    <3>1. /\ DOMAIN reserve' = 1 .. Len(reserve) /\ DOMAIN reserve = 1 .. Len(reserve)
          /\ Len(reserve) \in Nat \ {0}
          /\ \A i \in 1 .. Len(reserve) - 1 : reserve'[i] = reserve[i]
          /\ reserve'[Len(reserve)] = n
      BY <1>1, <2>4, ReplaceFacts
    <3>2. reserve[Len(reserve)].id = accepted
      BY <1>1, <2>4 DEF Ordered
    <3>3. n \in Range(reserve')
      BY <3>1 DEF Range
    <3>4. ASSUME NEW c \in Range(reserve)
          PROVE  c \in Range(reserve') \/ c = reserve[Len(reserve)]
      <4>1. PICK i \in 1 .. Len(reserve) : c = reserve[i]
        BY <3>1 DEF Range
      <4>2. i = Len(reserve) \/ i \in 1 .. Len(reserve) - 1
        <5>1. i \in 1 .. Len(reserve) /\ Len(reserve) \in Nat \ {0}
          BY <3>1, <4>1
        <5> QED
          BY <5>1
      <4> QED
        BY <3>1, <4>1, <4>2 DEF Range
    <3> QED
      BY <2>1, <2>4, <3>2, <3>3, <3>4 DEF Queued
  <2> QED
    BY <2>1, <2>2, <2>3, <2>4
<1>6. CASE DropRuntime
  <2>1. main' = main /\ (worker = "closeInbox" \/ reserve' = reserve)
    BY <1>6 DEF DropRuntime, CloseInbox, DropMain, queueVars
  <2> QED
    BY <2>1 DEF Queued
<1>7. CASE SendTerminalCommand
  <2>1. TerminalShutdown \in Command
    BY QueueAssumption DEF TerminalShutdown, Command
  <2>2. reserve' = reserve /\ (main' = main \/ main' = Append(main, TerminalShutdown))
    BY <1>7 DEF SendTerminalCommand
  <2>3. Range(main) \subseteq Range(main')
    <3>1. Range(Append(main, TerminalShutdown)) = Range(main) \cup {TerminalShutdown}
      BY <1>1, <2>1, Members
    <3> QED
      BY <2>2, <3>1
  <2>4. Kept
    BY <2>2, <2>3 DEF Queued
  <2> HIDE DEF Kept
  <2>5. \A c \in Queued : c \in Queued' \cup Taken
    BY <2>4 DEF Kept
  <2> QED
    BY <2>5
<1>8. CASE ReceiveMain \/ ReceiveReserve \/ ReceiveMainAgain \/ SelectMain
  <2>1. worker # "handle"
    BY <1>8 DEF ReceiveMain, ReceiveReserve, ReceiveMainAgain, SelectMain, Waiting
  <2> QED
    BY <1>2, <1>3, <1>4, <1>8, <2>1
    DEF ReceiveMain, ReceiveReserve, ReceiveMainAgain, SelectMain
<1>9. CASE \E s \in Senders : AdmitCommand(s) \/ SenderRuns(s) \/ DropSender(s)
  <2>1. PICK s \in Senders : AdmitCommand(s) \/ SenderRuns(s) \/ DropSender(s)
    BY <1>9
  <2>2. \/ SendPlayerCommand(s) \/ SendOrdered(s) \/ SendLossless(s)
        \/ UNCHANGED <<main, reserve>>
    BY <2>1 DEF AdmitCommand, Admit, DropSender, SenderRuns, SenderStep, WakeWorker, ReceiveReply
  <2> QED
    BY <1>2, <1>5, <2>2
<1>10. CASE \/ Turn \/ Handle \/ PlanWait \/ CancelCheck \/ SelectWake \/ SelectCancel
            \/ OtherWakeup \/ FallAsleep
  <2>1. UNCHANGED <<main, reserve>>
    BY <1>10 DEF Turn, Handle, PlanWait, CancelCheck, SelectWake, SelectCancel, OtherWakeup,
       FallAsleep, queueVars
  <2> QED
    BY <1>2, <2>1
<1>11. CASE \/ \E operation \in {"shutdown_before", "shutdown", "drop"} : OwnerCalls(operation)
            \/ SendTerminalCancel \/ JoinThread \/ DeadlinePasses \/ DropOwner \/ Done
  <2>1. UNCHANGED <<main, reserve>>
    BY <1>11 DEF OwnerCalls, SendTerminalCancel, JoinThread, DeadlinePasses, DropOwner, Done,
       vars, queueVars
  <2> QED
    BY <1>2, <2>1
<1> HIDE DEF Kept
<1>12. \/ \E s \in Senders : AdmitCommand(s) \/ SenderRuns(s) \/ DropSender(s)
       \/ DropRuntime \/ SendTerminalCommand
       \/ ReceiveMain \/ ReceiveReserve \/ ReceiveMainAgain \/ SelectMain
       \/ Turn \/ Handle \/ PlanWait \/ CancelCheck \/ SelectWake \/ SelectCancel
       \/ OtherWakeup \/ FallAsleep
       \/ \E operation \in {"shutdown_before", "shutdown", "drop"} : OwnerCalls(operation)
       \/ SendTerminalCancel \/ JoinThread \/ DeadlinePasses \/ DropOwner \/ Done
  BY DEF Next, WorkerStep
<1> QED
  BY <1>6, <1>7, <1>8, <1>9, <1>10, <1>11, <1>12

\* Past the Drop of the inbox only the terminal request reaches the channel.
LEMMA ClosedStep ==
  ASSUME IInv, Next, inboxClosed
  PROVE  \A c \in Range(main') : c.id = 0 \/ c \in Range(main)
<1>1. main \in Seq(Command)
  BY DEF IInv, TypeOK, QueueTypeOK
<1>2. CASE main' = main
  BY <1>2
<1>3. CASE main # <<>> /\ PopMain
  <2>1. main' = Tail(main)
    BY <1>3 DEF PopMain
  <2>2. Range(main) = Range(Tail(main)) \cup {Head(main)}
    BY <1>1, <1>3, TailFacts, Members
  <2> QED
    BY <2>1, <2>2
<1>4. CASE SendTerminalCommand
  <2>1. TerminalShutdown \in Command /\ TerminalShutdown.id = 0
    BY QueueAssumption DEF TerminalShutdown, Command
  <2>2. main' = main \/ main' = Append(main, TerminalShutdown)
    BY <1>4 DEF SendTerminalCommand
  <2>3. Range(Append(main, TerminalShutdown)) = Range(main) \cup {TerminalShutdown}
    BY <1>1, <2>1, Members
  <2> QED
    BY <2>1, <2>2, <2>3
<1>5. CASE ReceiveMain \/ ReceiveReserve \/ ReceiveMainAgain \/ SelectMain
  BY <1>2, <1>3, <1>5
  DEF ReceiveMain, ReceiveReserve, ReceiveMainAgain, SelectMain, PopReserve
<1>6. CASE \E s \in Senders : AdmitCommand(s) \/ SenderRuns(s) \/ DropSender(s)
  <2>1. PICK s \in Senders : AdmitCommand(s) \/ SenderRuns(s) \/ DropSender(s)
    BY <1>6
  <2>2. main' = main
    BY <2>1 DEF AdmitCommand, Admit, DropSender, SenderRuns, SenderStep, WakeWorker,
       ReceiveReply, SendPlayerCommand, SendOrdered, SendLossless
  <2> QED
    BY <1>2, <2>2
<1>7. CASE \/ Turn \/ Handle \/ PlanWait \/ CancelCheck \/ SelectWake \/ SelectCancel
           \/ OtherWakeup \/ FallAsleep \/ DropRuntime
  <2>1. main' = main
    BY <1>7 DEF Turn, Handle, PlanWait, CancelCheck, SelectWake, SelectCancel, OtherWakeup,
       FallAsleep, DropRuntime, CloseInbox, DropMain, queueVars
  <2> QED
    BY <1>2, <2>1
<1>8. CASE \/ \E operation \in {"shutdown_before", "shutdown", "drop"} : OwnerCalls(operation)
           \/ SendTerminalCancel \/ JoinThread \/ DeadlinePasses \/ DropOwner \/ Done
  <2>1. main' = main
    BY <1>8 DEF OwnerCalls, SendTerminalCancel, JoinThread, DeadlinePasses, DropOwner, Done,
       vars, queueVars
  <2> QED
    BY <1>2, <2>1
<1> QED
  BY <1>4, <1>5, <1>6, <1>7, <1>8 DEF Next, WorkerStep

\* What the worker takes is older than what stays, but for the window.
LEMMA OvertakesStep ==
  ASSUME IInv, Next
  PROVE  \A c \in Taken : \A older \in Queued' :
            0 < older.id /\ older.id < c.id => c \in Range(reserve) /\ older.id > seen
<1>1. /\ main \in Seq(Command) /\ reserve \in Seq(Command)
      /\ Ordered(main, reserve, accepted) /\ WorkerOK
  BY DEF IInv, TypeOK, QueueTypeOK
<1>2. /\ \A i \in DOMAIN main : main[i].id \in Nat
      /\ \A i \in DOMAIN reserve : reserve[i].id \in Nat
  BY <1>1, CommandIds, SeqFacts
<1>3. CASE current' \subseteq current
  BY <1>3 DEF Taken
<1>4. CASE main # <<>> /\ PopMain /\ Take(Head(main))
  <2>1. main' = Tail(main) /\ reserve' = reserve /\ current' = {Head(main)}
    BY <1>4 DEF PopMain, Take
  <2>2. /\ Head(main) = main[1] /\ 1 \in DOMAIN main /\ DOMAIN main' = 1 .. Len(main) - 1
        /\ Len(main) \in Nat
        /\ \A i \in 1 .. Len(main) - 1 : main'[i] = main[i + 1] /\ i + 1 \in DOMAIN main
    BY <1>1, <1>4, <2>1, TailFacts
  <2>3. ASSUME NEW older \in Queued', 0 < older.id, older.id < main[1].id
        PROVE  FALSE
    <3>1. CASE older \in Range(main')
      <4>1. PICK i \in 1 .. Len(main) - 1 : older = main[i + 1] /\ i + 1 \in DOMAIN main
        BY <2>2, <3>1 DEF Range
      <4>2. 1 < i + 1
        BY <2>2
      <4>3. main[1].id # 0 /\ main[i + 1].id # 0
        BY <1>2, <2>2, <2>3, <4>1
      <4>4. main[1].id < main[i + 1].id
        BY <1>1, <2>2, <4>1, <4>2, <4>3 DEF Ordered
      <4> QED
        BY <1>2, <2>2, <2>3, <4>1, <4>4
    <3>2. CASE older \in Range(reserve)
      <4>1. PICK i \in DOMAIN reserve : older = reserve[i]
        BY <3>2 DEF Range
      <4>2. main[1].id < reserve[i].id
        BY <1>1, <2>2, <4>1 DEF Ordered
      <4> QED
        BY <1>2, <2>2, <2>3, <4>1, <4>2
    <3> QED
      BY <2>1, <2>3, <3>1, <3>2 DEF Queued
  <2> QED
    BY <2>1, <2>2, <2>3 DEF Taken
<1>5. CASE ReceiveReserve
  <2>1. CASE reserve # <<>> /\ PopReserve /\ Take(Head(reserve))
    <3>1. reserve' = Tail(reserve) /\ main' = main /\ current' = {Head(reserve)}
      BY <2>1 DEF PopReserve, Take
    <3>2. /\ Head(reserve) = reserve[1] /\ 1 \in DOMAIN reserve
          /\ DOMAIN reserve' = 1 .. Len(reserve) - 1 /\ Len(reserve) \in Nat
          /\ \A i \in 1 .. Len(reserve) - 1 :
                reserve'[i] = reserve[i + 1] /\ i + 1 \in DOMAIN reserve
      BY <1>1, <2>1, <3>1, TailFacts
    <3>3. ASSUME NEW older \in Queued', 0 < older.id, older.id < reserve[1].id
          PROVE  older.id > seen
      <4>1. CASE older \in Range(reserve')
        <5>1. PICK i \in 1 .. Len(reserve) - 1 :
                 older = reserve[i + 1] /\ i + 1 \in DOMAIN reserve
          BY <3>2, <4>1 DEF Range
        <5>2. 1 < i + 1
          BY <3>2
        <5>3. reserve[1].id < reserve[i + 1].id
          BY <1>1, <3>2, <5>1, <5>2 DEF Ordered
        <5> QED
          BY <1>2, <3>2, <3>3, <5>1, <5>3
      <4>2. CASE older \in Range(main)
        <5>1. PICK i \in DOMAIN main : older = main[i]
          BY <4>2 DEF Range
        <5>2. main[i].id # 0
          BY <1>2, <3>3, <5>1
        <5> QED
          BY <1>1, <1>5, <5>1, <5>2 DEF WorkerOK, ReceiveReserve
      <4> QED
        BY <3>1, <3>3, <4>1, <4>2 DEF Queued
    <3>4. Head(reserve) \in Range(reserve)
      BY <3>2 DEF Range
    <3> QED
      BY <3>1, <3>2, <3>3, <3>4 DEF Taken
  <2> QED
    BY <1>3, <1>5, <2>1 DEF ReceiveReserve
<1>6. CASE ReceiveMainAgain
  <2>1. CASE Take(TerminalShutdown) /\ UNCHANGED <<main, reserve>>
    <3>1. current' = {TerminalShutdown} /\ TerminalShutdown.id = 0
      BY <2>1 DEF Take, TerminalShutdown
    <3>2. \A older \in Queued' : older.id \in Nat
      BY <1>2, <2>1 DEF Queued, Range
    <3> QED
      BY <3>1, <3>2 DEF Taken
  <2> QED
    BY <1>3, <1>4, <1>6, <2>1 DEF ReceiveMainAgain
<1>7. CASE ReceiveMain \/ SelectMain
  BY <1>3, <1>4, <1>7 DEF ReceiveMain, SelectMain
<1>8. CASE \E s \in Senders : AdmitCommand(s) \/ SenderRuns(s) \/ DropSender(s)
  BY <1>3, <1>8 DEF AdmitCommand, SenderRuns, DropSender, workerVars
<1>9. CASE \/ Turn \/ Handle \/ PlanWait \/ CancelCheck \/ SelectWake \/ SelectCancel
           \/ OtherWakeup \/ FallAsleep \/ DropRuntime
  <2>1. current' = current \/ current' = {}
    BY <1>9 DEF Turn, Handle, PlanWait, CancelCheck, SelectWake, SelectCancel, OtherWakeup,
       FallAsleep, DropRuntime
  <2> QED
    BY <1>3, <2>1
<1>10. CASE \/ \E operation \in {"shutdown_before", "shutdown", "drop"} : OwnerCalls(operation)
            \/ SendTerminalCommand \/ SendTerminalCancel \/ JoinThread \/ DeadlinePasses
            \/ DropOwner \/ Done
  <2>1. current' = current
    BY <1>10 DEF OwnerCalls, SendTerminalCommand, SendTerminalCancel, JoinThread,
       DeadlinePasses, DropOwner, Done, vars, workerVars
  <2> QED
    BY <1>3, <2>1
<1> QED
  BY <1>5, <1>6, <1>7, <1>8, <1>9, <1>10 DEF Next, WorkerStep

\* NothingLeftBehind: a sender that passed the gate late is not told that its
\* command was accepted for a worker that is gone (Drop for WorkerCommandInbox,
\* and inbox_closed, which every send reads under the reserve's mutex).
THEOREM InboxLeavesNothing == Spec => NothingLeftBehind
<1>1. IInv /\ IInv' /\ [Next]_vars
        => [/\ ClosedInboxIsEmpty'
            /\ inboxClosed =>
                  \A c \in Range(main') : c.id = 0 \/ c \in Range(main)]_queueVars
  <2>1. CASE Next
    BY <2>1, ClosedStep DEF IInv
  <2>2. CASE UNCHANGED vars
    BY <2>2 DEF vars
  <2> QED
    BY <2>1, <2>2
<1> QED
  BY <1>1, Invariance, PTL DEF Spec, NothingLeftBehind

\* LossOnlyByCoalescing: an accepted command leaves the queues in the worker's
\* hands, with the reserve of a closed inbox, or for the next latest value of its kind
\* (push_into_reserve).
THEOREM NothingLostButCoalesced == Spec => LossOnlyByCoalescing
<1>1. IInv /\ [Next]_vars
        => [\A c \in Queued :
              \/ c \in Queued' \cup Taken
              \/ worker = "closeInbox" /\ c \in Range(reserve)
              \/ /\ c.id = accepted /\ accepted' = accepted + 1
                 /\ c.kind \in LatestKinds
                 /\ \E d \in Range(reserve') : d.id = accepted' /\ d.kind = c.kind]_vars
  BY LossStep
<1> QED
  BY <1>1, Invariance, PTL DEF Spec, LossOnlyByCoalescing

\* OvertakesOnlyInTheWindow: a command from the reserve overtakes only those
\* sent to the channel after try_receive found it empty.
THEOREM OvertakingIsBounded == Spec => OvertakesOnlyInTheWindow
<1>1. IInv /\ [Next]_vars
        => [\A c \in Taken : \A older \in Queued' :
              0 < older.id /\ older.id < c.id
                 => c \in Range(reserve) /\ older.id > seen]_vars
  BY OvertakesStep
<1> QED
  BY <1>1, Invariance, PTL DEF Spec, OvertakesOnlyInTheWindow

=============================================================================
