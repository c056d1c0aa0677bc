------------------------- MODULE PlaylistSaveProofs -------------------------
(***************************************************************************)
(* Proofs about PlaylistSave and its SaveWorker: SaveInv and                *)
(* ShutdownTellsTheTruth from an inductive invariant, the step property     *)
(* that no unreadable file is destroyed, and the refinement of SavedState.  *)
(***************************************************************************)
EXTENDS PlaylistSave, AtomicFileProofs, SequenceTheorems

-----------------------------------------------------------------------------
(* The inductive invariant *)

\* The snapshot a directory holds, and one that every directory of S has reached.
Held(d) == IF d.target \in Snapshots THEN d.target ELSE 0
Reached(S, r) == \A d \in S : r <= Held(d)

\* The attempt under way has renamed its file, or found it renamed before.
Replaced(r) == r.step = "syncDir" \/ r.outcome \in {"Unconfirmed", "Durable"}

\* The disk only runs ahead of what a power loss leaves, and the worker of a
\* process that found an unreadable file has it out of its way.
DiskOK ==
    /\ ReplaceOK
    /\ replace.step # "idle" <=> work.pc = "io"
    /\ Held(disk) <= committed
    /\ \A d \in survivors :
          /\ Held(d) <= Held(disk)
          /\ \A c \in {Corrupt, Newer} :
                c \in {disk.target, disk.aside} => c \in {d.target, d.aside}
    /\ work.pc # "none" => disk.target \notin {Corrupt, Newer}

\* The scheduled attempt fits what the worker w holds.
Scheduled(w) ==
    /\ w.dirty = None <=> w.attempt = "none"
    /\ w.pending # None <=> w.attempt = "DirectorySync"
    /\ w.pending # None => w.pending = w.dirty
    /\ w.due => w.dirty # None
    /\ w.dirty # None => w.durable < w.dirty

\* What the worker holds is newer than the file until its attempt has replaced
\* that.
AttemptOK ==
    /\ Scheduled(work)
    /\ work.dirty # None /\ work.pending = None /\ ~Replaced(replace)
          => Held(disk) < work.dirty
    /\ work.pc = "io" =>
          /\ work.dirty # None
          /\ Replaced(replace) => disk.target = work.dirty
          /\ ~Replaced(replace) => work.pending = None /\ replace.of = work.dirty
          /\ replace.outcome = "Durable" => survivors = {disk}

\* Every claim that a snapshot is durable, on its way to the user or there.
DurableClaims ==
    /\ Reached(survivors, promised)
    /\ Reached(survivors, work.durable)
    /\ \A i \in DOMAIN mail.reports :
          mail.reports[i].outcome = "Durable" => Reached(survivors, mail.reports[i].rev)
    /\ \A i \in DOMAIN events.reports :
          events.reports[i].outcome = "Durable" => Reached(survivors, events.reports[i].rev)
    /\ owner.durability = "Durable" => Reached(survivors, owner.rev)

\* What the owner has handed over.
Sent == IF sending THEN owner.submitted ELSE owner.latest

\* The revisions on their way from the owner to the file.
RevisionsOK ==
    /\ owner.latest \in {None, committed}
    /\ owner.submitted <= owner.latest
    /\ owner.retained # None =>
          /\ owner.retained = owner.latest /\ owner.submitted < owner.latest
          /\ sending /\ Held(disk) < owner.retained
    /\ work.dirty <= Sent /\ work.durable <= Sent
    /\ \A i \in DOMAIN commands :
          /\ commands[i].rev <= Sent
          /\ commands[i].op \notin {"Commit", "Shutdown"} => commands[i].rev = None
          /\ \/ commands[i].rev <= work.dirty \/ commands[i].rev <= work.durable
             \/ Held(disk) < commands[i].rev

\* What the shutdown will be told, or has been told, by the worker.
AckOK ==
    work.closing /\ work.pc # "io" =>
        \/ ack.kind = "NoCommittedSnapshot" /\ work.dirty = None /\ work.durable = None
        \/ /\ work.dirty = None /\ work.durable # None /\ ack.rev = work.durable
           /\ ack.kind = "AlreadyDurable"
                \/ (ack.kind = "Attempted" /\ ack.outcome = "Durable")
        \/ /\ work.dirty # None /\ ack.rev = work.dirty /\ ack.kind = "Attempted"
           /\ \/ ack.outcome = "Unconfirmed" /\ disk.target = work.dirty
              \/ ack.outcome = "NotReplaced" /\ disk.target # work.dirty

\* The stages of start and shutdown, on both threads.
StagesOK ==
    /\ owner.pc = "boot" =>
          /\ owner = NewOwner /\ commands = << >> /\ sending
          /\ work = [NewWorker EXCEPT !.pc = "none"] /\ mail = EmptyMailbox
          /\ events = NoEvents /\ ~appWake
    /\ sending => \A i \in DOMAIN commands : commands[i].op # "Shutdown"
    /\ \A i \in DOMAIN commands : commands[i].op = "Shutdown" => i = Len(commands)
    /\ sending <=> owner.pc \notin {"ack", "join", "ended"} \/ work.pc = "none"
    /\ work.closing =>
          /\ commands = << >> /\ ~sending
          /\ work.pc \notin {"none", "recv", "ready", "full"}
    /\ work.pc \in {"ack", "acked"} => work.closing
    /\ work.pc = "exited" => ~sending /\ (work.closing \/ owner.pc = "ended")
    /\ owner.pc \in {"ack", "join"} =>
          /\ work.pc # "none"
          /\ \/ work.closing
             \/ commands # << >> /\ commands[Len(commands)].op = "Shutdown"
    /\ owner.pc = "join" => work.closing /\ work.pc \in {"acked", "exited"}
    /\ owner.pc \in {"flag", "edge", "resume", "apply", "admit"} => work.pc # "none"
    /\ owner.outcome # "none" <=> owner.pc = "ended"
    /\ owner.outcome = "Completed" => work.pc = "exited"

\* The room for reports: the last slot is left for the attempt of a shutdown.
RoomOK ==
    /\ ~work.closing => Len(mail.reports) < EventCapacity
    /\ work.pc = "io" =>
          Len(mail.reports) < IF work.closing THEN EventCapacity ELSE EventCapacity - 1

\* A flag that holds wakes back has its wake on the way, or is being cleared.
WakeOK == mail.wake => appWake \/ owner.pc = "flag"

IInv ==
    /\ TypeOK
    /\ NoTornFile
    /\ DiskOK
    /\ AttemptOK
    /\ RetrySyncsWhatIsThere
    /\ DurableClaims
    /\ RevisionsOK
    /\ LatestIsHeld
    /\ AckOK
    /\ StagesOK
    /\ RoomOK
    /\ WakeOK
    /\ NoLostWake
    /\ ShutdownTellsTheTruth

-----------------------------------------------------------------------------
(* Lemmas about revisions, directories and the worker's state *)

\* Revisions are numbers; every one but None is that of a snapshot.
LEMMA Numbers ==
  /\ MaxSnapshots \in Nat \ {0} /\ None = 0
  /\ \A r \in Revisions : r \in Nat /\ r <= MaxSnapshots /\ (r # None => r \in Snapshots)
  /\ \A r \in Snapshots : r \in Revisions /\ r # None
  /\ None \in Revisions
  BY FileAssumption DEF None, Revisions, Snapshots

\* What a directory holds is a revision.
LEMMA HeldRevision ==
  /\ \A d : Held(d) \in Revisions /\ Held(d) \in Nat
  /\ \A d : d.target \in Snapshots => Held(d) = d.target
  /\ \A d : d.target \notin Snapshots => Held(d) = 0
  /\ \A d : Held(d) # 0 => d.target \in Snapshots
  BY Numbers DEF Held, None

\* A claim outlives every change of the disk that only adds newer snapshots.
LEMMA ReachedLater ==
  ASSUME NEW S, NEW T, NEW r \in Revisions, Reached(S, r),
         \A d \in T : d \in S \/ \E e \in S : Held(e) <= Held(d)
  PROVE  Reached(T, r)
<1> SUFFICES ASSUME NEW d \in T PROVE r <= Held(d)
  BY DEF Reached
<1>1. r \in Nat
  BY Numbers
<1>2. CASE d \in S
  BY <1>2 DEF Reached
<1>3. CASE \E e \in S : Held(e) <= Held(d)
  <2>1. PICK e \in S : Held(e) <= Held(d)
    BY <1>3
  <2>2. r <= Held(e) /\ Held(e) \in Nat /\ Held(d) \in Nat
    BY HeldRevision DEF Reached
  <2> QED
    BY <1>1, <2>1, <2>2
<1> QED
  BY <1>2, <1>3

\* accept_snapshot takes a revision only when it is newer than all it has.
LEMMA AcceptFacts ==
  ASSUME NEW w \in WorkerStates, NEW r \in Revisions, Scheduled(w)
  PROVE  /\ AcceptSnapshot(w, r) \in WorkerStates /\ Scheduled(AcceptSnapshot(w, r))
         /\ AcceptSnapshot(w, r).pc = w.pc /\ AcceptSnapshot(w, r).closing = w.closing
         /\ AcceptSnapshot(w, r).durable = w.durable
         /\ \/ AcceptSnapshot(w, r) = w /\ (r <= w.dirty \/ r <= w.durable)
            \/ /\ AcceptSnapshot(w, r).dirty = r /\ AcceptSnapshot(w, r).pending = None
               /\ w.dirty < r /\ w.durable < r /\ r # None
<1>1. /\ w.dirty \in Revisions /\ w.durable \in Revisions
      /\ r \in Nat /\ w.dirty \in Nat /\ w.durable \in Nat /\ None = 0 /\ None \in Revisions
  BY Numbers DEF WorkerStates
<1>2. CASE w.dirty >= r \/ w.durable >= r
  <2>1. AcceptSnapshot(w, r) = w
    BY <1>2 DEF AcceptSnapshot
  <2>2. r <= w.dirty \/ r <= w.durable
    BY <1>1, <1>2
  <2> QED
    BY <2>1, <2>2
<1>3. CASE ~(w.dirty >= r \/ w.durable >= r)
  <2> DEFINE v == [w EXCEPT !.dirty = r, !.pending = None, !.attempt = "FullWrite",
                            !.due = FALSE]
  <2>1. AcceptSnapshot(w, r) = v
    BY <1>3 DEF AcceptSnapshot
  <2>2. w.dirty < r /\ w.durable < r /\ r # None
    BY <1>1, <1>3
  <2>3. v \in WorkerStates
    BY <1>1 DEF WorkerStates
  <2>4. /\ v.pc = w.pc /\ v.closing = w.closing /\ v.durable = w.durable /\ v.dirty = r
        /\ v.pending = None /\ v.attempt = "FullWrite" /\ v.due = FALSE
    BY DEF WorkerStates
  <2> HIDE DEF v
  <2>5. Scheduled(v)
    BY <2>2, <2>4 DEF Scheduled
  <2> QED
    BY <2>1, <2>2, <2>3, <2>4, <2>5
<1> QED
  BY <1>2, <1>3

\* retry_now makes the scheduled attempt due, the sync when only that is left.
LEMMA RetryFacts ==
  ASSUME NEW w \in WorkerStates, Scheduled(w)
  PROVE  /\ RetryNow(w) \in WorkerStates /\ Scheduled(RetryNow(w))
         /\ RetryNow(w).pc = w.pc /\ RetryNow(w).closing = w.closing
         /\ RetryNow(w).durable = w.durable /\ RetryNow(w).dirty = w.dirty
         /\ RetryNow(w).pending = w.pending
<1>1. CASE w.dirty = None
  BY <1>1 DEF RetryNow
<1>2. CASE w.dirty # None
  <2> DEFINE v == [w EXCEPT !.due = TRUE,
                     !.attempt = IF w.pending # None THEN "DirectorySync" ELSE "FullWrite"]
  <2>1. RetryNow(w) = v
    BY <1>2 DEF RetryNow
  <2>2. v \in WorkerStates
    BY DEF WorkerStates
  <2>3. /\ v.pc = w.pc /\ v.closing = w.closing /\ v.durable = w.durable /\ v.dirty = w.dirty
        /\ v.pending = w.pending
        /\ v.attempt = IF w.pending # None THEN "DirectorySync" ELSE "FullWrite"
    BY DEF WorkerStates
  <2> HIDE DEF v
  <2>4. Scheduled(v)
    BY <1>2, <2>3 DEF Scheduled
  <2> QED
    BY <2>1, <2>2, <2>3, <2>4
<1> QED
  BY <1>1, <1>2

\* The debounce only moves the deadline of a full write.
LEMMA RescheduleFacts ==
  ASSUME NEW w \in WorkerStates, Scheduled(w)
  PROVE  /\ RescheduleDebounce(w) \in WorkerStates /\ Scheduled(RescheduleDebounce(w))
         /\ RescheduleDebounce(w).pc = w.pc /\ RescheduleDebounce(w).closing = w.closing
         /\ RescheduleDebounce(w).durable = w.durable
         /\ RescheduleDebounce(w).dirty = w.dirty
         /\ RescheduleDebounce(w).pending = w.pending
<1> DEFINE v == [w EXCEPT !.due = FALSE]
<1>1. v \in WorkerStates
  BY DEF WorkerStates
<1>2. /\ v.pc = w.pc /\ v.closing = w.closing /\ v.durable = w.durable /\ v.dirty = w.dirty
      /\ v.pending = w.pending /\ v.attempt = w.attempt /\ v.due = FALSE
  BY DEF WorkerStates
<1>3. RescheduleDebounce(w) \in {v, w}
  BY DEF RescheduleDebounce
<1> HIDE DEF v
<1>4. Scheduled(v)
  BY <1>2 DEF Scheduled
<1> QED
  BY <1>1, <1>2, <1>3, <1>4

\* The outcome of an attempt: durable and done, or scheduled again.
LEMMA OutcomeFacts ==
  ASSUME NEW w \in WorkerStates, Scheduled(w), w.dirty # None,
         NEW o \in {"NotReplaced", "Unconfirmed", "Durable"}
  PROVE  /\ ApplyOutcome(w, o) \in WorkerStates /\ Scheduled(ApplyOutcome(w, o))
         /\ ApplyOutcome(w, o).closing = w.closing
         /\ o = "Durable" => /\ ApplyOutcome(w, o).durable = w.dirty
                             /\ ApplyOutcome(w, o).dirty = None
                             /\ ApplyOutcome(w, o).pending = None
         /\ o # "Durable" => /\ ApplyOutcome(w, o).durable = w.durable
                             /\ ApplyOutcome(w, o).dirty = w.dirty
         /\ o = "Unconfirmed" => ApplyOutcome(w, o).pending = w.dirty
         /\ o = "NotReplaced" => ApplyOutcome(w, o).pending = None
<1>1. w.dirty \in Revisions /\ w.dirty \in Nat /\ None \in Revisions
  BY Numbers DEF WorkerStates
<1>2. CASE o = "Durable"
  <2> DEFINE v == [w EXCEPT !.durable = w.dirty, !.pending = None, !.attempt = "none",
                            !.due = FALSE, !.dirty = None, !.warning = None]
  <2>1. ApplyOutcome(w, o) = v
    <3>1. w.dirty <= w.dirty
      BY <1>1
    <3>2. ApplyOutcome(w, o) = MarkDurable(w, w.dirty)
      BY <1>2 DEF ApplyOutcome
    <3> QED
      BY <3>1, <3>2 DEF MarkDurable, WorkerStates
  <2>2. v \in WorkerStates
    BY <1>1 DEF WorkerStates
  <2>3. /\ v.closing = w.closing /\ v.durable = w.dirty /\ v.dirty = None
        /\ v.pending = None /\ v.attempt = "none" /\ v.due = FALSE
    BY DEF WorkerStates
  <2> HIDE DEF v
  <2>4. Scheduled(v)
    BY <2>3 DEF Scheduled
  <2> QED
    BY <1>2, <2>1, <2>2, <2>3, <2>4
<1>3. CASE o = "NotReplaced"
  <2> DEFINE v == [w EXCEPT !.pending = None, !.warning = w.dirty, !.attempt = "FullWrite",
                            !.due = FALSE]
  <2>1. ApplyOutcome(w, o) = v
    BY <1>3 DEF ApplyOutcome, ScheduleRetry, WorkerStates
  <2>2. v \in WorkerStates
    BY <1>1 DEF WorkerStates
  <2>3. /\ v.closing = w.closing /\ v.durable = w.durable /\ v.dirty = w.dirty
        /\ v.pending = None /\ v.attempt = "FullWrite" /\ v.due = FALSE
    BY DEF WorkerStates
  <2> HIDE DEF v
  <2>4. Scheduled(v)
    BY <2>3 DEF Scheduled
  <2> QED
    BY <1>3, <2>1, <2>2, <2>3, <2>4
<1>4. CASE o = "Unconfirmed"
  <2> DEFINE v == [w EXCEPT !.pending = w.dirty, !.warning = w.dirty,
                            !.attempt = "DirectorySync", !.due = FALSE]
  <2>1. ApplyOutcome(w, o) = v
    BY <1>4 DEF ApplyOutcome, ScheduleRetry, WorkerStates
  <2>2. v \in WorkerStates
    BY <1>1 DEF WorkerStates
  <2>3. /\ v.closing = w.closing /\ v.durable = w.durable /\ v.dirty = w.dirty
        /\ v.pending = w.dirty /\ v.attempt = "DirectorySync" /\ v.due = FALSE
    BY DEF WorkerStates
  <2> HIDE DEF v
  <2>4. Scheduled(v)
    BY <2>3 DEF Scheduled
  <2> QED
    BY <1>4, <2>1, <2>2, <2>3, <2>4
<1> QED
  BY <1>2, <1>3, <1>4

\* The ranges of what the proofs compare.
LEMMA Ranges ==
  ASSUME TypeOK
  PROVE  /\ work \in WorkerStates /\ owner \in OwnerStates /\ mail \in Mailboxes
         /\ events \in EventBatches /\ ack \in Completions
         /\ work.dirty \in Revisions /\ work.durable \in Revisions /\ work.pending \in Revisions
         /\ work.due \in BOOLEAN /\ work.closing \in BOOLEAN
         /\ owner.latest \in Revisions /\ owner.retained \in Revisions
         /\ owner.submitted \in Revisions /\ owner.rev \in Revisions
         /\ committed \in Revisions /\ promised \in Revisions /\ Sent \in Revisions
         /\ commands \in Seq(Commands) /\ Len(commands) \in Nat
         /\ DOMAIN commands = 1 .. Len(commands)
         /\ \A i \in DOMAIN commands : commands[i] \in Commands /\ commands[i].rev \in Revisions
         /\ mail.reports \in Seq(Reports) /\ events.reports \in Seq(Reports)
         /\ \A i \in DOMAIN mail.reports : mail.reports[i].rev \in Revisions
         /\ \A i \in DOMAIN events.reports : events.reports[i].rev \in Revisions
         /\ disk \in survivors /\ disk \in Directories /\ survivors \subseteq Directories
<1>1. /\ work \in WorkerStates /\ owner \in OwnerStates /\ mail \in Mailboxes
      /\ events \in EventBatches /\ ack \in Completions
      /\ commands \in Seq(Commands)
      /\ committed \in Revisions /\ promised \in Revisions
      /\ disk \in survivors /\ disk \in Directories /\ survivors \subseteq Directories
  BY DEF TypeOK, WorkerTypeOK, FileTypeOK
<1>2. /\ work.dirty \in Revisions /\ work.durable \in Revisions /\ work.pending \in Revisions
      /\ work.due \in BOOLEAN /\ work.closing \in BOOLEAN
  BY <1>1 DEF WorkerStates
<1>3. /\ owner.latest \in Revisions /\ owner.retained \in Revisions
      /\ owner.submitted \in Revisions /\ owner.rev \in Revisions
  BY <1>1 DEF OwnerStates
<1>4. Sent \in Revisions
  BY <1>3 DEF Sent
<1>5. mail.reports \in Seq(Reports) /\ events.reports \in Seq(Reports)
  BY <1>1 DEF Mailboxes, EventBatches
<1>6. /\ Len(commands) \in Nat /\ DOMAIN commands = 1 .. Len(commands)
      /\ \A i \in DOMAIN commands : commands[i] \in Commands /\ commands[i].rev \in Revisions
  <2>1. \A c \in Commands : c.rev \in Revisions
    BY DEF Commands
  <2> QED
    BY <1>1, <2>1
<1>7. /\ \A i \in DOMAIN mail.reports : mail.reports[i].rev \in Revisions
      /\ \A i \in DOMAIN events.reports : events.reports[i].rev \in Revisions
  <2>1. \A c \in Reports : c.rev \in Revisions
    BY DEF Reports
  <2> QED
    BY <1>5, <2>1
<1> QED
  BY <1>1, <1>2, <1>3, <1>4, <1>5, <1>6, <1>7

-----------------------------------------------------------------------------
(* The steps of the worker *)

\* What a step of the attempt does to the file: only the rename changes what it
\* holds, and only to the newer snapshot of the worker.
LEMMA FileOperationEffect ==
  ASSUME IInv, FileOperation, UNCHANGED ownerVars
  PROVE  /\ Held(disk) <= Held(disk') /\ Held(disk') <= committed
         /\ disk'.aside = disk.aside
         /\ disk' \in survivors'
         /\ \A d \in survivors' : d \in survivors \/ d = disk'
         /\ disk'.target = disk.target
              \/ (disk'.target = work.dirty /\ replace'.step = "syncDir")
         /\ disk' # disk => disk'.target = work.dirty /\ Replaced(replace')
<1>1. /\ TypeOK /\ FileTypeOK /\ ReplaceOK /\ NoTornFile /\ FileStep
      /\ DiskOK /\ AttemptOK /\ DurableClaims /\ RevisionsOK
      /\ UNCHANGED <<commands, sending, work, mail, ack, appWake,
                     owner, events, committed, promised, boots, controls>>
      /\ work.pc = "io"
  BY DEF IInv, TypeOK, DiskOK, FileOperation, workerVars, ownerVars, At
<1>2. /\ replace'.of = replace.of
      /\ replace.step \notin {"idle", "done"} /\ replace'.step # "idle"
      /\ \/ /\ disk' = disk /\ survivors' = survivors
            /\ \/ replace'.step = "done" /\ replace'.outcome \in {"NotReplaced", "Unconfirmed"}
               \/ /\ replace.step \in {"write", "syncTemp"}
                  /\ replace'.step \in {"syncTemp", "rename"}
         \/ /\ replace.step = "rename" /\ replace'.step = "syncDir"
            /\ disk' = [disk EXCEPT !.target = replace.of]
            /\ survivors' = survivors \cup {disk'}
         \/ /\ replace.step = "syncDir" /\ replace'.step = "done"
            /\ replace'.outcome = "Durable"
            /\ disk' = disk /\ survivors' = {disk}
  BY <1>1, FileStepEffect
<1>5. /\ work.dirty \in Revisions /\ work.dirty \in Nat /\ work.dirty # None
      /\ work.dirty \in Snapshots /\ work.durable \in Revisions
      /\ committed \in Nat /\ promised \in Revisions /\ owner.rev \in Revisions
      /\ disk \in survivors /\ disk \in Directories /\ Sent \in Nat /\ owner.latest \in Nat
  BY <1>1, Ranges, Numbers DEF AttemptOK
<1>6. work.dirty <= committed
  <2>1. owner.submitted <= owner.latest /\ work.dirty <= Sent
        /\ owner.latest \in {None, committed} /\ owner.submitted \in Nat
    BY <1>1, Ranges, Numbers DEF RevisionsOK
  <2>2. Sent <= owner.latest
    BY <1>5, <2>1 DEF Sent
  <2> QED
    BY <1>5, <2>1, <2>2, Numbers
<1> QED
  <2>1. CASE disk' = disk
    BY <1>1, <1>2, <1>5, <2>1, HeldRevision DEF DiskOK
  <2>2. CASE /\ replace.step = "rename" /\ replace'.step = "syncDir"
             /\ disk' = [disk EXCEPT !.target = replace.of]
             /\ survivors' = survivors \cup {disk'}
    <3>1. ~Replaced(replace)
      BY <1>1, <2>2 DEF Replaced, ReplaceOK, FileTypeOK
    <3>2. replace.of = work.dirty /\ Held(disk) < work.dirty
      BY <1>1, <1>5, <3>1 DEF AttemptOK
    <3>3. disk'.target = work.dirty /\ disk'.aside = disk.aside
      BY <1>5, <2>2, <3>2 DEF Directories
    <3>4. Held(disk') = work.dirty
      BY <1>5, <3>3, HeldRevision
    <3> QED
      BY <1>5, <1>6, <2>2, <3>2, <3>3, <3>4, HeldRevision DEF Replaced
  <2> QED
    BY <1>2, <2>1, <2>2

\* A step of the attempt keeps everything in order, also after a failure.
LEMMA FileOperationKeeps ==
  ASSUME IInv, FileOperation, UNCHANGED ownerVars
  PROVE  IInv'
<1>1. /\ TypeOK /\ FileTypeOK /\ ReplaceOK /\ NoTornFile /\ FileStep
      /\ DiskOK /\ AttemptOK /\ DurableClaims /\ RevisionsOK
      /\ UNCHANGED <<commands, sending, work, mail, ack, appWake,
                     owner, events, committed, promised, boots, controls>>
      /\ work.pc = "io"
  BY DEF IInv, TypeOK, DiskOK, FileOperation, workerVars, ownerVars, At
<1>2. /\ replace'.of = replace.of
      /\ replace.step \notin {"idle", "done"} /\ replace'.step # "idle"
      /\ \/ /\ disk' = disk /\ survivors' = survivors
            /\ \/ replace'.step = "done" /\ replace'.outcome \in {"NotReplaced", "Unconfirmed"}
               \/ /\ replace.step \in {"write", "syncTemp"}
                  /\ replace'.step \in {"syncTemp", "rename"}
         \/ /\ replace.step = "rename" /\ replace'.step = "syncDir"
            /\ disk' = [disk EXCEPT !.target = replace.of]
            /\ survivors' = survivors \cup {disk'}
         \/ /\ replace.step = "syncDir" /\ replace'.step = "done"
            /\ replace'.outcome = "Durable"
            /\ disk' = disk /\ survivors' = {disk}
  BY <1>1, FileStepEffect
<1>3. /\ FileTypeOK' /\ ReplaceOK' /\ NoTornFile'
  BY <1>1, FileStepKeepsTypes, FileStepKeepsOrder, FileStepKeepsWhole
<1>4. TypeOK'
  BY <1>1, <1>3 DEF TypeOK, WorkerTypeOK
<1>5. /\ work.dirty \in Revisions /\ work.dirty \in Nat /\ work.dirty # None
      /\ work.dirty \in Snapshots /\ work.durable \in Revisions
      /\ committed \in Nat /\ promised \in Revisions /\ owner.rev \in Revisions
      /\ disk \in survivors /\ disk \in Directories /\ Sent \in Nat /\ owner.latest \in Nat
  BY <1>1, Ranges, Numbers DEF AttemptOK
\* What the step does to the file, in terms of snapshots.
<1>7. /\ Held(disk) <= Held(disk') /\ Held(disk') <= committed
      /\ disk'.aside = disk.aside
      /\ disk' \in survivors'
      /\ \A d \in survivors' : d \in survivors \/ d = disk'
      /\ disk'.target = disk.target
           \/ (disk'.target = work.dirty /\ replace'.step = "syncDir")
      /\ disk' # disk => disk'.target = work.dirty /\ Replaced(replace')
  BY FileOperationEffect
<1>8. \A d \in survivors' : Held(d) <= Held(disk')
  <2> SUFFICES ASSUME NEW d \in survivors' PROVE Held(d) <= Held(disk')
    OBVIOUS
  <2>1. d = disk' \/ Held(d) <= Held(disk)
    BY <1>1, <1>7 DEF DiskOK
  <2> QED
    BY <1>7, <2>1, HeldRevision
<1>9. disk'.target \notin {Corrupt, Newer} /\ disk.target \notin {Corrupt, Newer}
  BY <1>1, <1>5, <1>7, ContentKinds DEF DiskOK
<1>10. \A d \in survivors' : \A c \in {Corrupt, Newer} :
          c \in {disk'.target, disk'.aside} => c \in {d.target, d.aside}
  BY <1>1, <1>7, <1>9 DEF DiskOK
<1>11. DiskOK'
  BY <1>1, <1>2, <1>3, <1>7, <1>8, <1>9, <1>10 DEF DiskOK
<1>12. ASSUME NEW r \in Revisions, Reached(survivors, r) PROVE Reached(survivors', r)
  <2>1. \A d \in survivors' : d \in survivors \/ \E e \in survivors : Held(e) <= Held(d)
    BY <1>5, <1>7
  <2> QED
    BY <1>12, <2>1, ReachedLater
<1>13. DurableClaims'
  <2>1. Reached(survivors', promised) /\ Reached(survivors', work.durable)
    BY <1>1, <1>5, <1>12 DEF DurableClaims
  <2>2. owner.durability = "Durable" => Reached(survivors', owner.rev)
    BY <1>1, <1>5, <1>12 DEF DurableClaims
  <2>3. \A i \in DOMAIN mail.reports :
          mail.reports[i].outcome = "Durable" => Reached(survivors', mail.reports[i].rev)
    BY <1>1, <1>12, Ranges DEF DurableClaims
  <2>4. \A i \in DOMAIN events.reports :
          events.reports[i].outcome = "Durable" => Reached(survivors', events.reports[i].rev)
    BY <1>1, <1>12, Ranges DEF DurableClaims
  <2> QED
    BY <1>1, <2>1, <2>2, <2>3, <2>4 DEF DurableClaims
<1>14. AttemptOK' /\ RetrySyncsWhatIsThere'
  <2>1. Scheduled(work) /\ work' = work /\ work.dirty # None
    BY <1>1 DEF AttemptOK
  <2>2. replace'.step = "done" <=> replace'.outcome # "none"
    BY <1>3 DEF ReplaceOK
  <2>3. Replaced(replace) => Replaced(replace') /\ disk.target = work.dirty /\ disk'.target = work.dirty
    <3>1. Replaced(replace) => replace.step = "syncDir"
      BY <1>1, <1>2 DEF Replaced, ReplaceOK
    <3>2. replace.step = "syncDir" => Replaced(replace')
      <4>1. replace.step = "syncDir" => replace'.outcome \in {"Unconfirmed", "Durable"}
        BY <1>1 DEF FileStep, WriteTempFile, SyncTempFile, Step, RenameTempFile,
           SyncParentDirectory, FailStep, FileTypeOK
      <4> QED
        BY <4>1 DEF Replaced
    <3> QED
      BY <1>1, <1>7, <3>1, <3>2 DEF AttemptOK
  <2>4. ~Replaced(replace) => work.pending = None /\ replace.of = work.dirty /\ Held(disk) < work.dirty
    BY <1>1, <1>5 DEF AttemptOK
  <2>5. Replaced(replace') => disk'.target = work.dirty
    <3>1. CASE Replaced(replace)
      BY <2>3, <3>1
    <3>2. CASE ~Replaced(replace) /\ Replaced(replace')
      <4>1. replace.step = "rename" /\ replace'.step = "syncDir" /\ disk' = [disk EXCEPT !.target = replace.of]
        <5>1. replace.step # "syncDir"
          BY <3>2 DEF Replaced
        <5>2. replace'.outcome \in {"none", "NotReplaced"}
          BY <1>1, <3>2 DEF FileStep, WriteTempFile, SyncTempFile, Step, RenameTempFile,
             SyncParentDirectory, FailStep, FileTypeOK, Replaced
        <5> QED
          BY <1>2, <3>2, <5>1, <5>2 DEF Replaced
      <4> QED
        BY <1>5, <2>4, <3>2, <4>1 DEF Directories
    <3> QED
      BY <3>1, <3>2
  <2>6. ~Replaced(replace') =>
           /\ work.pending = None /\ replace'.of = work.dirty /\ Held(disk') < work.dirty
    BY <1>2, <1>7, <2>3, <2>4
  <2>7. replace'.outcome = "Durable" => survivors' = {disk'}
    BY <1>2, <2>2
  <2>8. work.pending # None => work.pending = work.dirty /\ disk'.target = work.dirty
    BY <2>1, <2>5, <2>6 DEF Scheduled
  <2>9. AttemptOK'
    BY <1>1, <2>1, <2>5, <2>6, <2>7 DEF AttemptOK
  <2> QED
    BY <1>1, <2>8, <2>9 DEF RetrySyncsWhatIsThere
<1>15. RevisionsOK'
  <2>1. Sent' = Sent /\ Sent <= owner.latest
    <3>1. owner.submitted <= owner.latest
      BY <1>1 DEF RevisionsOK
    <3> QED
      BY <1>1, <1>5, <3>1 DEF Sent
  <2>2. Held(disk') = Held(disk) \/ Held(disk') = work.dirty
    BY <1>5, <1>7, HeldRevision
  <2>3. owner.retained # None => Held(disk') < owner.retained
    <3> SUFFICES ASSUME owner.retained # None PROVE Held(disk') < owner.retained
      OBVIOUS
    <3>1. /\ owner.retained = owner.latest /\ owner.submitted < owner.latest
          /\ Sent = owner.submitted /\ Held(disk) < owner.retained /\ work.dirty <= Sent
      BY <1>1 DEF RevisionsOK, Sent
    <3>2. owner.submitted \in Nat
      BY <1>1, Ranges, Numbers
    <3> QED
      BY <1>5, <2>2, <3>1, <3>2
  <2>4. ASSUME NEW i \in DOMAIN commands
        PROVE  \/ commands[i].rev <= work.dirty \/ commands[i].rev <= work.durable
               \/ Held(disk') < commands[i].rev
    <3>1. \/ commands[i].rev <= work.dirty \/ commands[i].rev <= work.durable
          \/ Held(disk) < commands[i].rev
      BY <1>1 DEF RevisionsOK
    <3>2. commands[i].rev \in Nat
      BY <1>1, Ranges, Numbers
    <3> QED
      BY <1>5, <2>2, <3>1, <3>2
  <2> QED
    BY <1>1, <2>1, <2>3, <2>4 DEF RevisionsOK
<1>16. LatestIsHeld' /\ WakeOK' /\ RoomOK' /\ AckOK'
  BY <1>1 DEF IInv, LatestIsHeld, OwnerAt, WakeOK, RoomOK, AckOK
<1>17. StagesOK'
  BY <1>1 DEF IInv, StagesOK
<1>18. NoLostWake' /\ ShutdownTellsTheTruth'
  <2>1. owner.outcome # "Completed"
    BY <1>1 DEF IInv, StagesOK
  <2> QED
    BY <1>1, <2>1 DEF IInv, NoLostWake, HasPendingPayload, ShutdownTellsTheTruth
<1> QED
  BY <1>3, <1>4, <1>11, <1>13, <1>14, <1>15, <1>16, <1>17, <1>18 DEF IInv

\* The operation of an attempt: a replacement, or the sync that is left of one.
Begun(w) ==
    IF w.attempt = "DirectorySync" THEN [NoReplace EXCEPT !.step = "syncDir"]
    ELSE [NoReplace EXCEPT !.step = "write", !.of = w.dirty]

\* An attempt begins as a sync exactly when only the sync is left to do.
LEMMA BegunFacts ==
  ASSUME NEW w \in WorkerStates, Scheduled(w), w.dirty # None
  PROVE  /\ Begun(w) \in [step : {"idle", "write", "syncTemp", "rename", "syncDir", "done"},
                          of : 0 .. MaxSnapshots, synced : BOOLEAN,
                          outcome : {"none", "NotReplaced", "Unconfirmed", "Durable"}]
         /\ Begun(w).step \in {"syncDir", "write"} /\ Begun(w).outcome = "none"
         /\ w.pending # None => Replaced(Begun(w))
         /\ ~Replaced(Begun(w)) => w.pending = None /\ Begun(w).of = w.dirty
<1>1. w.dirty \in 0 .. MaxSnapshots /\ 0 \in 0 .. MaxSnapshots
  BY FileAssumption DEF WorkerStates, Revisions
<1>2. w.attempt = "DirectorySync" <=> w.pending # None
  BY DEF Scheduled
<1>3. CASE w.attempt = "DirectorySync"
  <2>1. Begun(w) = [step |-> "syncDir", of |-> 0, synced |-> FALSE, outcome |-> "none"]
    BY <1>3 DEF Begun, NoReplace
  <2> QED
    BY <1>1, <1>2, <1>3, <2>1 DEF Replaced
<1>4. CASE w.attempt # "DirectorySync"
  <2>1. Begun(w) = [step |-> "write", of |-> w.dirty, synced |-> FALSE, outcome |-> "none"]
    BY <1>4 DEF Begun, NoReplace
  <2> QED
    BY <1>1, <1>2, <1>4, <2>1 DEF Replaced
<1> QED
  BY <1>3, <1>4

\* The worker moves on without a command and without the file.
LEMMA WorkerMoves ==
  ASSUME IInv, UNCHANGED ownerVars,
         \/ NotDue \/ WaitForDrain \/ Acknowledge \/ ThreadExits \/ Disconnected
         \/ DeadlineReached \/ ExecuteAttempt
         \/ PublishAttemptEdge \/ PublishWarning \/ PublishWarningEdge
  PROVE  IInv'
<1>1. /\ TypeOK /\ DiskOK /\ AttemptOK /\ DurableClaims /\ RevisionsOK /\ AckOK /\ StagesOK
      /\ RoomOK /\ WakeOK /\ NoLostWake /\ RetrySyncsWhatIsThere
      /\ UNCHANGED <<disk, survivors, faults, commands, sending, ack,
                     owner, events, committed, promised, boots, controls>>
  BY DEF IInv, NotDue, WaitForDrain, Acknowledge, ThreadExits, Disconnected, DeadlineReached,
     ExecuteAttempt, PublishAttemptEdge, PublishWarning, PublishWarningEdge, Goto, fileVars,
     ownerVars
<1>2. work \in WorkerStates /\ mail \in Mailboxes /\ appWake \in BOOLEAN
  BY <1>1 DEF TypeOK, WorkerTypeOK
<1>3. /\ work' \in WorkerStates
      /\ work'.dirty = work.dirty /\ work'.durable = work.durable
      /\ work'.pending = work.pending /\ work'.attempt = work.attempt
      /\ work'.closing = work.closing
      /\ work'.due => work.due \/ work.attempt # "none"
  BY <1>2 DEF NotDue, WaitForDrain, Acknowledge, ThreadExits, Disconnected, DeadlineReached,
     ExecuteAttempt, PublishAttemptEdge, PublishWarning, PublishWarningEdge, Goto, WorkerStates
<1>4. \/ replace' = replace
         /\ \/ work.pc = "ready" /\ work'.pc \in {"recv", "full"}
            \/ work.pc = "recv" /\ work'.pc = "ready"
            \/ /\ work.pc \in {"recv", "full"} /\ work'.pc = "exited"
               /\ commands = << >> /\ ~sending
            \/ work.pc = "ack" /\ work'.pc = "acked"
            \/ work.pc = "acked" /\ work'.pc = "exited"
            \/ work.pc = "edge" /\ work'.pc = "warn"
            \/ work.pc = "warn" /\ work'.pc = "warnEdge"
            \/ work.pc = "warnEdge" /\ work.closing /\ work'.pc = "ack"
            \/ work.pc = "warnEdge" /\ ~work.closing /\ work'.pc = "recv"
      \/ /\ replace' = Begun(work) /\ work.pc = "ready" /\ work'.pc = "io"
         /\ work.due /\ HasNormalEventCapacity
  <2>1. CASE ExecuteAttempt
    BY <1>2, <2>1 DEF ExecuteAttempt, ReadyDrained, At, BeginAttempt, BeginDirectorySync,
       BeginReplace, Begun, WorkerStates
  <2>2. CASE NotDue \/ WaitForDrain \/ Acknowledge \/ ThreadExits \/ Disconnected
    BY <1>2, <2>2 DEF NotDue, WaitForDrain, Acknowledge, ThreadExits, Disconnected, Goto,
       WorkerStates, fileVars, ReadyDrained, At
  <2>3. CASE DeadlineReached \/ PublishAttemptEdge \/ PublishWarning
    BY <1>2, <2>3 DEF DeadlineReached, PublishAttemptEdge, PublishWarning, WorkerStates,
       fileVars, At
  <2>4. CASE PublishWarningEdge
    <3>1. work.pc = "warnEdge" /\ replace' = replace
      BY <2>4 DEF PublishWarningEdge, At, fileVars
    <3>2. work'.pc = IF work.closing THEN "ack" ELSE "recv"
      BY <1>2, <2>4 DEF PublishWarningEdge, WorkerStates
    <3> QED
      BY <3>1, <3>2
  <2> QED
    BY <2>1, <2>2, <2>3, <2>4
<1>5. /\ mail' \in Mailboxes /\ mail'.reports = mail.reports /\ appWake' \in BOOLEAN
      /\ appWake => appWake'
      /\ \/ mail'.warningPending = mail.warningPending \/ work'.pc = "warnEdge"
      /\ mail'.wake => mail.wake \/ appWake'
      /\ work.pc \in {"edge", "warnEdge"} => mail'.wake
  <2>1. CASE PublishWarning
    <3>1. work.warning \in Revisions
      BY <1>2 DEF WorkerStates
    <3>2. mail' \in Mailboxes
      <4> DEFINE p == mail.warningPending \/ work.warning # None \/ mail.warning # None
      <4>1. mail' = [mail EXCEPT !.warning = work.warning, !.warningPending = p]
        BY <1>2, <2>1 DEF PublishWarning, Mailboxes
      <4>2. p \in BOOLEAN
        OBVIOUS
      <4> HIDE DEF p
      <4> QED
        BY <1>2, <3>1, <4>1, <4>2 DEF Mailboxes
    <3>3. mail'.reports = mail.reports /\ mail'.wake = mail.wake
      BY <1>2, <2>1 DEF PublishWarning, Mailboxes
    <3>4. work.pc = "warn" /\ work'.pc = "warnEdge" /\ appWake' = appWake
      BY <1>2, <2>1 DEF PublishWarning, At, WorkerStates
    <3> QED
      BY <1>2, <3>2, <3>3, <3>4
  <2>2. CASE PublishAttemptEdge \/ PublishWarningEdge
    <3>1. mail' = [mail EXCEPT !.wake = TRUE] /\ appWake' = (appWake \/ ~mail.wake)
      BY <2>2 DEF PublishAttemptEdge, PublishWarningEdge, WakeEdge
    <3>2. /\ mail' \in Mailboxes /\ mail'.reports = mail.reports
          /\ mail'.warningPending = mail.warningPending /\ mail'.wake
      BY <1>2, <3>1 DEF Mailboxes
    <3>3. appWake' \in BOOLEAN /\ (appWake => appWake') /\ (~mail.wake => appWake')
      BY <3>1
    <3> QED
      BY <3>2, <3>3
  <2>3. CASE /\ UNCHANGED <<mail, appWake>> /\ work.pc \notin {"edge", "warnEdge"}
    BY <1>2, <2>3
  <2> QED
    BY <2>1, <2>2, <2>3 DEF NotDue, WaitForDrain, Acknowledge, ThreadExits, Disconnected,
       DeadlineReached, ExecuteAttempt, Goto, ReadyDrained, At
<1>6. Scheduled(work')
  BY <1>1, <1>3 DEF AttemptOK, Scheduled
<1>7. /\ FileTypeOK' /\ ReplaceOK'
      /\ AttemptOK'
      /\ replace'.step # "idle" <=> work'.pc = "io"
  <2>1. CASE replace' = replace /\ work'.pc # "io" /\ work.pc # "io"
    <3>1. FileTypeOK' /\ ReplaceOK'
      BY <1>1, <2>1 DEF TypeOK, FileTypeOK, DiskOK, ReplaceOK
    <3>2. AttemptOK'
      BY <1>1, <1>3, <1>6, <2>1 DEF AttemptOK
    <3> QED
      BY <1>1, <2>1, <3>1, <3>2 DEF DiskOK
  <2>2. CASE replace' = Begun(work) /\ work.pc = "ready" /\ work'.pc = "io" /\ work.due
    <3>1. Scheduled(work) /\ work.dirty # None
      BY <1>1, <2>2 DEF AttemptOK, Scheduled
    <3>2. /\ replace' \in [step : {"idle", "write", "syncTemp", "rename", "syncDir", "done"},
                           of : 0 .. MaxSnapshots, synced : BOOLEAN,
                           outcome : {"none", "NotReplaced", "Unconfirmed", "Durable"}]
          /\ replace'.step \in {"syncDir", "write"} /\ replace'.outcome = "none"
          /\ work.pending # None => Replaced(replace')
          /\ ~Replaced(replace') => work.pending = None /\ replace'.of = work.dirty
      BY <1>2, <2>2, <3>1, BegunFacts
    <3>3. FileTypeOK' /\ ReplaceOK'
      BY <1>1, <3>2 DEF TypeOK, FileTypeOK, ReplaceOK
    <3>4. ~Replaced(replace)
      BY <1>1, <2>2 DEF DiskOK, ReplaceOK, Replaced, NoReplace
    <3>5. work.pending = None => Held(disk) < work.dirty
      BY <1>1, <3>1, <3>4 DEF AttemptOK
    <3>6. Replaced(replace') => work.pending # None
      <4>1. replace' = IF work.pending # None THEN [NoReplace EXCEPT !.step = "syncDir"]
                       ELSE [NoReplace EXCEPT !.step = "write", !.of = work.dirty]
        BY <2>2, <3>1 DEF Begun, Scheduled
      <4> QED
        BY <4>1 DEF Replaced, NoReplace
    <3>7. AttemptOK'
      BY <1>1, <1>3, <1>6, <3>1, <3>2, <3>5, <3>6 DEF AttemptOK, RetrySyncsWhatIsThere
    <3> QED
      BY <2>2, <3>2, <3>3, <3>7
  <2> QED
    BY <1>4, <2>1, <2>2
<1>8. TypeOK'
  BY <1>1, <1>3, <1>5, <1>7 DEF TypeOK, WorkerTypeOK
<1>9. work.pc # "none" /\ work'.pc # "none"
  BY <1>4
<1>10. DiskOK' /\ NoTornFile'
  BY <1>1, <1>7, <1>9 DEF DiskOK, IInv, NoTornFile
<1>11. RetrySyncsWhatIsThere' /\ DurableClaims' /\ RevisionsOK' /\ LatestIsHeld'
  BY <1>1, <1>3, <1>5
  DEF RetrySyncsWhatIsThere, DurableClaims, RevisionsOK, Sent, LatestIsHeld, OwnerAt, IInv
<1>12. AckOK'
  BY <1>1, <1>3, <1>4 DEF AckOK
<1>13. StagesOK'
  <2>1. work.pc # "exited"
    BY <1>4
  <2>2. owner.outcome # "Completed"
    BY <1>1, <2>1 DEF StagesOK
  <2>3. owner.pc # "boot"
    <3>1. [NewWorker EXCEPT !.pc = "none"].pc = "none"
      BY DEF NewWorker
    <3> QED
      BY <1>1, <1>9, <3>1 DEF StagesOK
  <2>4. work'.pc \in {"none", "recv", "ready", "full"} => ~work.closing
    BY <1>1, <1>4 DEF StagesOK
  <2>5. work'.pc \in {"ack", "acked"} => work.closing
    BY <1>1, <1>4 DEF StagesOK
  <2>6. work'.pc = "exited" => ~sending /\ (work.closing \/ owner.pc = "ended")
    <3>1. CASE work.pc \in {"recv", "full"} /\ commands = << >> /\ ~sending
      BY <1>1, <1>9, <3>1 DEF StagesOK
    <3>2. CASE work.pc = "acked"
      BY <1>1, <3>2 DEF StagesOK
    <3> QED
      BY <1>4, <3>1, <3>2
  <2>7. owner.pc = "join" => work'.pc \in {"acked", "exited"}
    BY <1>1, <1>4 DEF StagesOK
  <2> QED
    BY <1>1, <1>3, <1>9, <2>1, <2>2, <2>3, <2>4, <2>5, <2>6, <2>7 DEF StagesOK
<1>14. RoomOK'
  BY <1>1, <1>3, <1>4, <1>5 DEF RoomOK, StagesOK, HasNormalEventCapacity
<1>15. WakeOK' /\ NoLostWake'
  BY <1>1, <1>4, <1>5 DEF WakeOK, NoLostWake, HasPendingPayload
<1>16. ShutdownTellsTheTruth'
  BY <1>1 DEF IInv, ShutdownTellsTheTruth
<1> QED
  BY <1>8, <1>7, <1>10, <1>11, <1>12, <1>13, <1>14, <1>15, <1>16 DEF IInv

\* The worker's state after a command that does not end it.
Processed(w, c) ==
    CASE c.op = "Commit" -> AcceptSnapshot(w, c.rev)
      [] c.op = "Reschedule" -> RescheduleDebounce(w)
      [] c.op = "RetryNow" -> RetryNow(w)
      [] c.op = "MailboxDrained" -> w

\* A command leaves the worker with the newer of its snapshot and what it had.
LEMMA ProcessedFacts ==
  ASSUME NEW w \in WorkerStates, NEW c \in Commands, Scheduled(w), c.op # "Shutdown",
         c.op # "Commit" => c.rev = None
  PROVE  /\ Processed(w, c) \in WorkerStates /\ Scheduled(Processed(w, c))
         /\ Processed(w, c).closing = w.closing /\ Processed(w, c).durable = w.durable
         /\ \/ /\ Processed(w, c).dirty = w.dirty /\ Processed(w, c).pending = w.pending
               /\ c.rev <= w.dirty \/ c.rev <= w.durable
            \/ /\ Processed(w, c).dirty = c.rev /\ Processed(w, c).pending = None
               /\ w.dirty < c.rev /\ w.durable < c.rev /\ c.rev # None
<1>1. /\ c.rev \in Revisions /\ w.dirty \in Nat
      /\ c.op \in {"Commit", "Reschedule", "RetryNow", "MailboxDrained"}
  BY Numbers DEF Commands, WorkerStates
<1>2. CASE c.op = "Commit"
  <2>1. Processed(w, c) = AcceptSnapshot(w, c.rev)
    BY <1>2 DEF Processed
  <2> QED
    BY <1>1, <2>1, AcceptFacts
<1>3. CASE c.op # "Commit"
  <2>1. c.rev <= w.dirty
    BY <1>1, <1>3, Numbers
  <2>2. Processed(w, c) \in {RescheduleDebounce(w), RetryNow(w), w}
    BY <1>1, <1>3 DEF Processed
  <2>3. CASE Processed(w, c) = RescheduleDebounce(w)
    BY <2>1, <2>3, RescheduleFacts
  <2>4. CASE Processed(w, c) = RetryNow(w)
    BY <2>1, <2>4, RetryFacts
  <2>5. CASE Processed(w, c) = w
    BY <2>1, <2>5
  <2> QED
    BY <2>2, <2>3, <2>4, <2>5
<1> QED
  BY <1>2, <1>3

\* The worker takes a command: the snapshot of a commit, a control, or the
\* shutdown with the newest snapshot.
LEMMA CommandKeeps ==
  ASSUME IInv, UNCHANGED ownerVars, ReceiveCommand \/ ReadyCommand \/ ReceiveWhenFull
  PROVE  IInv'
<1> DEFINE c == Head(commands)
<1>1. /\ TypeOK /\ DiskOK /\ AttemptOK /\ DurableClaims /\ RevisionsOK /\ AckOK /\ StagesOK
      /\ RoomOK /\ WakeOK /\ NoLostWake /\ RetrySyncsWhatIsThere /\ LatestIsHeld
      /\ UNCHANGED <<disk, survivors, faults, sending, mail, appWake,
                     owner, events, committed, promised, boots, controls>>
      /\ commands # << >> /\ commands' = Tail(commands)
      /\ work.pc \in {"recv", "ready", "full"}
  BY DEF IInv, ReceiveCommand, ReadyCommand, ReceiveWhenFull, ProcessCommand, ownerVars, At
<1>2. /\ work \in WorkerStates /\ commands \in Seq(Commands) /\ Scheduled(work)
      /\ Len(commands) <= CommandCapacity
      /\ replace = NoReplace /\ ~work.closing
      /\ work.dirty \in Nat /\ work.durable \in Nat /\ Sent \in Nat /\ owner.latest \in Nat
      /\ Sent <= owner.latest
  <2>1. work.pc # "io"
    BY <1>1
  <2>2. replace = NoReplace
    BY <1>1, <2>1 DEF DiskOK, ReplaceOK
  <2>3. Sent <= owner.latest
    <3>1. owner.submitted <= owner.latest /\ owner.latest \in Nat
      BY <1>1, Ranges, Numbers DEF RevisionsOK
    <3> QED
      BY <3>1 DEF Sent
  <2> QED
    BY <1>1, <2>2, <2>3, Ranges, Numbers DEF TypeOK, WorkerTypeOK, AttemptOK, StagesOK
<1>3. /\ Len(commands) \in Nat \ {0} /\ DOMAIN commands = 1 .. Len(commands)
      /\ c = commands[1] /\ c \in Commands /\ 1 \in DOMAIN commands
      /\ commands' \in Seq(Commands) /\ Len(commands') = Len(commands) - 1
      /\ DOMAIN commands' = 1 .. Len(commands) - 1
      /\ \A i \in 1 .. Len(commands) - 1 : commands'[i] = commands[i + 1] /\ i + 1 \in DOMAIN commands
  BY <1>1, <1>2
<1> HIDE DEF c
<1>4. /\ c.rev \in Revisions /\ c.rev \in Nat /\ c.rev <= Sent
      /\ c.rev <= work.dirty \/ c.rev <= work.durable \/ Held(disk) < c.rev
      /\ c.op \notin {"Commit", "Shutdown"} => c.rev = None
  <2>1. c.rev \in Revisions
    BY <1>3 DEF Commands
  <2> QED
    BY <1>1, <1>3, <2>1, Numbers DEF RevisionsOK
<1>5. \/ /\ c.op = "Shutdown" /\ Close(c.rev)
      \/ /\ c.op # "Shutdown" /\ replace' = replace /\ ack' = ack
         /\ \E next \in {"recv", "ready"} : work' = [Processed(work, c) EXCEPT !.pc = next]
  BY DEF ReceiveCommand, ReadyCommand, ReceiveWhenFull, ProcessCommand, Processed, c
<1>6. Len(commands') <= CommandCapacity
  BY <1>2, <1>3, WorkerAssumption
<1>7. RoomOK /\ Len(mail.reports) < EventCapacity
  BY <1>1, <1>2 DEF RoomOK
\* What a new state of the worker keeps, whichever command brought it about.
<1>8. ASSUME work' \in WorkerStates, work'.durable = work.durable, work'.pc # "none",
             \/ /\ work'.dirty = work.dirty /\ work'.pending = work.pending
                /\ c.rev <= work.dirty \/ c.rev <= work.durable
             \/ /\ work'.dirty = c.rev /\ work'.pending = None
                /\ work.dirty < c.rev /\ work.durable < c.rev /\ c.rev # None
      PROVE  /\ RevisionsOK' /\ LatestIsHeld' /\ DurableClaims'
             /\ work'.dirty # None /\ work'.pending = None => Held(disk) < work'.dirty
             /\ work'.pending # None => work'.pending = work'.dirty /\ disk.target = work'.dirty
  <2>1. Sent' = Sent
    BY <1>1 DEF Sent
  <2>2. work'.dirty <= Sent /\ work'.durable <= Sent /\ work.dirty <= work'.dirty
    BY <1>1, <1>2, <1>4, <1>8 DEF RevisionsOK
  <2>3. ASSUME NEW i \in DOMAIN commands'
        PROVE  /\ commands'[i].rev <= Sent
               /\ commands'[i].op \notin {"Commit", "Shutdown"} => commands'[i].rev = None
               /\ \/ commands'[i].rev <= work'.dirty \/ commands'[i].rev <= work'.durable
                  \/ Held(disk) < commands'[i].rev
    <3>1. commands'[i] = commands[i + 1] /\ i + 1 \in DOMAIN commands
      BY <1>3
    <3>2. commands[i + 1].rev \in Nat
      BY <1>1, <3>1, Ranges, Numbers
    <3>3. /\ commands[i + 1].rev <= Sent
          /\ commands[i + 1].op \notin {"Commit", "Shutdown"} => commands[i + 1].rev = None
          /\ \/ commands[i + 1].rev <= work.dirty \/ commands[i + 1].rev <= work.durable
             \/ Held(disk) < commands[i + 1].rev
      BY <1>1, <3>1 DEF RevisionsOK
    <3>4. work'.dirty \in Nat
      BY <1>2, <1>4, <1>8
    <3> QED
      BY <1>2, <1>8, <2>2, <3>1, <3>2, <3>3, <3>4
  <2>4. RevisionsOK'
    BY <1>1, <2>1, <2>2, <2>3 DEF RevisionsOK
  <2>5. ASSUME owner.latest # None, owner.latest \in {owner.retained, work.dirty, work.durable}
                         \cup {commands[i].rev : i \in DOMAIN commands}
        PROVE  owner.latest \in {owner.retained, work'.dirty, work'.durable}
                         \cup {commands'[i].rev : i \in DOMAIN commands'}
    <3>1. CASE owner.latest \in {owner.retained, work.durable}
      BY <1>8, <3>1
    <3>2. CASE owner.latest = work.dirty
      BY <1>2, <1>4, <1>8, <3>2
    <3>3. CASE owner.latest \in {commands[i].rev : i \in DOMAIN commands}
      <4>1. PICK i \in DOMAIN commands : owner.latest = commands[i].rev
        BY <3>3
      <4>2. CASE i = 1
        <5>1. c.rev = owner.latest
          BY <1>3, <4>1, <4>2
        <5>2. work.dirty <= Sent /\ work.durable <= Sent
          BY <1>1 DEF RevisionsOK
        <5> QED
          BY <1>2, <1>8, <5>1, <5>2
      <4>3. CASE i # 1
        <5>1. i - 1 \in DOMAIN commands' /\ commands'[i - 1] = commands[i]
          BY <1>3, <4>1, <4>3
        <5> QED
          BY <4>1, <5>1
      <4> QED
        BY <4>2, <4>3
    <3> QED
      BY <2>5, <3>1, <3>2, <3>3
  <2>6. LatestIsHeld'
    BY <1>1, <2>5 DEF LatestIsHeld, OwnerAt
  <2>7. DurableClaims'
    BY <1>1, <1>8 DEF DurableClaims
  <2>8. ~Replaced(replace)
    BY <1>2 DEF Replaced, NoReplace
  <2>9. work'.dirty # None /\ work'.pending = None => Held(disk) < work'.dirty
    BY <1>1, <1>2, <1>4, <1>8, <2>8 DEF AttemptOK
  <2>10. work'.pending # None => work'.pending = work'.dirty /\ disk.target = work'.dirty
    BY <1>1, <1>8 DEF RetrySyncsWhatIsThere
  <2> QED
    BY <2>4, <2>6, <2>7, <2>9, <2>10
<1>9. \A i \in DOMAIN commands' :
         commands'[i].op = "Shutdown" => i = Len(commands') /\ ~sending
  BY <1>1, <1>3 DEF StagesOK
<1>10. owner.pc # "boot" /\ owner.outcome # "Completed"
  <2>1. [NewWorker EXCEPT !.pc = "none"].pc = "none"
    BY DEF NewWorker
  <2> QED
    BY <1>1, <2>1 DEF StagesOK
<1>11. owner.pc # "join"
  BY <1>1, <1>2 DEF StagesOK
<1>12. ShutdownTellsTheTruth'
  BY <1>1, <1>10 DEF ShutdownTellsTheTruth
<1>13. WakeOK' /\ NoTornFile'
  BY <1>1 DEF WakeOK, IInv, NoTornFile
<1>14. CASE c.op # "Shutdown" /\ replace' = replace /\ ack' = ack
            /\ \E next \in {"recv", "ready"} : work' = [Processed(work, c) EXCEPT !.pc = next]
  <2> DEFINE v == Processed(work, c)
  <2>1. /\ v \in WorkerStates /\ Scheduled(v) /\ v.closing = work.closing
        /\ v.durable = work.durable
        /\ \/ /\ v.dirty = work.dirty /\ v.pending = work.pending
              /\ c.rev <= work.dirty \/ c.rev <= work.durable
           \/ /\ v.dirty = c.rev /\ v.pending = None
              /\ work.dirty < c.rev /\ work.durable < c.rev /\ c.rev # None
    BY <1>2, <1>3, <1>4, <1>14, ProcessedFacts
  <2>2. PICK next \in {"recv", "ready"} : work' = [v EXCEPT !.pc = next]
    BY <1>14
  <2> HIDE DEF v
  <2>3. /\ work' \in WorkerStates /\ work'.pc = next
        /\ work'.dirty = v.dirty /\ work'.pending = v.pending /\ work'.durable = v.durable
        /\ work'.closing = v.closing /\ work'.attempt = v.attempt /\ work'.due = v.due
    BY <2>1, <2>2 DEF WorkerStates
  <2>4. /\ RevisionsOK' /\ LatestIsHeld' /\ DurableClaims'
        /\ work'.dirty # None /\ work'.pending = None => Held(disk) < work'.dirty
        /\ work'.pending # None => work'.pending = work'.dirty /\ disk.target = work'.dirty
    BY <1>8, <2>1, <2>3
  <2>5. Scheduled(work')
    BY <2>1, <2>3 DEF Scheduled
  <2>6. AttemptOK' /\ RetrySyncsWhatIsThere'
    BY <1>1, <2>3, <2>4, <2>5 DEF AttemptOK, RetrySyncsWhatIsThere
  <2>7. DiskOK' /\ TypeOK'
    BY <1>1, <1>2, <1>3, <1>6, <1>14, <2>3
    DEF DiskOK, ReplaceOK, NoReplace, TypeOK, FileTypeOK, WorkerTypeOK
  <2>8. AckOK' /\ RoomOK'
    BY <1>1, <1>2, <1>7, <2>1, <2>3 DEF AckOK, RoomOK
  <2>9. owner.pc \in {"ack", "join"} =>
           commands' # << >> /\ commands'[Len(commands')].op = "Shutdown"
    <3> SUFFICES ASSUME owner.pc \in {"ack", "join"}
                 PROVE  commands' # << >> /\ commands'[Len(commands')].op = "Shutdown"
      OBVIOUS
    <3>1. commands[Len(commands)].op = "Shutdown"
      BY <1>1, <1>2 DEF StagesOK
    <3>2. Len(commands) # 1
      BY <1>3, <1>14, <3>1
    <3>3. Len(commands') \in 1 .. Len(commands) - 1 /\ Len(commands') + 1 = Len(commands)
      BY <1>3, <3>2
    <3> QED
      BY <1>3, <3>1, <3>3
  <2>10. StagesOK'
    BY <1>1, <1>2, <1>9, <1>10, <1>11, <2>1, <2>3, <2>9 DEF StagesOK
  <2>11. NoLostWake'
    BY <1>1, <2>3 DEF NoLostWake, HasPendingPayload
  <2> QED
    BY <1>12, <1>13, <2>4, <2>6, <2>7, <2>8, <2>10, <2>11 DEF IInv
<1>15. CASE c.op = "Shutdown" /\ Close(c.rev)
  <2> DEFINE a == AcceptSnapshot(work, c.rev)
             w == RetryNow(a)
  <2>1. /\ a \in WorkerStates /\ Scheduled(a) /\ a.durable = work.durable
        /\ \/ a = work /\ (c.rev <= work.dirty \/ c.rev <= work.durable)
           \/ /\ a.dirty = c.rev /\ a.pending = None
              /\ work.dirty < c.rev /\ work.durable < c.rev /\ c.rev # None
    BY <1>2, <1>4, AcceptFacts
  <2>2. /\ w \in WorkerStates /\ Scheduled(w) /\ w.durable = work.durable
        /\ w.dirty = a.dirty /\ w.pending = a.pending
    BY <2>1, RetryFacts
  <2>3. \/ /\ w.dirty # None /\ work' = [w EXCEPT !.pc = "io", !.closing = TRUE]
           /\ replace' = Begun(w) /\ ack' = ack
        \/ /\ w.dirty = None /\ work' = [w EXCEPT !.pc = "ack", !.closing = TRUE]
           /\ ack' = [NoCompletion EXCEPT
                         !.kind = IF w.durable = None THEN "NoCommittedSnapshot"
                                  ELSE "AlreadyDurable",
                         !.rev = w.durable]
           /\ replace' = replace
    BY <1>15 DEF Close, BeginAttempt, BeginDirectorySync, BeginReplace, Begun
  <2> HIDE DEF w, a
  <2>4. /\ work' \in WorkerStates /\ work'.closing /\ work'.pc \in {"io", "ack"}
        /\ work'.dirty = w.dirty /\ work'.pending = w.pending /\ work'.durable = w.durable
        /\ work'.attempt = w.attempt /\ work'.due = w.due
    BY <2>2, <2>3 DEF WorkerStates
  <2>5. \/ /\ work'.dirty = work.dirty /\ work'.pending = work.pending
           /\ c.rev <= work.dirty \/ c.rev <= work.durable
        \/ /\ work'.dirty = c.rev /\ work'.pending = None
           /\ work.dirty < c.rev /\ work.durable < c.rev /\ c.rev # None
    BY <2>1, <2>2, <2>4
  <2>6. /\ RevisionsOK' /\ LatestIsHeld' /\ DurableClaims'
        /\ work'.dirty # None /\ work'.pending = None => Held(disk) < work'.dirty
        /\ work'.pending # None => work'.pending = work'.dirty /\ disk.target = work'.dirty
    BY <1>8, <2>2, <2>4, <2>5
  <2>7. Scheduled(work')
    BY <2>2, <2>4 DEF Scheduled
  <2>8. commands' = << >> /\ ~sending
    <3>1. Len(commands) = 1 /\ ~sending
      BY <1>1, <1>3, <1>15 DEF StagesOK
    <3> QED
      BY <1>3, <3>1, EmptySeq
  <2>9. /\ FileTypeOK' /\ ReplaceOK' /\ AttemptOK' /\ RetrySyncsWhatIsThere'
        /\ replace'.step # "idle" <=> work'.pc = "io"
    <3>1. CASE w.dirty # None /\ work'.pc = "io" /\ replace' = Begun(w)
      <4>1. /\ replace' \in [step : {"idle", "write", "syncTemp", "rename", "syncDir", "done"},
                             of : 0 .. MaxSnapshots, synced : BOOLEAN,
                             outcome : {"none", "NotReplaced", "Unconfirmed", "Durable"}]
            /\ replace'.step \in {"syncDir", "write"} /\ replace'.outcome = "none"
            /\ w.pending # None => Replaced(replace')
            /\ ~Replaced(replace') => w.pending = None /\ replace'.of = w.dirty
        BY <2>2, <3>1, BegunFacts
      <4>2. Replaced(replace') => w.pending # None
        <5>1. replace' = IF w.pending # None THEN [NoReplace EXCEPT !.step = "syncDir"]
                         ELSE [NoReplace EXCEPT !.step = "write", !.of = w.dirty]
          BY <2>2, <3>1 DEF Begun, Scheduled
        <5> QED
          BY <5>1 DEF Replaced, NoReplace
      <4>3. FileTypeOK' /\ ReplaceOK'
        BY <1>1, <4>1 DEF TypeOK, FileTypeOK, ReplaceOK
      <4>4. AttemptOK' /\ RetrySyncsWhatIsThere'
        BY <1>1, <2>4, <2>6, <2>7, <3>1, <4>1, <4>2 DEF AttemptOK, RetrySyncsWhatIsThere
      <4> QED
        BY <3>1, <4>1, <4>3, <4>4
    <3>2. CASE w.dirty = None /\ work'.pc = "ack" /\ replace' = replace
      <4>1. FileTypeOK' /\ ReplaceOK'
        BY <1>1, <3>2 DEF TypeOK, FileTypeOK, DiskOK, ReplaceOK
      <4>2. AttemptOK' /\ RetrySyncsWhatIsThere'
        BY <1>1, <2>4, <2>6, <2>7, <3>2 DEF AttemptOK, RetrySyncsWhatIsThere
      <4> QED
        BY <1>2, <3>2, <4>1, <4>2 DEF NoReplace
    <3> QED
      BY <2>2, <2>3, <3>1, <3>2 DEF WorkerStates
  <2>10. ack' \in Completions
    <3>1. ack \in Completions /\ w.durable \in Revisions
      BY <1>1, <2>2 DEF TypeOK, WorkerTypeOK, WorkerStates
    <3> QED
      BY <2>3, <3>1 DEF NoCompletion, Completions
  <2>11. TypeOK'
    BY <1>1, <1>3, <1>6, <2>4, <2>9, <2>10 DEF TypeOK, WorkerTypeOK
  <2>12. DiskOK'
    BY <1>1, <2>9 DEF DiskOK
  <2>13. AckOK'
    BY <2>2, <2>3, <2>4 DEF AckOK, NoCompletion, WorkerStates
  <2>14. RoomOK'
    BY <1>1, <1>7, <2>4 DEF RoomOK
  <2>15. StagesOK'
    BY <1>1, <1>2, <1>9, <1>10, <1>11, <2>4, <2>8 DEF StagesOK
  <2>16. NoLostWake'
    BY <1>1 DEF NoLostWake, HasPendingPayload
  <2> QED
    BY <1>12, <1>13, <2>6, <2>9, <2>11, <2>12, <2>13, <2>14, <2>15, <2>16 DEF IInv
<1> QED
  BY <1>5, <1>14, <1>15

\* The attempt ends: its outcome is applied, reported and, on the way out, told
\* to the owner.  Only a synced directory makes the snapshot durable.
LEMMA AttemptCompletesKeeps ==
  ASSUME IInv, UNCHANGED ownerVars, AttemptCompletes
  PROVE  IInv'
<1> DEFINE o == replace.outcome
           w == ApplyOutcome(work, o)
           report == [rev |-> work.dirty, outcome |-> o]
<1>1. /\ TypeOK /\ FileTypeOK /\ DiskOK /\ AttemptOK /\ DurableClaims /\ RevisionsOK
      /\ StagesOK /\ RoomOK /\ WakeOK /\ LatestIsHeld /\ NoTornFile
      /\ UNCHANGED <<disk, survivors, faults, commands, sending, appWake,
                     owner, events, committed, promised, boots, controls>>
      /\ work.pc = "io" /\ replace.step = "done" /\ replace' = NoReplace
      /\ work' = [w EXCEPT !.pc = "edge"]
      /\ mail' = IF Len(mail.reports) < EventCapacity
                 THEN [mail EXCEPT !.reports = Append(@, report)] ELSE mail
      /\ ack' = IF work.closing
                THEN [kind |-> "Attempted", rev |-> work.dirty, outcome |-> o] ELSE ack
  BY DEF IInv, TypeOK, AttemptCompletes, ownerVars, At
<1>2. /\ work \in WorkerStates /\ mail \in Mailboxes /\ mail.reports \in Seq(Reports)
      /\ Len(mail.reports) \in Nat /\ Len(mail.reports) <= EventCapacity
      /\ work.dirty \in Revisions /\ work.dirty # None /\ work.dirty \in Nat
      /\ work.dirty \in Snapshots /\ work.durable \in Nat /\ work.durable \in Revisions
      /\ Sent \in Nat /\ owner.latest \in Nat /\ disk \in survivors
      /\ work.closing \in BOOLEAN /\ ack \in Completions
      /\ Scheduled(work) /\ work.durable < work.dirty
      /\ EventCapacity \in Nat
  <2>1. /\ work \in WorkerStates /\ mail \in Mailboxes /\ mail.reports \in Seq(Reports)
        /\ work.dirty \in Revisions /\ work.durable \in Revisions /\ Sent \in Revisions
        /\ owner.latest \in Revisions /\ disk \in survivors
        /\ work.closing \in BOOLEAN /\ ack \in Completions
    BY <1>1, Ranges
  <2>2. Len(mail.reports) \in Nat /\ Len(mail.reports) <= EventCapacity /\ EventCapacity \in Nat
    BY <1>1, <2>1, WorkerAssumption DEF TypeOK, WorkerTypeOK
  <2>3. work.dirty # None /\ Scheduled(work) /\ work.durable < work.dirty
    BY <1>1 DEF AttemptOK, Scheduled
  <2> QED
    BY <2>1, <2>2, <2>3, Numbers
<1>3. o \in {"NotReplaced", "Unconfirmed", "Durable"}
  BY <1>1 DEF DiskOK, ReplaceOK, FileTypeOK
<1>4. /\ w \in WorkerStates /\ Scheduled(w) /\ w.closing = work.closing
      /\ o = "Durable" => w.durable = work.dirty /\ w.dirty = None /\ w.pending = None
      /\ o # "Durable" => w.durable = work.durable /\ w.dirty = work.dirty
      /\ o = "Unconfirmed" => w.pending = work.dirty
      /\ o = "NotReplaced" => w.pending = None
  BY <1>2, <1>3, OutcomeFacts
<1> HIDE DEF w
<1>5. /\ work' \in WorkerStates /\ work'.pc = "edge" /\ work'.closing = work.closing
      /\ work'.dirty = w.dirty /\ work'.durable = w.durable /\ work'.pending = w.pending
      /\ work'.attempt = w.attempt /\ work'.due = w.due
  BY <1>1, <1>4 DEF WorkerStates
<1>6. Len(mail.reports) < EventCapacity
      /\ (~work.closing => Len(mail.reports) + 1 < EventCapacity)
  BY <1>1, <1>2 DEF RoomOK
<1>7. report \in Reports /\ report.rev = work.dirty /\ report.outcome = o
  BY <1>2, <1>3 DEF Reports
<1> HIDE DEF report
<1>8. /\ mail' \in Mailboxes /\ mail'.reports = Append(mail.reports, report)
      /\ mail'.wake = mail.wake /\ mail'.warningPending = mail.warningPending
  <2>1. mail' = [mail EXCEPT !.reports = Append(mail.reports, report)]
    BY <1>1, <1>2, <1>6 DEF Mailboxes
  <2>2. Append(mail.reports, report) \in Seq(Reports)
    BY <1>2, <1>7
  <2> QED
    BY <1>2, <2>1, <2>2 DEF Mailboxes
<1>9. /\ Len(mail'.reports) = Len(mail.reports) + 1
      /\ \A i \in DOMAIN mail'.reports :
            \/ i \in DOMAIN mail.reports /\ mail'.reports[i] = mail.reports[i]
            \/ mail'.reports[i] = report
  BY <1>2, <1>7, <1>8
<1>10. Replaced(replace) <=> o # "NotReplaced"
  BY <1>1, <1>3 DEF Replaced
<1>11. /\ o # "NotReplaced" => disk.target = work.dirty
       /\ o = "NotReplaced" => Held(disk) < work.dirty /\ disk.target # work.dirty
       /\ o = "Durable" => survivors = {disk} /\ Reached(survivors, work.dirty)
  <2>1. o # "NotReplaced" => disk.target = work.dirty
    BY <1>1, <1>10 DEF AttemptOK
  <2>2. o = "NotReplaced" => Held(disk) < work.dirty
    BY <1>1, <1>2, <1>10 DEF AttemptOK
  <2>3. disk.target = work.dirty => Held(disk) = work.dirty
    BY <1>2, HeldRevision
  <2>4. o = "Durable" => survivors = {disk}
    BY <1>1 DEF AttemptOK
  <2>5. o = "Durable" => Reached(survivors, work.dirty)
    BY <1>2, <2>1, <2>3, <2>4 DEF Reached
  <2> QED
    BY <1>2, <2>1, <2>2, <2>3, <2>4, <2>5
<1>12. ack' \in Completions
  BY <1>1, <1>2, <1>3 DEF Completions
<1>13. FileTypeOK' /\ ReplaceOK' /\ replace'.step = "idle"
  BY <1>1, FileAssumption DEF FileTypeOK, ReplaceOK, NoReplace
<1>14. TypeOK'
  <2>1. Len(mail'.reports) <= EventCapacity
    BY <1>2, <1>6, <1>9
  <2> QED
    BY <1>1, <1>5, <1>8, <1>12, <1>13, <2>1 DEF TypeOK, WorkerTypeOK
<1>15. DiskOK' /\ NoTornFile'
  BY <1>1, <1>5, <1>13 DEF DiskOK, NoTornFile
<1>16. Scheduled(work')
  BY <1>4, <1>5 DEF Scheduled
<1>17. AttemptOK' /\ RetrySyncsWhatIsThere'
  BY <1>1, <1>2, <1>3, <1>4, <1>5, <1>11, <1>16 DEF AttemptOK, RetrySyncsWhatIsThere
<1>18. DurableClaims'
  <2>1. Reached(survivors, work'.durable)
    BY <1>1, <1>3, <1>4, <1>5, <1>11 DEF DurableClaims
  <2>2. \A i \in DOMAIN mail'.reports :
          mail'.reports[i].outcome = "Durable" => Reached(survivors, mail'.reports[i].rev)
    BY <1>1, <1>7, <1>9, <1>11 DEF DurableClaims
  <2> QED
    BY <1>1, <2>1, <2>2 DEF DurableClaims
<1>19. RevisionsOK'
  <2>1. Sent' = Sent
    BY <1>1 DEF Sent
  <2>2. work'.dirty <= Sent /\ work'.durable <= Sent
    BY <1>1, <1>2, <1>3, <1>4, <1>5, Numbers DEF RevisionsOK
  <2>3. ASSUME NEW i \in DOMAIN commands
        PROVE  \/ commands[i].rev <= work'.dirty \/ commands[i].rev <= work'.durable
               \/ Held(disk) < commands[i].rev
    <3>1. \/ commands[i].rev <= work.dirty \/ commands[i].rev <= work.durable
          \/ Held(disk) < commands[i].rev
      BY <1>1 DEF RevisionsOK
    <3>2. commands[i].rev \in Nat
      BY <1>1, Ranges, Numbers
    <3> QED
      BY <1>2, <1>3, <1>4, <1>5, <3>1, <3>2
  <2> QED
    BY <1>1, <2>1, <2>2, <2>3 DEF RevisionsOK
<1>20. LatestIsHeld'
  <2>1. Sent <= owner.latest
    <3>1. owner.submitted <= owner.latest
      BY <1>1 DEF RevisionsOK
    <3> QED
      BY <1>2, <3>1 DEF Sent
  <2>2. work.dirty <= Sent
    BY <1>1 DEF RevisionsOK
  <2>3. owner.latest # work.durable
    BY <1>2, <2>1, <2>2
  <2>4. {work.dirty} \subseteq {work'.dirty, work'.durable}
    BY <1>3, <1>4, <1>5
  <2> QED
    BY <1>1, <2>3, <2>4 DEF LatestIsHeld, OwnerAt
<1>21. AckOK'
  BY <1>1, <1>2, <1>3, <1>4, <1>5, <1>11 DEF AckOK
<1>22. owner.pc # "boot" /\ owner.pc # "join" /\ owner.outcome # "Completed"
  <2>1. [NewWorker EXCEPT !.pc = "none"].pc = "none"
    BY DEF NewWorker
  <2> QED
    BY <1>1, <2>1 DEF StagesOK
<1>23. StagesOK'
  BY <1>1, <1>5, <1>22 DEF StagesOK
<1>24. RoomOK' /\ WakeOK' /\ NoLostWake' /\ ShutdownTellsTheTruth'
  BY <1>1, <1>2, <1>5, <1>6, <1>8, <1>9, <1>22
  DEF RoomOK, WakeOK, NoLostWake, HasPendingPayload, ShutdownTellsTheTruth
<1> QED
  BY <1>14, <1>15, <1>17, <1>18, <1>19, <1>20, <1>21, <1>23, <1>24 DEF IInv

\* Every step of the worker's thread.
LEMMA WorkerKeeps ==
  ASSUME IInv, WorkerNext
  PROVE  IInv'
<1>1. UNCHANGED ownerVars
  BY DEF WorkerNext
<1>2. CASE NotDue \/ WaitForDrain \/ Acknowledge \/ ThreadExits \/ Disconnected
           \/ DeadlineReached \/ ExecuteAttempt
           \/ PublishAttemptEdge \/ PublishWarning \/ PublishWarningEdge
  BY <1>1, <1>2, WorkerMoves
<1>3. CASE ReceiveCommand \/ ReadyCommand \/ ReceiveWhenFull
  BY <1>1, <1>3, CommandKeeps
<1>4. CASE FileOperation
  BY <1>1, <1>4, FileOperationKeeps
<1>5. CASE AttemptCompletes
  BY <1>1, <1>5, AttemptCompletesKeeps
<1> QED
  BY <1>2, <1>3, <1>4, <1>5 DEF WorkerNext, WorkerStep

-----------------------------------------------------------------------------
(* The steps of the owner *)

\* A process starts over whatever file it finds, or leaves it alone; a file it
\* cannot read is out of the way before there is a worker.
LEMMA StartKeeps ==
  ASSUME IInv, StartPersistent \/ StartQuarantined \/ StartBlocked
  PROVE  IInv'
<1>1. /\ TypeOK /\ FileTypeOK /\ DiskOK /\ StagesOK /\ DurableClaims /\ NoTornFile
      /\ owner.pc = "boot"
      /\ UNCHANGED <<replace, faults, commands, sending, mail, ack, appWake,
                     events, committed, promised, boots, controls>>
  BY DEF IInv, TypeOK, StartPersistent, StartQuarantined, StartBlocked, SetAside, OwnerAt,
     fileVars, workerVars
<1>2. /\ owner = NewOwner /\ commands = << >> /\ sending
      /\ work = [NewWorker EXCEPT !.pc = "none"] /\ mail = EmptyMailbox
      /\ events = NoEvents /\ ~appWake
  BY <1>1 DEF StagesOK
<1>3. /\ work \in WorkerStates /\ work.pc = "none" /\ ~work.closing /\ work.dirty = None
      /\ work.durable = None /\ work.pending = None /\ work.attempt = "none" /\ ~work.due
  BY <1>1, <1>2, Ranges DEF NewWorker
<1>4. /\ owner \in OwnerStates /\ owner.latest = None /\ owner.retained = None
      /\ owner.submitted = None /\ owner.durability = "NoCommittedSnapshot"
      /\ owner.outcome = "none" /\ owner.rev = None
  BY <1>1, <1>2, Ranges DEF NewOwner
<1>5. /\ mail.reports = << >> /\ ~mail.warningPending /\ ~mail.wake
      /\ events.reports = << >>
      /\ DOMAIN mail.reports = {} /\ DOMAIN events.reports = {} /\ DOMAIN commands = {}
      /\ Len(mail.reports) = 0
  BY <1>2 DEF EmptyMailbox, NoEvents
<1>6. /\ work' \in WorkerStates /\ work'.pc \in {"recv", "none"} /\ ~work'.closing
      /\ work'.dirty = None /\ work'.durable = None /\ work'.pending = None
      /\ work'.attempt = "none" /\ ~work'.due
  <2>1. CASE StartBlocked
    BY <1>3, <2>1 DEF StartBlocked, workerVars
  <2>2. CASE StartWorker
    <3>1. PICK pc \in {"recv", "none"} : work' = [NewWorker EXCEPT !.pc = pc]
      BY <2>2 DEF StartWorker
    <3>2. work' = [work EXCEPT !.pc = pc]
      BY <1>2, <3>1 DEF NewWorker
    <3> QED
      BY <1>3, <3>2 DEF WorkerStates
  <2> QED
    BY <2>1, <2>2 DEF StartPersistent, StartQuarantined
<1>7. /\ owner' \in OwnerStates /\ owner'.pc = "idle" /\ owner'.latest = None
      /\ owner'.retained = None /\ owner'.submitted = None
      /\ owner'.durability = "NoCommittedSnapshot" /\ owner'.outcome = "none"
  BY <1>4 DEF StartPersistent, StartQuarantined, StartBlocked, StartWorker, OwnerStates
<1>8. disk \in survivors /\ disk \in Directories /\ survivors \subseteq Directories
      /\ disk.target # Torn /\ replace = NoReplace /\ replace.step = "idle"
  <2>1. replace = NoReplace /\ replace.step = "idle"
    BY <1>1, <1>3 DEF DiskOK, ReplaceOK, NoReplace
  <2> QED
    BY <1>1, <2>1 DEF FileTypeOK, NoTornFile
<1>9. /\ FileTypeOK' /\ NoTornFile' /\ DiskOK'
      /\ \A r \in Revisions : Reached(survivors, r) => Reached(survivors', r)
  <2>1. ReplaceOK' /\ (replace'.step # "idle" <=> work'.pc = "io")
    BY <1>1, <1>6, <1>8 DEF DiskOK, ReplaceOK
  <2>2. CASE disk' = disk /\ survivors' = survivors
             /\ (work'.pc # "none" => disk.target \in {Missing} \cup Snapshots)
    <3>1. work'.pc # "none" => disk'.target \notin {Corrupt, Newer}
      BY <2>2, ContentKinds, FileAssumption DEF Missing, Corrupt, Newer
    <3>2. DiskOK'
      BY <1>1, <2>1, <2>2, <3>1 DEF DiskOK
    <3> QED
      BY <1>1, <2>2, <3>2 DEF FileTypeOK, NoTornFile
  <2>3. CASE SetAside /\ disk.target \in {Corrupt, Torn}
    <3>1. disk.target = Corrupt
      BY <1>8, <2>3
    <3>2. /\ disk' = [target |-> Missing, aside |-> Corrupt] /\ disk' \in Directories
          /\ survivors' = survivors \cup {disk'}
      BY <2>3, <3>1, ContentKinds DEF SetAside, Directories
    <3>3. Held(disk) = 0 /\ Held(disk') = 0
      BY <3>1, <3>2, HeldRevision, ContentKinds
    <3>4. Missing # Newer /\ Missing # Corrupt /\ Corrupt # Newer
      BY FileAssumption DEF Missing, Newer, Corrupt
    <3>5. FileTypeOK'
      BY <1>1, <3>2 DEF FileTypeOK
    <3>6. NoTornFile'
      BY <1>1, <3>2, ContentKinds DEF NoTornFile
    <3>7. \A d \in survivors' : Held(d) <= Held(disk')
      BY <1>1, <3>2, <3>3 DEF DiskOK
    <3>8. \A d \in survivors' : \A c \in {Corrupt, Newer} :
             c \in {disk'.target, disk'.aside} => c \in {d.target, d.aside}
      BY <1>1, <3>1, <3>2, <3>4 DEF DiskOK
    <3>9. Held(disk') <= committed
      BY <1>1, <3>3 DEF DiskOK
    <3>10. DiskOK'
      BY <1>1, <2>1, <3>2, <3>4, <3>7, <3>8, <3>9 DEF DiskOK
    <3>11. \A r \in Revisions : Reached(survivors, r) => Reached(survivors', r)
      <4> SUFFICES ASSUME NEW r \in Revisions, Reached(survivors, r)
                   PROVE  Reached(survivors', r)
        OBVIOUS
      <4>1. \A d \in survivors' : d \in survivors \/ \E e \in survivors : Held(e) <= Held(d)
        BY <1>8, <3>2, <3>3
      <4> QED
        BY <4>1, ReachedLater
    <3> QED
      BY <3>5, <3>6, <3>10, <3>11
  <2>4. CASE StartBlocked
    BY <1>3, <2>2, <2>4 DEF StartBlocked, fileVars, workerVars
  <2> QED
    BY <2>2, <2>3, <2>4 DEF StartPersistent, StartQuarantined, fileVars
<1>10. TypeOK'
  BY <1>1, <1>6, <1>7, <1>9 DEF TypeOK, WorkerTypeOK
<1>11. AttemptOK' /\ RetrySyncsWhatIsThere' /\ AckOK'
  BY <1>6, Numbers DEF AttemptOK, Scheduled, RetrySyncsWhatIsThere, AckOK
<1>12. DurableClaims'
  <2>1. Reached(survivors', promised)
    BY <1>1, <1>9, Ranges DEF DurableClaims
  <2>2. Reached(survivors', None)
    BY Numbers, HeldRevision DEF Reached
  <2> QED
    BY <1>1, <1>5, <1>6, <1>7, <2>1, <2>2 DEF DurableClaims
<1>13. RevisionsOK' /\ LatestIsHeld'
  BY <1>1, <1>2, <1>5, <1>6, <1>7, Numbers DEF RevisionsOK, LatestIsHeld, Sent
<1>14. StagesOK'
  BY <1>1, <1>2, <1>5, <1>6, <1>7 DEF StagesOK
<1>15. RoomOK'
  BY <1>1, <1>5, <1>6, WorkerAssumption DEF RoomOK
<1>16. WakeOK' /\ NoLostWake' /\ ShutdownTellsTheTruth'
  BY <1>1, <1>5, <1>7 DEF WakeOK, NoLostWake, HasPendingPayload, ShutdownTellsTheTruth
<1> QED
  BY <1>9, <1>10, <1>11, <1>12, <1>13, <1>14, <1>15, <1>16 DEF IInv

\* The owner moves on, or gives up, with what it has: the file, the worker and
\* the snapshots stay as they are.
LEMMA OwnerMoves ==
  ASSUME IInv,
         \/ ClearWakePending \/ RepublishEdge \/ CaptureFails \/ ReceiveAcknowledgement
         \/ AcknowledgementTimesOut \/ ShutdownWithoutWorker \/ AdmissionTimesOut
  PROVE  IInv'
<1>1. /\ TypeOK /\ DiskOK /\ AttemptOK /\ DurableClaims /\ RevisionsOK /\ AckOK /\ StagesOK
      /\ RoomOK /\ WakeOK /\ NoLostWake /\ RetrySyncsWhatIsThere /\ LatestIsHeld /\ NoTornFile
      /\ UNCHANGED <<disk, survivors, replace, faults, commands, work, ack, events,
                     committed, promised, boots, controls>>
  BY DEF IInv, ClearWakePending, RepublishEdge, CaptureFails, ReceiveAcknowledgement,
     AcknowledgementTimesOut, ShutdownWithoutWorker, AdmissionTimesOut, Ends, fileVars, workerVars
<1>2. /\ owner \in OwnerStates /\ mail \in Mailboxes /\ appWake \in BOOLEAN /\ sending \in BOOLEAN
      /\ None \in Revisions
  BY <1>1, Numbers DEF TypeOK, WorkerTypeOK
<1>3. /\ owner' \in OwnerStates
      /\ owner'.latest = owner.latest /\ owner'.submitted = owner.submitted
      /\ owner'.durability = owner.durability /\ owner'.rev = owner.rev
      /\ owner'.retained = owner.retained \/ owner'.retained = None
  BY <1>2 DEF ClearWakePending, RepublishEdge, CaptureFails, ReceiveAcknowledgement,
     AcknowledgementTimesOut, ShutdownWithoutWorker, AdmissionTimesOut, Ends, OwnerStates
<1>4. \/ /\ sending' = sending /\ owner'.outcome = owner.outcome
         /\ owner'.retained = owner.retained
         /\ \/ /\ owner.pc = "flag" /\ owner'.pc = "edge" /\ owner'.uncaptured = owner.uncaptured
               /\ mail' = [mail EXCEPT !.wake = FALSE] /\ appWake' = appWake
            \/ /\ owner.pc = "edge" /\ owner'.pc = "resume"
               /\ owner'.uncaptured = owner.uncaptured
               /\ IF HasPendingPayload THEN WakeEdge ELSE UNCHANGED <<mail, appWake>>
            \/ /\ owner.pc = "idle" /\ owner'.pc = "idle" /\ UNCHANGED <<mail, appWake>>
            \/ /\ owner.pc = "ack" /\ owner'.pc = "join" /\ work.pc \in {"acked", "exited"}
               /\ owner'.uncaptured = owner.uncaptured /\ UNCHANGED <<mail, appWake>>
      \/ /\ owner'.pc = "ended" /\ owner'.outcome \notin {"none", "Completed"}
         /\ UNCHANGED <<mail, appWake>>
         /\ \/ owner.pc = "ack" /\ sending' = sending /\ owner'.retained = owner.retained
            \/ /\ owner.pc = "idle" /\ work.pc = "none" /\ sending' = sending
               /\ owner'.retained = None
            \/ owner.pc = "admit" /\ sending' = FALSE /\ owner'.retained = None
  BY <1>2 DEF ClearWakePending, RepublishEdge, CaptureFails, ReceiveAcknowledgement,
     AcknowledgementTimesOut, ShutdownWithoutWorker, AdmissionTimesOut, Ends, OwnerStates,
     OwnerAt, workerVars, HasWorker
<1>5. /\ mail' \in Mailboxes /\ mail'.reports = mail.reports /\ appWake' \in BOOLEAN
      /\ sending' \in BOOLEAN
      /\ mail'.warningPending = mail.warningPending /\ (appWake => appWake')
      /\ mail'.wake => appWake' \/ owner'.pc = "flag"
      /\ owner.pc = "edge" /\ HasPendingPayload => appWake'
  <2>1. CASE WakeEdge /\ owner.pc = "edge"
    <3>1. mail' = [mail EXCEPT !.wake = TRUE] /\ appWake' = (appWake \/ ~mail.wake)
      BY <2>1 DEF WakeEdge
    <3>2. /\ mail' \in Mailboxes /\ mail'.reports = mail.reports
          /\ mail'.warningPending = mail.warningPending
      BY <1>2, <3>1 DEF Mailboxes
    <3>3. mail.wake => appWake
      BY <1>1, <2>1 DEF WakeOK
    <3>4. appWake' /\ appWake' \in BOOLEAN
      BY <1>2, <3>1, <3>3
    <3>5. sending' \in BOOLEAN
      BY <1>2, <1>4, <2>1
    <3> QED
      BY <3>2, <3>4, <3>5
  <2>2. CASE mail' = [mail EXCEPT !.wake = FALSE] /\ appWake' = appWake /\ owner.pc = "flag"
    BY <1>2, <1>4, <2>2 DEF Mailboxes
  <2>3. CASE UNCHANGED <<mail, appWake>> /\ (owner.pc = "edge" => ~HasPendingPayload)
             /\ owner.pc # "flag"
    <3>1. sending' \in BOOLEAN
      BY <1>2, <1>4
    <3>2. mail.wake => appWake
      BY <1>1, <2>3 DEF WakeOK
    <3> QED
      BY <1>2, <2>3, <3>1, <3>2
  <2> QED
    BY <1>4, <2>1, <2>2, <2>3
<1>6. TypeOK'
  BY <1>1, <1>3, <1>5 DEF TypeOK, FileTypeOK, WorkerTypeOK
<1>7. DiskOK' /\ NoTornFile' /\ AttemptOK' /\ RetrySyncsWhatIsThere' /\ AckOK'
  BY <1>1 DEF DiskOK, ReplaceOK, NoTornFile, AttemptOK, RetrySyncsWhatIsThere, AckOK
<1>8. DurableClaims'
  BY <1>1, <1>3, <1>5 DEF DurableClaims
<1>9. /\ owner.latest \in Nat /\ owner.submitted \in Nat /\ owner.submitted <= owner.latest
      /\ work.dirty \in Nat /\ work.durable \in Nat /\ Sent \in Nat
      /\ \A i \in DOMAIN commands : commands[i].rev \in Nat
  BY <1>1, Ranges, Numbers DEF RevisionsOK
<1>10. RevisionsOK'
  <2>1. Sent \in Nat /\ Sent' \in Nat /\ Sent <= Sent'
    BY <1>3, <1>4, <1>9 DEF Sent
  <2>2. owner'.retained # None => owner'.retained = owner.retained /\ sending' = sending
    BY <1>3, <1>4
  <2>3. \A i \in DOMAIN commands : commands[i].rev <= Sent'
    BY <1>1, <1>9, <2>1 DEF RevisionsOK
  <2>4. work.dirty <= Sent' /\ work.durable <= Sent'
    BY <1>1, <1>9, <2>1 DEF RevisionsOK
  <2>5. owner'.retained # None =>
          /\ owner'.retained = owner'.latest /\ owner'.submitted < owner'.latest
          /\ sending' /\ Held(disk) < owner'.retained
    BY <1>1, <1>3, <2>2 DEF RevisionsOK
  <2> QED
    BY <1>1, <1>3, <1>9, <2>3, <2>4, <2>5 DEF RevisionsOK
<1>11. LatestIsHeld'
  BY <1>1, <1>3, <1>4 DEF LatestIsHeld, OwnerAt
<1>12. StagesOK'
  <2>1. /\ owner.pc # "boot" /\ owner'.pc # "boot" /\ owner.pc # "ended"
    BY <1>4
  <2>2. owner.outcome = "none"
    BY <1>1, <2>1 DEF StagesOK
  <2>3. owner.pc = "admit" => work.pc # "none" /\ work.pc # "exited"
    BY <1>1 DEF StagesOK
  <2>4. sending' <=> owner'.pc \notin {"ack", "join", "ended"} \/ work.pc = "none"
    BY <1>1, <1>4, <2>3 DEF StagesOK
  <2>5. owner'.pc = "join" => work.closing /\ work.pc \in {"acked", "exited"}
    BY <1>1, <1>4 DEF StagesOK
  <2>6. sending' => sending
    BY <1>4
  <2>7. owner'.outcome # "none" <=> owner'.pc = "ended"
    BY <1>4, <2>2
  <2>8. owner'.outcome # "Completed"
    BY <1>4, <2>2
  <2>9. work.pc = "exited" => ~sending' /\ (work.closing \/ owner'.pc = "ended")
    BY <1>1, <2>1, <2>6 DEF StagesOK
  <2>10. work.closing =>
          /\ commands = << >> /\ ~sending'
          /\ work.pc \notin {"none", "recv", "ready", "full"}
    BY <1>1, <2>6 DEF StagesOK
  <2>11. owner'.pc \in {"ack", "join"} => owner.pc = "ack"
    BY <1>4
  <2>12. owner'.pc \in {"flag", "edge", "resume", "apply", "admit"} =>
            owner.pc \in {"flag", "edge", "resume", "apply", "admit"}
    BY <1>4
  <2> QED
    BY <1>1, <2>1, <2>4, <2>5, <2>6, <2>7, <2>8, <2>9, <2>10, <2>11, <2>12 DEF StagesOK
<1>13. RoomOK' /\ WakeOK'
  BY <1>1, <1>5 DEF RoomOK, WakeOK
<1>14. NoLostWake'
  BY <1>1, <1>4, <1>5 DEF NoLostWake, HasPendingPayload
<1>15. ShutdownTellsTheTruth'
  BY <1>1, <1>4 DEF ShutdownTellsTheTruth, StagesOK
<1> QED
  BY <1>6, <1>7, <1>8, <1>10, <1>11, <1>12, <1>13, <1>14, <1>15 DEF IInv

\* The drain takes the reports with their claims, and leaves a mailbox that
\* needs no wake.
LEMMA DrainKeeps ==
  ASSUME IInv, BeginShutdown \/ DrainPersistence
  PROVE  IInv'
<1>1. /\ TypeOK /\ DiskOK /\ AttemptOK /\ DurableClaims /\ RevisionsOK /\ AckOK /\ StagesOK
      /\ RoomOK /\ RetrySyncsWhatIsThere /\ LatestIsHeld /\ NoTornFile
      /\ owner.pc = "idle" /\ work.pc # "none" /\ appWake' = FALSE
      /\ events' = [reports |-> mail.reports, changed |-> mail.warningPending,
                    warning |-> mail.warning]
      /\ mail' = [mail EXCEPT !.reports = << >>, !.warningPending = FALSE]
      /\ UNCHANGED <<disk, survivors, replace, faults, commands, sending, work, ack,
                     committed, promised, boots, controls>>
  BY DEF IInv, BeginShutdown, DrainPersistence, Drain, OwnerAt, HasWorker, fileVars
<1>2. owner \in OwnerStates /\ mail \in Mailboxes
  BY <1>1, Ranges
<1>3. PICK quit \in BOOLEAN : owner' = [owner EXCEPT !.pc = "flag", !.quitting = quit]
  BY DEF BeginShutdown, DrainPersistence, Drain
<1>4. /\ owner' \in OwnerStates /\ owner'.pc = "flag" /\ owner'.latest = owner.latest
      /\ owner'.submitted = owner.submitted /\ owner'.retained = owner.retained
      /\ owner'.durability = owner.durability /\ owner'.rev = owner.rev
      /\ owner'.uncaptured = owner.uncaptured /\ owner'.outcome = owner.outcome
  BY <1>2, <1>3 DEF OwnerStates
<1>5. /\ events' \in EventBatches /\ events'.reports = mail.reports
      /\ mail' \in Mailboxes /\ mail'.reports = << >> /\ ~mail'.warningPending
      /\ DOMAIN mail'.reports = {} /\ Len(mail'.reports) = 0
  <2>1. << >> \in Seq(Reports) /\ DOMAIN << >> = {} /\ Len(<< >>) = 0
    OBVIOUS
  <2>2. /\ mail.reports \in Seq(Reports) /\ mail.warningPending \in BOOLEAN
        /\ mail.warning \in Revisions
    BY <1>2 DEF Mailboxes
  <2>3. events' \in EventBatches /\ events'.reports = mail.reports
    BY <1>1, <2>2 DEF EventBatches
  <2>4. mail' \in Mailboxes /\ mail'.reports = << >> /\ ~mail'.warningPending
    BY <1>1, <1>2, <2>1 DEF Mailboxes
  <2> QED
    BY <2>1, <2>3, <2>4
<1>6. owner.outcome = "none"
  BY <1>1 DEF StagesOK
<1>7. TypeOK'
  <2>1. Len(mail'.reports) <= EventCapacity
    BY <1>5, WorkerAssumption
  <2>2. appWake' \in BOOLEAN
    BY <1>1
  <2> QED
    BY <1>1, <1>4, <1>5, <2>1, <2>2 DEF TypeOK, FileTypeOK, WorkerTypeOK
<1>8. DiskOK' /\ NoTornFile' /\ AttemptOK' /\ RetrySyncsWhatIsThere' /\ AckOK'
  BY <1>1 DEF DiskOK, ReplaceOK, NoTornFile, AttemptOK, RetrySyncsWhatIsThere, AckOK
<1>9. DurableClaims'
  BY <1>1, <1>4, <1>5 DEF DurableClaims
<1>10. RevisionsOK' /\ LatestIsHeld'
  BY <1>1, <1>4 DEF RevisionsOK, Sent, LatestIsHeld, OwnerAt
<1>11. StagesOK'
  BY <1>1, <1>4, <1>6 DEF StagesOK
<1>12. RoomOK'
  BY <1>1, <1>5, WorkerAssumption DEF RoomOK
<1>13. WakeOK' /\ NoLostWake' /\ ShutdownTellsTheTruth'
  BY <1>4, <1>5, <1>6 DEF WakeOK, NoLostWake, HasPendingPayload, ShutdownTellsTheTruth
<1> QED
  BY <1>7, <1>8, <1>9, <1>10, <1>11, <1>12, <1>13 DEF IInv

\* A command put in the channel is its last one and moves no other.
LEMMA SendFacts ==
  ASSUME NEW q \in Seq(Commands), NEW c \in Commands, Len(q) < CommandCapacity
  PROVE  /\ Append(q, c) \in Seq(Commands) /\ Len(Append(q, c)) = Len(q) + 1
         /\ Len(Append(q, c)) <= CommandCapacity /\ Append(q, c) # << >>
         /\ Append(q, c)[Len(q) + 1] = c /\ Len(q) + 1 \in DOMAIN Append(q, c)
         /\ \A i \in DOMAIN q : i \in DOMAIN Append(q, c) /\ Append(q, c)[i] = q[i]
         /\ \A i \in DOMAIN Append(q, c) :
               \/ i \in DOMAIN q /\ Append(q, c)[i] = q[i]
               \/ i = Len(q) + 1 /\ Append(q, c)[i] = c
<1>1. Len(q) \in Nat /\ CommandCapacity \in Nat
  BY WorkerAssumption
<1>2. Append(q, c) \in Seq(Commands) /\ Len(Append(q, c)) = Len(q) + 1
  OBVIOUS
<1>3. Append(q, c) # << >> /\ Len(Append(q, c)) <= CommandCapacity
  BY <1>1, <1>2
<1>4. DOMAIN q = 1 .. Len(q) /\ DOMAIN Append(q, c) = 1 .. Len(q) + 1
  OBVIOUS
<1> QED
  BY <1>1, <1>2, <1>3, <1>4

\* Commands without a snapshot: a control of the user, or the word that the
\* mailbox has room again.
LEMMA ControlKeeps ==
  ASSUME IInv, UserRescheduleDebounce \/ UserRetryNow \/ ResumeWorker
  PROVE  IInv'
<1>1. /\ TypeOK /\ DiskOK /\ AttemptOK /\ DurableClaims /\ RevisionsOK /\ AckOK /\ StagesOK
      /\ RoomOK /\ WakeOK /\ NoLostWake /\ RetrySyncsWhatIsThere /\ LatestIsHeld /\ NoTornFile
      /\ UNCHANGED <<disk, survivors, replace, faults, sending, work, mail, ack, appWake,
                     events, committed, promised, boots>>
  BY DEF IInv, UserRescheduleDebounce, UserRetryNow, Control, ResumeWorker, fileVars
<1>2. /\ owner \in OwnerStates /\ commands \in Seq(Commands) /\ Len(commands) \in Nat
      /\ DOMAIN commands = 1 .. Len(commands) /\ Len(commands) <= CommandCapacity
      /\ work.dirty \in Nat /\ work.durable \in Nat /\ Sent \in Nat /\ None = 0
  BY <1>1, Ranges, Numbers DEF TypeOK, WorkerTypeOK
<1>3. /\ owner' \in OwnerStates
      /\ \/ owner.pc = "idle" /\ owner'.pc = "idle"
         \/ owner.pc = "resume" /\ owner'.pc = "apply"
      /\ owner'.latest = owner.latest
      /\ owner'.submitted = owner.submitted /\ owner'.retained = owner.retained
      /\ owner'.durability = owner.durability /\ owner'.rev = owner.rev
      /\ owner'.uncaptured = owner.uncaptured /\ owner'.outcome = owner.outcome
  <2>1. CASE ResumeWorker
    BY <1>2, <2>1 DEF ResumeWorker, OwnerStates, OwnerAt
  <2>2. CASE UserRescheduleDebounce \/ UserRetryNow
    BY <1>2, <2>2 DEF UserRescheduleDebounce, UserRetryNow, Control, OwnerAt
  <2> QED
    BY <2>1, <2>2
<1>4. /\ controls' \in 0 .. MaxControls
      /\ work.pc # "none"
  <2>1. controls \in 0 .. MaxControls
    BY <1>1 DEF TypeOK
  <2>2. owner.pc = "resume" => work.pc # "none"
    BY <1>1 DEF StagesOK
  <2> QED
    BY <2>1, <2>2, PlaylistAssumption
    DEF UserRescheduleDebounce, UserRetryNow, Control, ResumeWorker, HasWorker, OwnerAt
<1>5. /\ sending /\ owner.outcome = "none" /\ ~work.closing /\ work.pc # "exited"
      /\ \A i \in DOMAIN commands : commands[i].op # "Shutdown"
  BY <1>1, <1>3 DEF StagesOK
<1>6. \/ commands' = commands
      \/ \E op \in {"Reschedule", "RetryNow", "MailboxDrained"} :
            commands' = Append(commands, [op |-> op, rev |-> None]) /\ Len(commands) < CommandCapacity
  BY DEF UserRescheduleDebounce, UserRetryNow, Control, ResumeWorker, TrySend, HasRoom
<1>7. /\ commands' \in Seq(Commands) /\ Len(commands') <= CommandCapacity
      /\ \A i \in DOMAIN commands : i \in DOMAIN commands' /\ commands'[i] = commands[i]
      /\ \A i \in DOMAIN commands' :
            \/ i \in DOMAIN commands /\ commands'[i] = commands[i]
            \/ commands'[i].op # "Shutdown" /\ commands'[i].rev = None
  <2>1. CASE commands' = commands
    BY <1>2, <2>1
  <2>2. CASE \E op \in {"Reschedule", "RetryNow", "MailboxDrained"} :
                /\ commands' = Append(commands, [op |-> op, rev |-> None])
                /\ Len(commands) < CommandCapacity
    <3>1. PICK op \in {"Reschedule", "RetryNow", "MailboxDrained"} :
                /\ commands' = Append(commands, [op |-> op, rev |-> None])
                /\ Len(commands) < CommandCapacity
      BY <2>2
    <3> DEFINE c == [op |-> op, rev |-> None]
    <3>2. c \in Commands /\ c.op # "Shutdown" /\ c.rev = None
      BY <3>1, Numbers DEF Commands
    <3>3. commands' = Append(commands, c) /\ Len(commands) < CommandCapacity
      BY <3>1
    <3> HIDE DEF c
    <3> QED
      BY <1>2, <3>2, <3>3, SendFacts
  <2> QED
    BY <1>6, <2>1, <2>2
<1>8. TypeOK'
  BY <1>1, <1>3, <1>4, <1>7 DEF TypeOK, FileTypeOK, WorkerTypeOK
<1>9. /\ DiskOK' /\ NoTornFile' /\ AttemptOK' /\ RetrySyncsWhatIsThere' /\ AckOK'
      /\ RoomOK'
  BY <1>1 DEF DiskOK, ReplaceOK, NoTornFile, AttemptOK, RetrySyncsWhatIsThere, AckOK, RoomOK
<1>10. DurableClaims'
  BY <1>1, <1>3 DEF DurableClaims
<1>11. RevisionsOK'
  <2>1. Sent' = Sent
    BY <1>1, <1>3 DEF Sent
  <2>2. \A i \in DOMAIN commands' :
          /\ commands'[i].rev <= Sent
          /\ commands'[i].op \notin {"Commit", "Shutdown"} => commands'[i].rev = None
          /\ \/ commands'[i].rev <= work.dirty \/ commands'[i].rev <= work.durable
             \/ Held(disk) < commands'[i].rev
    BY <1>1, <1>2, <1>7 DEF RevisionsOK
  <2> QED
    BY <1>1, <1>3, <2>1, <2>2 DEF RevisionsOK
<1>12. LatestIsHeld'
  <2>1. {commands[i].rev : i \in DOMAIN commands} \subseteq {commands'[i].rev : i \in DOMAIN commands'}
    BY <1>7
  <2> QED
    BY <1>1, <1>3, <2>1 DEF LatestIsHeld, OwnerAt
<1>13. StagesOK'
  BY <1>1, <1>3, <1>4, <1>5, <1>7 DEF StagesOK
<1>14. WakeOK' /\ NoLostWake' /\ ShutdownTellsTheTruth'
  BY <1>1, <1>3, <1>5 DEF WakeOK, NoLostWake, HasPendingPayload, ShutdownTellsTheTruth
<1> QED
  BY <1>8, <1>9, <1>10, <1>11, <1>12, <1>13, <1>14 DEF IInv

\* A newly committed snapshot goes to the worker or stays with the owner.
LEMMA CommitKeeps ==
  ASSUME IInv, PublishCommitted
  PROVE  IInv'
<1> DEFINE r == committed + 1
           o == [owner EXCEPT !.latest = r, !.uncaptured = FALSE,
                              !.durability = "Pending", !.rev = r]
           c == [op |-> "Commit", rev |-> r]
<1>1. /\ TypeOK /\ DiskOK /\ AttemptOK /\ DurableClaims /\ RevisionsOK /\ AckOK /\ StagesOK
      /\ RoomOK /\ WakeOK /\ NoLostWake /\ RetrySyncsWhatIsThere /\ NoTornFile
      /\ owner.pc = "idle" /\ committed < MaxSnapshots /\ committed' = r
      /\ UNCHANGED <<disk, survivors, replace, faults, sending, work, mail, ack, appWake,
                     events, promised, boots, controls>>
  BY DEF IInv, PublishCommitted, fileVars, OwnerAt
<1>2. /\ owner \in OwnerStates /\ commands \in Seq(Commands) /\ Len(commands) \in Nat
      /\ DOMAIN commands = 1 .. Len(commands) /\ Len(commands) <= CommandCapacity
      /\ work.dirty \in Nat /\ work.durable \in Nat /\ Sent \in Nat /\ None = 0
      /\ committed \in Nat /\ owner.submitted \in Nat /\ owner.latest \in Nat
      /\ committed \in Revisions
      /\ \A i \in DOMAIN commands : commands[i].rev \in Nat
  BY <1>1, Ranges, Numbers DEF TypeOK, WorkerTypeOK
<1>3. r \in Revisions /\ r \in Nat /\ r # None /\ committed < r
  BY <1>1, <1>2, FileAssumption DEF Revisions
<1>4. owner.latest <= committed /\ owner.submitted < r /\ Held(disk) < r
  <2>1. owner.latest \in {None, committed} /\ owner.submitted <= owner.latest
    BY <1>1 DEF RevisionsOK
  <2>2. Held(disk) <= committed /\ Held(disk) \in Nat
    BY <1>1, HeldRevision DEF DiskOK
  <2> QED
    BY <1>2, <1>3, <2>1, <2>2
<1>5. /\ sending /\ owner.outcome = "none" /\ ~work.closing /\ work.pc # "exited"
      /\ \A i \in DOMAIN commands : commands[i].op # "Shutdown"
  BY <1>1 DEF StagesOK
<1>6. /\ o \in OwnerStates /\ o.pc = "idle" /\ o.latest = r /\ o.submitted = owner.submitted
      /\ o.retained = owner.retained /\ o.durability = "Pending" /\ o.rev = r
      /\ o.outcome = owner.outcome
  BY <1>1, <1>2, <1>3 DEF OwnerStates
<1>7. c \in Commands /\ c.op = "Commit" /\ c.rev = r
  BY <1>3 DEF Commands
<1>8. \/ owner' = [o EXCEPT !.retained = r] /\ commands' = commands
      \/ /\ owner' = [o EXCEPT !.retained = None, !.submitted = r]
         /\ Len(commands) < CommandCapacity /\ work.pc # "none"
         /\ commands' = Append(commands, c)
  <2>1. ~(o.submitted >= r)
    BY <1>2, <1>3, <1>4, <1>6
  <2> QED
    BY <1>1, <1>3, <2>1 DEF PublishCommitted, SubmitOrRetain, HasWorker, HasRoom, TrySend
<1> HIDE DEF o, c, r
<1>9. /\ owner' \in OwnerStates /\ owner'.pc = "idle" /\ owner'.latest = r /\ owner'.rev = r
      /\ owner'.durability = "Pending" /\ owner'.outcome = "none"
      /\ \/ owner'.retained = r /\ owner'.submitted = owner.submitted
         \/ owner'.retained = None /\ owner'.submitted = r
  BY <1>3, <1>5, <1>6, <1>8, Numbers DEF OwnerStates
<1>10. /\ commands' \in Seq(Commands) /\ Len(commands') <= CommandCapacity
       /\ \A i \in DOMAIN commands' :
            \/ i \in DOMAIN commands /\ commands'[i] = commands[i]
            \/ commands'[i] = c /\ owner'.submitted = r
       /\ owner'.retained = r \/ \E i \in DOMAIN commands' : commands'[i] = c
  <2>1. CASE owner' = [o EXCEPT !.retained = r] /\ commands' = commands
    BY <1>2, <1>6, <2>1 DEF OwnerStates
  <2>2. CASE /\ owner' = [o EXCEPT !.retained = None, !.submitted = r]
             /\ Len(commands) < CommandCapacity
             /\ commands' = Append(commands, c)
    <3>1. owner'.submitted = r
      BY <1>6, <2>2 DEF OwnerStates
    <3> QED
      BY <1>2, <1>7, <2>2, <3>1, SendFacts
  <2> QED
    BY <1>8, <2>1, <2>2
<1>11. TypeOK'
  BY <1>1, <1>3, <1>9, <1>10 DEF TypeOK, FileTypeOK, WorkerTypeOK
<1>12. /\ NoTornFile' /\ AttemptOK' /\ RetrySyncsWhatIsThere' /\ AckOK' /\ RoomOK'
  BY <1>1 DEF NoTornFile, AttemptOK, RetrySyncsWhatIsThere, AckOK, RoomOK
<1>13. DiskOK'
  <2>1. Held(disk) <= r
    BY <1>3, <1>4, HeldRevision
  <2> QED
    BY <1>1, <2>1 DEF DiskOK, ReplaceOK
<1>14. DurableClaims'
  BY <1>1, <1>9 DEF DurableClaims
<1>15. RevisionsOK'
  <2>1. Sent = owner.submitted /\ Sent' = owner'.submitted /\ owner'.submitted \in Nat
        /\ Sent <= owner'.submitted /\ owner'.submitted <= r
    BY <1>1, <1>2, <1>3, <1>4, <1>5, <1>9 DEF Sent
  <2>2. work.dirty <= owner'.submitted /\ work.durable <= owner'.submitted
    BY <1>1, <1>2, <2>1 DEF RevisionsOK
  <2>3. ASSUME NEW i \in DOMAIN commands'
        PROVE  /\ commands'[i].rev <= owner'.submitted
               /\ commands'[i].op \notin {"Commit", "Shutdown"} => commands'[i].rev = None
               /\ \/ commands'[i].rev <= work.dirty \/ commands'[i].rev <= work.durable
                  \/ Held(disk) < commands'[i].rev
    <3>1. CASE i \in DOMAIN commands /\ commands'[i] = commands[i]
      BY <1>1, <1>2, <2>1, <3>1 DEF RevisionsOK
    <3>2. CASE commands'[i] = c /\ owner'.submitted = r
      BY <1>3, <1>4, <1>7, <3>2
    <3> QED
      BY <1>10, <3>1, <3>2
  <2>4. owner'.retained # None =>
          /\ owner'.retained = owner'.latest /\ owner'.submitted < owner'.latest
          /\ sending' /\ Held(disk) < owner'.retained
    BY <1>1, <1>4, <1>5, <1>9
  <2> QED
    BY <1>1, <1>9, <2>1, <2>2, <2>3, <2>4 DEF RevisionsOK
<1>16. LatestIsHeld'
  <2>1. r = owner'.retained \/ r \in {commands'[i].rev : i \in DOMAIN commands'}
    BY <1>7, <1>10
  <2> QED
    BY <1>9, <2>1 DEF LatestIsHeld
<1>17. StagesOK'
  BY <1>1, <1>5, <1>7, <1>9, <1>10 DEF StagesOK
<1>18. WakeOK' /\ NoLostWake' /\ ShutdownTellsTheTruth'
  BY <1>1, <1>9 DEF WakeOK, NoLostWake, HasPendingPayload, ShutdownTellsTheTruth
<1> QED
  BY <1>11, <1>12, <1>13, <1>14, <1>15, <1>16, <1>17, <1>18 DEF IInv

\* The shutdown takes the newest snapshot along, or the word that it cannot be
\* captured.
LEMMA AdmitKeeps ==
  ASSUME IInv, AdmitShutdown
  PROVE  IInv'
<1> DEFINE c == [op |-> "Shutdown", rev |-> NewestCommitted]
<1>1. /\ TypeOK /\ DiskOK /\ AttemptOK /\ DurableClaims /\ RevisionsOK /\ AckOK /\ StagesOK
      /\ RoomOK /\ WakeOK /\ NoLostWake /\ RetrySyncsWhatIsThere /\ NoTornFile /\ LatestIsHeld
      /\ owner.pc = "admit" /\ Len(commands) < CommandCapacity
      /\ commands' = Append(commands, c) /\ sending' = FALSE
      /\ owner' = [owner EXCEPT !.pc = "ack", !.retained = None]
      /\ UNCHANGED <<disk, survivors, replace, faults, work, mail, ack, appWake,
                     events, committed, promised, boots, controls>>
  BY DEF IInv, AdmitShutdown, fileVars, OwnerAt, HasRoom, TrySend
<1>2. /\ owner \in OwnerStates /\ commands \in Seq(Commands) /\ Len(commands) \in Nat
      /\ work.dirty \in Nat /\ work.durable \in Nat /\ Sent \in Nat /\ None = 0
      /\ owner.submitted \in Nat /\ owner.latest \in Nat /\ owner.latest \in Revisions
      /\ None \in Revisions
      /\ \A i \in DOMAIN commands : commands[i].rev \in Nat
  BY <1>1, Ranges, Numbers
<1>3. /\ owner' \in OwnerStates /\ owner'.pc = "ack" /\ owner'.latest = owner.latest
      /\ owner'.submitted = owner.submitted /\ owner'.retained = None
      /\ owner'.durability = owner.durability /\ owner'.rev = owner.rev
      /\ owner'.uncaptured = owner.uncaptured /\ owner'.outcome = owner.outcome
  BY <1>1, <1>2 DEF OwnerStates
<1>4. /\ sending /\ owner.outcome = "none" /\ ~work.closing /\ work.pc # "exited"
      /\ work.pc # "none"
      /\ \A i \in DOMAIN commands : commands[i].op # "Shutdown"
  BY <1>1 DEF StagesOK
<1>5. /\ c \in Commands /\ c.op = "Shutdown" /\ c.rev \in {None, owner.latest}
      /\ ~owner.uncaptured => c.rev = owner.latest
  BY <1>2 DEF NewestCommitted, Commands
<1> HIDE DEF c
<1>6. /\ commands' \in Seq(Commands) /\ Len(commands') <= CommandCapacity /\ commands' # << >>
      /\ Len(commands') = Len(commands) + 1
      /\ commands'[Len(commands')] = c /\ Len(commands') \in DOMAIN commands'
      /\ \A i \in DOMAIN commands' :
            \/ i \in DOMAIN commands /\ commands'[i] = commands[i]
            \/ i = Len(commands') /\ commands'[i] = c
  BY <1>1, <1>2, <1>5, SendFacts
<1>7. TypeOK'
  <2>1. sending' \in BOOLEAN
    BY <1>1
  <2> QED
    BY <1>1, <1>3, <1>6, <2>1 DEF TypeOK, FileTypeOK, WorkerTypeOK
<1>8. /\ DiskOK' /\ NoTornFile' /\ AttemptOK' /\ RetrySyncsWhatIsThere' /\ AckOK'
      /\ RoomOK'
  BY <1>1 DEF DiskOK, ReplaceOK, NoTornFile, AttemptOK, RetrySyncsWhatIsThere, AckOK, RoomOK
<1>9. DurableClaims'
  BY <1>1, <1>3 DEF DurableClaims
<1>10. RevisionsOK'
  <2>1. Sent = owner.submitted /\ Sent' = owner.latest /\ owner.submitted <= owner.latest
    BY <1>1, <1>3, <1>4 DEF Sent, RevisionsOK
  <2>2. work.dirty <= owner.latest /\ work.durable <= owner.latest
    BY <1>1, <1>2, <2>1 DEF RevisionsOK
  <2>3. owner.latest <= work.dirty \/ owner.latest <= work.durable \/ Held(disk) < owner.latest
    <3>1. CASE owner.latest = None
      BY <1>2, <3>1
    <3>2. CASE owner.latest # None
      <4>1. owner.latest \in {owner.retained, work.dirty, work.durable}
                             \cup {commands[i].rev : i \in DOMAIN commands}
        BY <1>1, <3>2 DEF LatestIsHeld, OwnerAt
      <4>2. CASE owner.latest = owner.retained
        BY <1>1, <3>2, <4>2 DEF RevisionsOK
      <4>3. CASE owner.latest \in {work.dirty, work.durable}
        BY <1>2, <4>3
      <4>4. CASE \E i \in DOMAIN commands : owner.latest = commands[i].rev
        BY <1>1, <4>4 DEF RevisionsOK
      <4> QED
        BY <4>1, <4>2, <4>3, <4>4
    <3> QED
      BY <3>1, <3>2
  <2>4. ASSUME NEW i \in DOMAIN commands'
        PROVE  /\ commands'[i].rev <= owner.latest
               /\ commands'[i].op \notin {"Commit", "Shutdown"} => commands'[i].rev = None
               /\ \/ commands'[i].rev <= work.dirty \/ commands'[i].rev <= work.durable
                  \/ Held(disk) < commands'[i].rev
    <3>1. CASE i \in DOMAIN commands /\ commands'[i] = commands[i]
      BY <1>1, <1>2, <2>1, <3>1 DEF RevisionsOK
    <3>2. CASE commands'[i] = c
      BY <1>2, <1>5, <2>3, <3>2
    <3> QED
      BY <1>6, <3>1, <3>2
  <2> QED
    BY <1>1, <1>3, <2>1, <2>2, <2>4 DEF RevisionsOK
<1>11. LatestIsHeld'
  <2>1. ~owner.uncaptured => owner.latest \in {commands'[i].rev : i \in DOMAIN commands'}
    BY <1>5, <1>6
  <2> QED
    BY <1>3, <2>1 DEF LatestIsHeld
<1>12. StagesOK'
  BY <1>1, <1>3, <1>4, <1>5, <1>6 DEF StagesOK
<1>13. WakeOK' /\ NoLostWake' /\ ShutdownTellsTheTruth'
  BY <1>1, <1>3, <1>4 DEF WakeOK, NoLostWake, HasPendingPayload, ShutdownTellsTheTruth
<1> QED
  BY <1>7, <1>8, <1>9, <1>10, <1>11, <1>12, <1>13 DEF IInv

\* What the user is told is covered by what every surviving directory has.
LEMMA PromiseFacts ==
  ASSUME NEW S, NEW p \in Revisions, NEW r \in Revisions, Reached(S, p), Reached(S, r)
  PROVE  /\ Larger(p, r) \in Revisions /\ p <= Larger(p, r)
         /\ Reached(S, Larger(p, r))
  BY Numbers DEF Larger, Reached

\* The reports shown change only what is said of the durability, and a report
\* of a durable snapshot brings its claim along.
LEMMA ShownFacts ==
  ASSUME NEW o \in OwnerStates, NEW report, NEW S, report.rev \in Revisions,
         report.outcome \in {"NotReplaced", "Unconfirmed", "Durable"},
         o.durability = "Durable" => Reached(S, o.rev),
         report.outcome = "Durable" => Reached(S, report.rev)
  PROVE  /\ Shown(o, report) \in OwnerStates
         /\ Shown(o, report).durability = "Durable" => Reached(S, Shown(o, report).rev)
         /\ Shown(o, report).pc = o.pc /\ Shown(o, report).latest = o.latest
         /\ Shown(o, report).retained = o.retained /\ Shown(o, report).submitted = o.submitted
         /\ Shown(o, report).uncaptured = o.uncaptured /\ Shown(o, report).outcome = o.outcome
         /\ ~(report.rev < o.latest) => /\ Shown(o, report).durability = report.outcome
                                        /\ Shown(o, report).rev = report.rev
<1>1. CASE report.rev < o.latest
  BY <1>1 DEF Shown
<1>2. CASE ~(report.rev < o.latest)
  <2> DEFINE v == [o EXCEPT !.durability = report.outcome, !.rev = report.rev]
  <2>1. Shown(o, report) = v
    BY <1>2 DEF Shown
  <2>2. /\ v \in OwnerStates /\ v.durability = report.outcome /\ v.rev = report.rev
        /\ v.pc = o.pc /\ v.latest = o.latest /\ v.retained = o.retained
        /\ v.submitted = o.submitted /\ v.uncaptured = o.uncaptured /\ v.outcome = o.outcome
    BY DEF OwnerStates
  <2> HIDE DEF v
  <2> QED
    BY <2>1, <2>2
<1> QED
  BY <1>1, <1>2

\* The drained reports are shown, the retained snapshot is submitted, and the
\* owner goes back to idle or on to the shutdown.
LEMMA ApplyEffect ==
  ASSUME IInv, ApplyEvents
  PROVE  /\ owner' \in OwnerStates /\ owner'.pc \in {"idle", "admit"}
         /\ owner'.latest = owner.latest /\ owner'.uncaptured = owner.uncaptured
         /\ owner'.outcome = owner.outcome
         /\ owner'.durability = "Durable" => Reached(survivors, owner'.rev)
         /\ promised' \in Revisions /\ promised <= promised' /\ Reached(survivors, promised')
         /\ \/ /\ commands' = commands /\ owner'.retained = owner.retained
               /\ owner'.submitted = owner.submitted
            \/ /\ owner.retained # None /\ owner'.retained = None
               /\ owner'.submitted = owner.retained /\ Len(commands) < CommandCapacity
               /\ commands' = Append(commands, [op |-> "Commit", rev |-> owner.retained])
<1> DEFINE s == ShownAfter(owner, events.reports)
           t == [s EXCEPT !.warning = IF events.changed THEN events.warning ELSE @]
           u == [t EXCEPT !.pc = IF owner.quitting THEN "admit" ELSE "idle"]
<1>1. TypeOK /\ DurableClaims /\ RevisionsOK
  BY DEF IInv
<1>2. /\ owner \in OwnerStates /\ events \in EventBatches /\ events.reports \in Seq(Reports)
      /\ promised \in Revisions /\ owner.retained \in Revisions
      /\ owner.submitted \in Nat /\ owner.retained \in Nat /\ owner.rev \in Revisions
  BY <1>1, Ranges, Numbers
<1>3. owner.durability = "Durable" => Reached(survivors, owner.rev)
  BY <1>1 DEF DurableClaims
<1>4. /\ s \in OwnerStates /\ (s.durability = "Durable" => Reached(survivors, s.rev))
      /\ s.latest = owner.latest /\ s.retained = owner.retained
      /\ s.submitted = owner.submitted /\ s.uncaptured = owner.uncaptured
      /\ s.outcome = owner.outcome
  <2>1. CASE events.reports = << >>
    BY <1>2, <1>3, <2>1 DEF ShownAfter
  <2>2. CASE events.reports # << >>
    <3> DEFINE report == events.reports[Len(events.reports)]
    <3>1. Len(events.reports) \in DOMAIN events.reports
      BY <1>2, <2>2
    <3>2. report \in Reports
      BY <1>2, <3>1
    <3>3. report.outcome = "Durable" => Reached(survivors, report.rev)
      BY <1>1, <3>1 DEF DurableClaims
    <3>4. s = Shown(owner, report)
      BY <2>2 DEF ShownAfter
    <3> HIDE DEF report
    <3>5. report.rev \in Revisions /\ report.outcome \in {"NotReplaced", "Unconfirmed", "Durable"}
      BY <3>2 DEF Reports
    <3> HIDE DEF s
    <3> QED
      BY <1>2, <1>3, <3>3, <3>4, <3>5, ShownFacts
  <2> QED
    BY <2>1, <2>2
<1> HIDE DEF s
<1>5. /\ t \in OwnerStates /\ t.latest = s.latest /\ t.retained = s.retained
      /\ t.submitted = s.submitted /\ t.uncaptured = s.uncaptured /\ t.outcome = s.outcome
      /\ t.durability = s.durability /\ t.rev = s.rev
  <2>1. events.warning \in Revisions /\ s.warning \in Revisions
    BY <1>2, <1>4 DEF EventBatches, OwnerStates
  <2>2. PICK n \in Revisions : t = [s EXCEPT !.warning = n]
    BY <1>4, <2>1 DEF OwnerStates
  <2> QED
    BY <1>4, <2>2 DEF OwnerStates
<1>6. /\ promised' = IF t.durability = "Durable" THEN Larger(promised, t.rev) ELSE promised
      /\ SubmitOrRetain(u, owner.retained)
  BY DEF ApplyEvents, Promises, s
<1> HIDE DEF t
<1>7. /\ u \in OwnerStates /\ u.pc \in {"idle", "admit"} /\ u.latest = owner.latest
      /\ u.retained = owner.retained /\ u.submitted = owner.submitted
      /\ u.uncaptured = owner.uncaptured /\ u.outcome = owner.outcome
      /\ u.durability = t.durability /\ u.rev = t.rev
  BY <1>4, <1>5 DEF OwnerStates
<1> HIDE DEF u
<1>8. promised' \in Revisions /\ promised <= promised' /\ Reached(survivors, promised')
  <2>1. t.rev \in Revisions /\ (t.durability = "Durable" => Reached(survivors, t.rev))
    BY <1>4, <1>5 DEF OwnerStates
  <2>2. Reached(survivors, promised) /\ promised <= promised
    BY <1>1, <1>2, Numbers DEF DurableClaims
  <2> QED
    BY <1>2, <1>6, <2>1, <2>2, PromiseFacts
<1>9. \/ owner' = u /\ commands' = commands
      \/ owner' = [u EXCEPT !.retained = owner.retained] /\ commands' = commands
      \/ /\ owner.retained # None /\ owner' = [u EXCEPT !.retained = None, !.submitted = owner.retained]
         /\ Len(commands) < CommandCapacity
         /\ commands' = Append(commands, [op |-> "Commit", rev |-> owner.retained])
  <2>1. owner.retained # None => ~(u.submitted >= owner.retained)
    BY <1>1, <1>2, <1>7 DEF RevisionsOK
  <2> QED
    BY <1>6, <2>1 DEF SubmitOrRetain, HasRoom, TrySend
<1>10. CASE owner' = u /\ commands' = commands
  BY <1>4, <1>5, <1>7, <1>8, <1>10
<1>11. CASE owner' = [u EXCEPT !.retained = owner.retained] /\ commands' = commands
  <2>1. owner' = u
    BY <1>7, <1>11 DEF OwnerStates
  <2> QED
    BY <1>10, <1>11, <2>1
<1>12. CASE /\ owner.retained # None /\ Len(commands) < CommandCapacity
            /\ owner' = [u EXCEPT !.retained = None, !.submitted = owner.retained]
            /\ commands' = Append(commands, [op |-> "Commit", rev |-> owner.retained])
  <2>1. /\ owner' \in OwnerStates /\ owner'.pc = u.pc /\ owner'.latest = u.latest
        /\ owner'.retained = None /\ owner'.submitted = owner.retained
        /\ owner'.uncaptured = u.uncaptured /\ owner'.outcome = u.outcome
        /\ owner'.durability = u.durability /\ owner'.rev = u.rev
    BY <1>2, <1>7, <1>12, Numbers DEF OwnerStates
  <2> QED
    BY <1>4, <1>5, <1>7, <1>8, <1>12, <2>1
<1> QED
  BY <1>9, <1>10, <1>11, <1>12

\* The drained events are applied.
LEMMA ApplyKeeps ==
  ASSUME IInv, ApplyEvents
  PROVE  IInv'
<1> DEFINE c == [op |-> "Commit", rev |-> owner.retained]
<1>1. /\ TypeOK /\ DiskOK /\ AttemptOK /\ DurableClaims /\ RevisionsOK /\ AckOK /\ StagesOK
      /\ RoomOK /\ WakeOK /\ NoLostWake /\ RetrySyncsWhatIsThere /\ NoTornFile /\ LatestIsHeld
      /\ owner.pc = "apply" /\ events' = NoEvents
      /\ UNCHANGED <<disk, survivors, replace, faults, sending, work, mail, ack, appWake,
                     committed, boots, controls>>
  BY DEF IInv, ApplyEvents, fileVars, OwnerAt
<1>2. /\ commands \in Seq(Commands) /\ Len(commands) \in Nat /\ Len(commands) <= CommandCapacity
      /\ work.dirty \in Nat /\ work.durable \in Nat /\ Sent \in Nat /\ None = 0
      /\ owner.submitted \in Nat /\ owner.latest \in Nat /\ owner.retained \in Nat
      /\ owner.retained \in Revisions
      /\ \A i \in DOMAIN commands : commands[i].rev \in Nat
  BY <1>1, Ranges, Numbers DEF TypeOK, WorkerTypeOK
<1>3. /\ owner' \in OwnerStates /\ owner'.pc \in {"idle", "admit"}
      /\ owner'.latest = owner.latest /\ owner'.uncaptured = owner.uncaptured
      /\ owner'.outcome = owner.outcome
      /\ owner'.durability = "Durable" => Reached(survivors, owner'.rev)
      /\ promised' \in Revisions /\ Reached(survivors, promised')
      /\ \/ /\ commands' = commands /\ owner'.retained = owner.retained
            /\ owner'.submitted = owner.submitted
         \/ /\ owner.retained # None /\ owner'.retained = None
            /\ owner'.submitted = owner.retained /\ Len(commands) < CommandCapacity
            /\ commands' = Append(commands, c)
  BY ApplyEffect
<1>4. /\ sending /\ owner.outcome = "none" /\ ~work.closing /\ work.pc \notin {"exited", "none"}
      /\ \A i \in DOMAIN commands : commands[i].op # "Shutdown"
  BY <1>1 DEF StagesOK
<1>5. c \in Commands /\ c.op = "Commit" /\ c.rev = owner.retained
  BY <1>2 DEF Commands
<1> HIDE DEF c
<1>6. /\ commands' \in Seq(Commands) /\ Len(commands') <= CommandCapacity
      /\ \A i \in DOMAIN commands' :
            \/ i \in DOMAIN commands /\ commands'[i] = commands[i]
            \/ commands'[i] = c /\ owner'.submitted = owner.retained /\ owner.retained # None
      /\ \A i \in DOMAIN commands : i \in DOMAIN commands' /\ commands'[i] = commands[i]
      /\ owner'.retained = owner.retained \/ \E i \in DOMAIN commands' : commands'[i] = c
  <2>1. CASE commands' = commands /\ owner'.retained = owner.retained
    BY <1>2, <2>1
  <2>2. CASE /\ owner.retained # None /\ owner'.submitted = owner.retained
             /\ Len(commands) < CommandCapacity /\ commands' = Append(commands, c)
    BY <1>2, <1>5, <2>2, SendFacts
  <2> QED
    BY <1>3, <2>1, <2>2
<1>7. events' \in EventBatches /\ DOMAIN events'.reports = {}
  BY <1>1, Numbers DEF NoEvents, EventBatches
<1>8. TypeOK'
  BY <1>1, <1>3, <1>6, <1>7 DEF TypeOK, FileTypeOK, WorkerTypeOK
<1>9. /\ DiskOK' /\ NoTornFile' /\ AttemptOK' /\ RetrySyncsWhatIsThere' /\ AckOK'
      /\ RoomOK'
  BY <1>1 DEF DiskOK, ReplaceOK, NoTornFile, AttemptOK, RetrySyncsWhatIsThere, AckOK, RoomOK
<1>10. DurableClaims'
  BY <1>1, <1>3, <1>7 DEF DurableClaims
<1>11. RevisionsOK'
  <2>1. owner.retained # None =>
          /\ owner.retained = owner.latest /\ owner.submitted < owner.latest
          /\ sending /\ Held(disk) < owner.retained
    BY <1>1 DEF RevisionsOK
  <2>2. owner.submitted <= owner.latest /\ owner.latest \in {None, committed}
    BY <1>1 DEF RevisionsOK
  <2>3. Sent = owner.submitted /\ Sent' = owner'.submitted /\ owner'.submitted \in Nat
        /\ Sent <= owner'.submitted /\ owner'.submitted <= owner.latest
    BY <1>1, <1>2, <1>3, <1>4, <2>1, <2>2 DEF Sent
  <2>4. work.dirty <= owner'.submitted /\ work.durable <= owner'.submitted
    BY <1>1, <1>2, <2>3 DEF RevisionsOK
  <2>5. ASSUME NEW i \in DOMAIN commands'
        PROVE  /\ commands'[i].rev <= owner'.submitted
               /\ commands'[i].op \notin {"Commit", "Shutdown"} => commands'[i].rev = None
               /\ \/ commands'[i].rev <= work.dirty \/ commands'[i].rev <= work.durable
                  \/ Held(disk) < commands'[i].rev
    <3>1. CASE i \in DOMAIN commands /\ commands'[i] = commands[i]
      BY <1>1, <1>2, <2>3, <3>1 DEF RevisionsOK
    <3>2. CASE commands'[i] = c /\ owner'.submitted = owner.retained /\ owner.retained # None
      BY <1>2, <1>5, <2>1, <3>2
    <3> QED
      BY <1>6, <3>1, <3>2
  <2>6. owner'.retained # None =>
          /\ owner'.retained = owner'.latest /\ owner'.submitted < owner'.latest
          /\ sending' /\ Held(disk) < owner'.retained
    BY <1>1, <1>3, <2>1
  <2> QED
    BY <1>1, <1>3, <2>2, <2>3, <2>4, <2>5, <2>6 DEF RevisionsOK
<1>12. LatestIsHeld'
  <2>1. {commands[i].rev : i \in DOMAIN commands} \subseteq {commands'[i].rev : i \in DOMAIN commands'}
    BY <1>6
  <2>2. owner.retained = owner'.retained
          \/ owner.retained \in {commands'[i].rev : i \in DOMAIN commands'}
    BY <1>5, <1>6
  <2> QED
    BY <1>1, <1>3, <2>1, <2>2 DEF LatestIsHeld, OwnerAt
<1>13. StagesOK'
  BY <1>1, <1>3, <1>4, <1>5, <1>6 DEF StagesOK
<1>14. WakeOK' /\ NoLostWake' /\ ShutdownTellsTheTruth'
  BY <1>1, <1>3, <1>4 DEF WakeOK, NoLostWake, HasPendingPayload, ShutdownTellsTheTruth
<1> QED
  BY <1>8, <1>9, <1>10, <1>11, <1>12, <1>13, <1>14 DEF IInv

\* What the owner concludes from the worker's last word.
LEMMA ConcludedFacts ==
  ASSUME IInv, owner.pc = "join"
  PROVE  /\ Concluded \in OwnerStates /\ Concluded.latest = owner.latest
         /\ Concluded.retained = owner.retained /\ Concluded.submitted = owner.submitted
         /\ Concluded.uncaptured = owner.uncaptured
         /\ Concluded.durability = "Durable" => Reached(survivors, Concluded.rev)
         /\ owner.latest # None /\ ~owner.uncaptured =>
              /\ Concluded.rev = owner.latest
              /\ \/ /\ Concluded.durability = "Durable"
                    /\ Reached(survivors, owner.latest)
                 \/ Concluded.durability = "Unconfirmed" /\ disk.target = owner.latest
                 \/ Concluded.durability = "NotReplaced" /\ disk.target # owner.latest
<1>1. /\ TypeOK /\ DurableClaims /\ RevisionsOK /\ AckOK /\ StagesOK /\ LatestIsHeld /\ AttemptOK
      /\ work.closing /\ work.pc \in {"acked", "exited"}
  BY DEF IInv, StagesOK
<1>2. /\ owner \in OwnerStates /\ owner.latest \in Nat /\ ack \in Completions
      /\ work.dirty \in Revisions /\ work.durable \in Revisions
      /\ work.dirty \in Nat /\ work.durable \in Nat /\ None = 0 /\ Sent \in Nat
  BY <1>1, Ranges, Numbers
<1>3. /\ owner.durability = "Durable" => Reached(survivors, owner.rev)
      /\ Reached(survivors, work.durable)
  BY <1>1 DEF DurableClaims
<1>4. ~sending /\ owner.retained = None /\ commands = << >>
  BY <1>1 DEF StagesOK, RevisionsOK
<1>5. Sent = owner.latest /\ work.dirty <= owner.latest /\ work.durable <= owner.latest
  BY <1>1, <1>4 DEF Sent, RevisionsOK
<1>6. owner.latest # None /\ ~owner.uncaptured => owner.latest \in {work.dirty, work.durable}
  BY <1>1, <1>4 DEF LatestIsHeld, OwnerAt
<1>7. work.dirty # None => work.durable < work.dirty
  BY <1>1 DEF AttemptOK, Scheduled
<1>8. CASE ack.kind = "NoCommittedSnapshot" /\ work.dirty = None /\ work.durable = None
  BY <1>2, <1>3, <1>6, <1>8 DEF Concluded
<1>9. CASE ack.kind = "AlreadyDurable" /\ work.dirty = None /\ work.durable # None
           /\ ack.rev = work.durable
  <2> DEFINE v == [owner EXCEPT !.durability = "Durable", !.rev = work.durable, !.warning = None]
  <2>1. Concluded = v
    BY <1>9 DEF Concluded
  <2>2. /\ v \in OwnerStates /\ v.durability = "Durable" /\ v.rev = work.durable
        /\ v.latest = owner.latest /\ v.retained = owner.retained
        /\ v.submitted = owner.submitted /\ v.uncaptured = owner.uncaptured
    BY <1>2, Numbers DEF OwnerStates
  <2> HIDE DEF v
  <2> QED
    BY <1>2, <1>3, <1>6, <1>9, <2>1, <2>2
<1>10. CASE ack.kind = "Attempted" /\ ack.rev \in {work.dirty, work.durable}
            /\ ack.outcome \in {"NotReplaced", "Unconfirmed", "Durable"}
            /\ (ack.outcome = "Durable" =>
                  work.dirty = None /\ work.durable # None /\ ack.rev = work.durable)
            /\ (ack.outcome # "Durable" => work.dirty # None /\ ack.rev = work.dirty)
            /\ (ack.outcome = "Unconfirmed" => disk.target = work.dirty)
            /\ (ack.outcome = "NotReplaced" => disk.target # work.dirty)
  <2> DEFINE s == Shown(owner, ack)
             v == [s EXCEPT !.warning = IF ack.outcome = "Durable" THEN None ELSE ack.rev]
  <2>1. Concluded = v
    BY <1>10 DEF Concluded
  <2>2. ack.rev \in Revisions /\ ack.rev \in Nat
        /\ (ack.outcome = "Durable" => Reached(survivors, ack.rev))
    BY <1>2, <1>3, <1>10
  <2>3. /\ s \in OwnerStates /\ (s.durability = "Durable" => Reached(survivors, s.rev))
        /\ s.latest = owner.latest /\ s.retained = owner.retained
        /\ s.submitted = owner.submitted /\ s.uncaptured = owner.uncaptured
        /\ ~(ack.rev < owner.latest) => s.durability = ack.outcome /\ s.rev = ack.rev
    BY <1>2, <1>3, <1>10, <2>2, ShownFacts
  <2> HIDE DEF s
  <2>4. /\ v \in OwnerStates /\ v.durability = s.durability /\ v.rev = s.rev
        /\ v.latest = s.latest /\ v.retained = s.retained
        /\ v.submitted = s.submitted /\ v.uncaptured = s.uncaptured
    BY <2>2, <2>3, Numbers DEF OwnerStates
  <2> HIDE DEF v
  <2>5. owner.latest # None /\ ~owner.uncaptured => ack.rev = owner.latest
    BY <1>2, <1>5, <1>6, <1>7, <1>10
  <2>6. ASSUME owner.latest # None, ~owner.uncaptured
        PROVE  /\ v.rev = owner.latest /\ v.durability = ack.outcome
               /\ ack.outcome = "Durable" => Reached(survivors, owner.latest)
               /\ ack.outcome = "Unconfirmed" => disk.target = owner.latest
               /\ ack.outcome = "NotReplaced" => disk.target # owner.latest
    <3>1. ack.rev = owner.latest /\ ~(ack.rev < owner.latest)
      BY <1>2, <2>5, <2>6
    <3> QED
      BY <1>10, <2>2, <2>3, <2>4, <3>1
  <2> QED
    BY <1>10, <2>1, <2>3, <2>4, <2>6
<1> QED
  BY <1>1, <1>8, <1>9, <1>10 DEF AckOK

\* The end of a shutdown, and what it lets the user believe.
LEMMA JoinEffect ==
  ASSUME IInv, JoinEnds
  PROVE  /\ promised' \in Revisions /\ promised <= promised' /\ Reached(survivors, promised')
         /\ UNCHANGED <<fileVars, workerVars, events, committed, boots, controls>>
         /\ owner.pc = "join" /\ owner' \in OwnerStates /\ owner'.pc = "ended"
         /\ owner'.latest = owner.latest /\ owner'.retained = owner.retained
         /\ owner'.submitted = owner.submitted /\ owner'.uncaptured = owner.uncaptured
         /\ owner'.durability = Concluded.durability /\ owner'.rev = Concluded.rev
         /\ owner'.outcome # "none"
         /\ owner'.outcome = "Completed" => work.pc = "exited" /\ ~owner.uncaptured
<1> DEFINE v == Concluded
<1>1. /\ owner.pc = "join" /\ TypeOK /\ DurableClaims
      /\ UNCHANGED <<fileVars, workerVars, events, committed, boots, controls>>
      /\ promised' = IF v.durability = "Durable" THEN Larger(promised, v.rev) ELSE promised
  BY DEF IInv, JoinEnds, OwnerAt, Promises
<1>2. PICK out \in {"SnapshotCaptureFailed", "Completed", "TimedOut"} :
         /\ owner' = [v EXCEPT !.pc = "ended", !.outcome = out]
         /\ out = "Completed" => work.pc = "exited" /\ ~owner.uncaptured
  BY DEF JoinEnds, Ends, At
<1>3. /\ v \in OwnerStates /\ v.latest = owner.latest /\ v.retained = owner.retained
      /\ v.submitted = owner.submitted /\ v.uncaptured = owner.uncaptured
      /\ v.durability = "Durable" => Reached(survivors, v.rev)
  BY <1>1, ConcludedFacts
<1> HIDE DEF v
<1>4. v.rev \in Revisions /\ promised \in Revisions /\ promised <= promised
      /\ Reached(survivors, promised)
  <2>1. v.rev \in Revisions
    BY <1>3 DEF OwnerStates
  <2>2. promised \in Revisions /\ Reached(survivors, promised)
    BY <1>1, Ranges DEF DurableClaims
  <2> QED
    BY <2>1, <2>2, Numbers
<1>5. promised' \in Revisions /\ promised <= promised' /\ Reached(survivors, promised')
  BY <1>1, <1>3, <1>4, PromiseFacts
<1>6. /\ owner' \in OwnerStates /\ owner'.pc = "ended"
      /\ owner'.latest = v.latest /\ owner'.retained = v.retained
      /\ owner'.submitted = v.submitted /\ owner'.uncaptured = v.uncaptured
      /\ owner'.durability = v.durability /\ owner'.rev = v.rev /\ owner'.outcome = out
  BY <1>2, <1>3 DEF OwnerStates
<1> QED
  BY <1>1, <1>2, <1>3, <1>5, <1>6 DEF v

\* The shutdown has ended with the worker's word, or without its thread's end.
LEMMA JoinKeeps ==
  ASSUME IInv, JoinEnds
  PROVE  IInv'
<1>1. /\ TypeOK /\ DiskOK /\ AttemptOK /\ DurableClaims /\ RevisionsOK /\ AckOK /\ StagesOK
      /\ RoomOK /\ WakeOK /\ NoLostWake /\ RetrySyncsWhatIsThere /\ NoTornFile
  BY DEF IInv
<1>2. /\ promised' \in Revisions /\ Reached(survivors, promised')
      /\ UNCHANGED <<disk, survivors, replace, faults, commands, sending, work, mail, ack,
                     appWake, events, committed, boots, controls>>
      /\ owner.pc = "join" /\ owner' \in OwnerStates /\ owner'.pc = "ended"
      /\ owner'.latest = owner.latest /\ owner'.retained = owner.retained
      /\ owner'.submitted = owner.submitted
      /\ owner'.durability = Concluded.durability /\ owner'.rev = Concluded.rev
      /\ owner'.outcome # "none"
      /\ owner'.outcome = "Completed" => work.pc = "exited" /\ ~owner.uncaptured
  BY JoinEffect DEF fileVars, workerVars
<1>3. /\ Concluded.durability = "Durable" => Reached(survivors, Concluded.rev)
      /\ owner.latest # None /\ ~owner.uncaptured =>
              /\ Concluded.rev = owner.latest
              /\ \/ /\ Concluded.durability = "Durable"
                    /\ Reached(survivors, owner.latest)
                 \/ Concluded.durability = "Unconfirmed" /\ disk.target = owner.latest
                 \/ Concluded.durability = "NotReplaced" /\ disk.target # owner.latest
  BY <1>2, ConcludedFacts
<1>4. TypeOK'
  BY <1>1, <1>2 DEF TypeOK, FileTypeOK, WorkerTypeOK
<1>5. /\ DiskOK' /\ NoTornFile' /\ AttemptOK' /\ RetrySyncsWhatIsThere' /\ AckOK'
      /\ RoomOK'
  BY <1>1, <1>2
  DEF DiskOK, ReplaceOK, NoTornFile, AttemptOK, RetrySyncsWhatIsThere, AckOK, RoomOK
<1>6. DurableClaims'
  BY <1>1, <1>2, <1>3 DEF DurableClaims
<1>7. RevisionsOK' /\ LatestIsHeld'
  BY <1>1, <1>2 DEF RevisionsOK, Sent, LatestIsHeld, OwnerAt
<1>8. StagesOK'
  BY <1>1, <1>2 DEF StagesOK
<1>9. WakeOK' /\ NoLostWake'
  BY <1>1, <1>2 DEF WakeOK, NoLostWake, HasPendingPayload
<1>10. ShutdownTellsTheTruth'
  <2> SUFFICES ASSUME owner'.outcome = "Completed", owner'.latest # None
               PROVE  /\ owner'.rev = owner'.latest
                      /\ CASE owner'.durability = "Durable" ->
                                \A d \in survivors : d.target = owner'.latest
                         [] owner'.durability = "Unconfirmed" -> disk.target = owner'.latest
                         [] owner'.durability = "NotReplaced" -> disk.target # owner'.latest
                         [] OTHER -> FALSE
    BY <1>2 DEF ShutdownTellsTheTruth
  <2>1. Reached(survivors, owner.latest) => \A d \in survivors : d.target = owner.latest
    <3> SUFFICES ASSUME Reached(survivors, owner.latest), NEW d \in survivors
                 PROVE  d.target = owner.latest
      OBVIOUS
    <3>1. owner.latest = committed /\ committed \in Nat
      BY <1>1, <1>2, Ranges, Numbers DEF RevisionsOK
    <3>2. owner.latest <= Held(d) /\ Held(d) <= Held(disk) /\ Held(disk) <= committed
      BY <1>1 DEF Reached, DiskOK
    <3>3. Held(d) = owner.latest
      BY <3>1, <3>2, HeldRevision
    <3> QED
      BY <1>2, <3>3, HeldRevision, Numbers
  <2>2. /\ owner'.rev = owner.latest
        /\ \/ owner'.durability = "Durable" /\ Reached(survivors, owner.latest)
           \/ owner'.durability = "Unconfirmed" /\ disk.target = owner.latest
           \/ owner'.durability = "NotReplaced" /\ disk.target # owner.latest
    BY <1>2, <1>3
  <2> QED
    BY <1>2, <2>1, <2>2
<1> QED
  BY <1>4, <1>5, <1>6, <1>7, <1>8, <1>9, <1>10 DEF IInv

\* A process ends, or the machine stops, wherever it is; the next one starts
\* with what the disk kept.
LEMMA RestartKeeps ==
  ASSUME IInv, ProcessEnds \/ MachineStops
  PROVE  IInv'
<1>1. /\ TypeOK /\ FileTypeOK /\ DiskOK /\ DurableClaims /\ NoTornFile
      /\ replace' = NoReplace /\ faults' = faults /\ boots' = boots + 1 /\ boots < MaxBoots
      /\ owner' = NewOwner /\ events' = NoEvents /\ commands' = << >> /\ sending' = TRUE
      /\ work' = [NewWorker EXCEPT !.pc = "none"] /\ mail' = EmptyMailbox
      /\ ack' = NoCompletion /\ appWake' = FALSE
      /\ UNCHANGED <<committed, promised, controls>>
  BY DEF IInv, TypeOK, ProcessEnds, MachineStops, Restart, FileProcessEnds, PowerLoss
<1>2. /\ disk \in survivors /\ survivors \subseteq Directories
      /\ promised \in Revisions /\ committed \in Nat /\ None \in Revisions
  BY <1>1, Ranges, Numbers
<1>3. disk' \in survivors /\ disk' \in survivors' /\ survivors' \subseteq survivors
  BY <1>2 DEF ProcessEnds, MachineStops, FileProcessEnds, PowerLoss
<1>4. \/ disk' = disk /\ survivors' = survivors
      \/ survivors' = {disk'}
  BY DEF ProcessEnds, MachineStops, FileProcessEnds, PowerLoss
<1>5. FileTypeOK' /\ ReplaceOK' /\ replace'.step = "idle"
  BY <1>1, <1>2, <1>3, FileAssumption DEF FileTypeOK, ReplaceOK, NoReplace
<1>6. /\ work' \in WorkerStates /\ work'.pc = "none" /\ ~work'.closing
      /\ work'.dirty = None /\ work'.durable = None /\ work'.pending = None
      /\ work'.attempt = "none" /\ ~work'.due
  <2>1. work' = [pc |-> "none", closing |-> FALSE, dirty |-> None, durable |-> None,
                 pending |-> None, attempt |-> "none", due |-> FALSE, warning |-> None]
    BY <1>1 DEF NewWorker
  <2> QED
    BY <1>2, <2>1 DEF WorkerStates
<1>7. /\ owner' \in OwnerStates /\ owner'.pc = "boot" /\ owner'.latest = None
      /\ owner'.retained = None /\ owner'.submitted = None /\ owner'.outcome = "none"
      /\ owner'.durability = "NoCommittedSnapshot"
  BY <1>1, <1>2 DEF NewOwner, OwnerStates
<1>8. /\ << >> \in Seq(Reports) /\ << >> \in Seq(Commands) /\ Len(<< >>) = 0
      /\ DOMAIN << >> = {}
  OBVIOUS
<1>9. /\ mail' \in Mailboxes /\ mail'.reports = << >> /\ ~mail'.warningPending /\ ~mail'.wake
      /\ events' \in EventBatches /\ events'.reports = << >>
      /\ ack' \in Completions
  BY <1>1, <1>2, <1>8
  DEF EmptyMailbox, Mailboxes, NoEvents, EventBatches, NoCompletion, Completions
<1>10. TypeOK'
  <2>1. /\ commands' \in Seq(Commands) /\ Len(commands') <= CommandCapacity
        /\ Len(mail'.reports) <= EventCapacity
    BY <1>1, <1>8, <1>9, WorkerAssumption
  <2>2. boots' \in 1 .. MaxBoots
    BY <1>1, PlaylistAssumption DEF TypeOK
  <2>3. sending' \in BOOLEAN /\ appWake' \in BOOLEAN
    BY <1>1
  <2> QED
    BY <1>1, <1>5, <1>6, <1>7, <1>9, <2>1, <2>2, <2>3 DEF TypeOK, WorkerTypeOK
<1>11. NoTornFile'
  BY <1>1, <1>3 DEF NoTornFile
<1>12. DiskOK'
  <2>1. Held(disk') <= committed
    <3>1. Held(disk') <= Held(disk) /\ Held(disk) <= committed
      BY <1>1, <1>3 DEF DiskOK
    <3> QED
      BY <1>2, <3>1, HeldRevision
  <2>2. \A d \in survivors' :
          /\ Held(d) <= Held(disk')
          /\ \A c \in {Corrupt, Newer} :
                c \in {disk'.target, disk'.aside} => c \in {d.target, d.aside}
    <3>1. CASE disk' = disk /\ survivors' = survivors
      BY <1>1, <3>1 DEF DiskOK
    <3>2. CASE survivors' = {disk'}
      BY <3>2, HeldRevision
    <3> QED
      BY <1>4, <3>1, <3>2
  <2> QED
    BY <1>1, <1>5, <1>6, <2>1, <2>2 DEF DiskOK
<1>13. AttemptOK' /\ RetrySyncsWhatIsThere' /\ AckOK'
  BY <1>6, Numbers DEF AttemptOK, Scheduled, RetrySyncsWhatIsThere, AckOK
<1>14. DurableClaims'
  <2>1. Reached(survivors', promised)
    BY <1>1, <1>3 DEF DurableClaims, Reached
  <2>2. Reached(survivors', None)
    BY Numbers, HeldRevision DEF Reached
  <2> QED
    BY <1>1, <1>6, <1>7, <1>8, <1>9, <2>1, <2>2 DEF DurableClaims
<1>15. RevisionsOK' /\ LatestIsHeld'
  BY <1>1, <1>6, <1>7, <1>8, Numbers DEF RevisionsOK, LatestIsHeld, Sent
<1>16. StagesOK'
  BY <1>1, <1>6, <1>7, <1>8 DEF StagesOK
<1>17. RoomOK'
  BY <1>6, <1>8, <1>9, WorkerAssumption DEF RoomOK
<1>18. WakeOK' /\ NoLostWake' /\ ShutdownTellsTheTruth'
  BY <1>7, <1>9 DEF WakeOK, NoLostWake, HasPendingPayload, ShutdownTellsTheTruth
<1> QED
  BY <1>10, <1>11, <1>12, <1>13, <1>14, <1>15, <1>16, <1>17, <1>18 DEF IInv

-----------------------------------------------------------------------------
(* The theorems *)

\* The first process, over no file or one it cannot read.
LEMMA InitEstablishes == Init => IInv
<1> SUFFICES ASSUME Init PROVE IInv
  OBVIOUS
<1>1. /\ owner = NewOwner /\ events = NoEvents /\ commands = << >> /\ sending = TRUE
      /\ work = [NewWorker EXCEPT !.pc = "none"] /\ mail = EmptyMailbox
      /\ ack = NoCompletion /\ appWake = FALSE /\ committed = 0 /\ promised = 0
      /\ boots = 1 /\ controls = 0
      /\ survivors = {disk} /\ replace = NoReplace /\ faults = 0
  BY DEF Init, FileInit, WorkerInit
<1>2. PICK content \in {Missing, Corrupt, Newer} : disk = [target |-> content, aside |-> Missing]
  BY DEF Init, FileInit
<1>3. /\ disk \in Directories /\ disk.target \in {Missing, Corrupt, Newer}
      /\ disk.target # Torn /\ disk.target \notin Snapshots
  BY <1>2, ContentKinds DEF Directories
<1>4. Held(disk) = 0 /\ None \in Revisions /\ None = 0 /\ 0 \in Revisions
  BY <1>3, HeldRevision, Numbers
<1>5. FileTypeOK /\ ReplaceOK /\ replace.step = "idle"
  BY <1>1, <1>3, FileAssumption DEF FileTypeOK, ReplaceOK, NoReplace
<1>6. /\ work \in WorkerStates /\ work.pc = "none" /\ ~work.closing
      /\ work.dirty = None /\ work.durable = None /\ work.pending = None
      /\ work.attempt = "none" /\ ~work.due
  <2>1. work = [pc |-> "none", closing |-> FALSE, dirty |-> None, durable |-> None,
                pending |-> None, attempt |-> "none", due |-> FALSE, warning |-> None]
    BY <1>1 DEF NewWorker
  <2> QED
    BY <1>4, <2>1 DEF WorkerStates
<1>7. /\ owner \in OwnerStates /\ owner.pc = "boot" /\ owner.latest = None
      /\ owner.retained = None /\ owner.submitted = None /\ owner.outcome = "none"
      /\ owner.durability = "NoCommittedSnapshot"
  BY <1>1, <1>4 DEF NewOwner, OwnerStates
<1>8. /\ << >> \in Seq(Reports) /\ << >> \in Seq(Commands) /\ Len(<< >>) = 0
      /\ DOMAIN << >> = {}
  OBVIOUS
<1>9. /\ mail \in Mailboxes /\ mail.reports = << >> /\ ~mail.warningPending /\ ~mail.wake
      /\ events \in EventBatches /\ events.reports = << >>
      /\ ack \in Completions
  BY <1>1, <1>4, <1>8
  DEF EmptyMailbox, Mailboxes, NoEvents, EventBatches, NoCompletion, Completions
<1>10. TypeOK
  <2>1. /\ commands \in Seq(Commands) /\ Len(commands) <= CommandCapacity
        /\ Len(mail.reports) <= EventCapacity
    BY <1>1, <1>8, <1>9, WorkerAssumption
  <2>2. boots \in 1 .. MaxBoots /\ controls \in 0 .. MaxControls
    BY <1>1, PlaylistAssumption
  <2>3. sending \in BOOLEAN /\ appWake \in BOOLEAN
    BY <1>1
  <2> QED
    BY <1>1, <1>4, <1>5, <1>6, <1>7, <1>9, <2>1, <2>2, <2>3 DEF TypeOK, WorkerTypeOK
<1>11. NoTornFile
  BY <1>1, <1>3 DEF NoTornFile
<1>12. DiskOK
  BY <1>1, <1>4, <1>5, <1>6 DEF DiskOK
<1>13. AttemptOK /\ RetrySyncsWhatIsThere /\ AckOK
  BY <1>6, Numbers DEF AttemptOK, Scheduled, RetrySyncsWhatIsThere, AckOK
<1>14. DurableClaims
  <2>1. Reached(survivors, None)
    BY Numbers, HeldRevision DEF Reached
  <2> QED
    BY <1>1, <1>4, <1>6, <1>7, <1>8, <1>9, <2>1 DEF DurableClaims
<1>15. RevisionsOK /\ LatestIsHeld
  BY <1>1, <1>6, <1>7, <1>8, Numbers DEF RevisionsOK, LatestIsHeld, Sent
<1>16. StagesOK
  BY <1>1, <1>6, <1>7, <1>8 DEF StagesOK
<1>17. RoomOK
  BY <1>6, <1>8, <1>9, WorkerAssumption DEF RoomOK
<1>18. WakeOK /\ NoLostWake /\ ShutdownTellsTheTruth
  BY <1>7, <1>9 DEF WakeOK, NoLostWake, HasPendingPayload, ShutdownTellsTheTruth
<1> QED
  BY <1>10, <1>11, <1>12, <1>13, <1>14, <1>15, <1>16, <1>17, <1>18 DEF IInv

\* Every step keeps the invariant.
LEMMA NextKeeps == IInv /\ [Next]_vars => IInv'
<1> SUFFICES ASSUME IInv, [Next]_vars PROVE IInv'
  OBVIOUS
<1>1. CASE StartPersistent \/ StartQuarantined \/ StartBlocked
  BY <1>1, StartKeeps
<1>2. CASE \/ ClearWakePending \/ RepublishEdge \/ CaptureFails \/ ReceiveAcknowledgement
           \/ AcknowledgementTimesOut \/ ShutdownWithoutWorker \/ AdmissionTimesOut
  BY <1>2, OwnerMoves
<1>3. CASE BeginShutdown \/ DrainPersistence
  BY <1>3, DrainKeeps
<1>4. CASE UserRescheduleDebounce \/ UserRetryNow \/ ResumeWorker
  BY <1>4, ControlKeeps
<1>5. CASE PublishCommitted
  BY <1>5, CommitKeeps
<1>6. CASE ApplyEvents
  BY <1>6, ApplyKeeps
<1>7. CASE AdmitShutdown
  BY <1>7, AdmitKeeps
<1>8. CASE JoinEnds
  BY <1>8, JoinKeeps
<1>9. CASE WorkerNext
  BY <1>9, WorkerKeeps
<1>10. CASE ProcessEnds \/ MachineStops
  BY <1>10, RestartKeeps
<1>11. CASE UNCHANGED vars
  <2>1. UNCHANGED <<disk, survivors, replace, faults, commands, sending, work, mail, ack,
                    appWake, owner, events, committed, promised, boots, controls>>
    BY <1>11 DEF vars, fileVars, workerVars, ownerVars
  <2>2. TypeOK' /\ NoTornFile' /\ DiskOK' /\ AttemptOK' /\ RetrySyncsWhatIsThere'
    BY <2>1 DEF IInv, TypeOK, FileTypeOK, WorkerTypeOK, NoTornFile, DiskOK, ReplaceOK,
       AttemptOK, RetrySyncsWhatIsThere
  <2>3. DurableClaims' /\ RevisionsOK' /\ LatestIsHeld' /\ AckOK'
    BY <2>1 DEF IInv, DurableClaims, RevisionsOK, Sent, LatestIsHeld, OwnerAt, AckOK
  <2>4. StagesOK' /\ RoomOK' /\ WakeOK' /\ NoLostWake' /\ ShutdownTellsTheTruth'
    BY <2>1 DEF IInv, StagesOK, RoomOK, WakeOK, NoLostWake, HasPendingPayload,
       ShutdownTellsTheTruth
  <2> QED
    BY <2>2, <2>3, <2>4 DEF IInv
<1> QED
  BY <1>1, <1>2, <1>3, <1>4, <1>5, <1>6, <1>7, <1>8, <1>9, <1>10, <1>11
  DEF Next, UserStep, OwnerStep

\* The inductive invariant holds in every process, through every crash.
THEOREM Invariance == Spec => []IInv
<1>1. IInv /\ [Next]_vars => IInv'
  BY NextKeeps
<1> QED
  BY <1>1, InitEstablishes, PTL DEF Spec

\* SaveInv: no torn file, no promise a power loss can break, the newest snapshot
\* always on its way, a directory sync only for what is in the file, no report
\* dropped and no wake lost (SaveWorker, PlaylistPersistenceOwner).
THEOREM SavingIsSafe == Spec => []SaveInv
<1>1. IInv => SaveInv
  <2> SUFFICES ASSUME IInv PROVE SaveInv
    OBVIOUS
  <2>1. PromiseSurvives
    <3> SUFFICES ASSUME promised # None, NEW d \in survivors
                 PROVE  d.target \in Snapshots /\ d.target >= promised
      BY DEF PromiseSurvives
    <3>1. promised \in Nat /\ promised # 0 /\ promised <= Held(d)
      BY Ranges, Numbers DEF IInv, DurableClaims, Reached
    <3>2. Held(d) \in Nat /\ Held(d) # 0
      BY <3>1, HeldRevision
    <3> QED
      BY <3>1, <3>2, HeldRevision
  <2>2. NoReportDropped
    <3> SUFFICES ASSUME work.pc = "io" PROVE Len(mail.reports) < EventCapacity
      BY DEF NoReportDropped, At
    <3>1. Len(mail.reports) \in Nat /\ EventCapacity \in Nat
      BY Ranges, WorkerAssumption DEF IInv
    <3>2. Len(mail.reports) < IF work.closing THEN EventCapacity ELSE EventCapacity - 1
      BY DEF IInv, RoomOK
    <3> QED
      BY <3>1, <3>2
  <2> QED
    BY <2>1, <2>2 DEF IInv, SaveInv
<1> QED
  BY <1>1, Invariance, PTL

\* A shutdown that reports completion tells how the newest snapshot fared
\* (shutdown_until, apply_shutdown_completion).
THEOREM ShutdownIsTruthful == Spec => []ShutdownTellsTheTruth
BY Invariance, PTL DEF IInv

-----------------------------------------------------------------------------
(* Steps of the file, and the refinement *)

\* Which steps touch the file, what was committed and what was promised.
LEMMA OtherSteps ==
  ASSUME \/ StartPersistent \/ StartBlocked \/ ClearWakePending \/ RepublishEdge
         \/ CaptureFails \/ ReceiveAcknowledgement \/ AcknowledgementTimesOut
         \/ ShutdownWithoutWorker \/ AdmissionTimesOut \/ BeginShutdown \/ DrainPersistence
         \/ UserRescheduleDebounce \/ UserRetryNow \/ ResumeWorker \/ AdmitShutdown
         \/ (WorkerNext /\ ~FileOperation) \/ ProcessEnds
  PROVE  UNCHANGED <<disk, committed, promised>>
<1>1. CASE WorkerNext /\ ~FileOperation
  BY <1>1 DEF WorkerNext, ownerVars, WorkerStep, ReceiveCommand, DeadlineReached, Disconnected,
     ReadyCommand, NotDue, ExecuteAttempt, WaitForDrain, ReceiveWhenFull, AttemptCompletes,
     PublishAttemptEdge, PublishWarning, PublishWarningEdge, Acknowledge, ThreadExits,
     ProcessCommand, Goto, fileVars
<1>2. CASE ProcessEnds
  BY <1>2 DEF ProcessEnds, FileProcessEnds, Restart
<1>3. CASE ~(WorkerNext /\ ~FileOperation) /\ ~ProcessEnds
  BY <1>3 DEF StartPersistent, StartBlocked, ClearWakePending, RepublishEdge, CaptureFails,
     ReceiveAcknowledgement, AcknowledgementTimesOut, ShutdownWithoutWorker, AdmissionTimesOut,
     BeginShutdown, DrainPersistence, Drain, UserRescheduleDebounce, UserRetryNow, Control,
     ResumeWorker, AdmitShutdown, fileVars
<1> QED
  BY <1>1, <1>2, <1>3

\* A file that cannot be read is moved aside by its own name only.
LEMMA QuarantineEffect ==
  ASSUME IInv, StartQuarantined
  PROVE  /\ disk.target = Corrupt /\ disk' = [target |-> Missing, aside |-> Corrupt]
         /\ Held(disk) = 0 /\ Held(disk') = 0
         /\ UNCHANGED <<committed, promised>>
<1>1. disk.target = Corrupt
  BY DEF IInv, TypeOK, FileTypeOK, NoTornFile, StartQuarantined
<1>2. /\ disk' = [target |-> Missing, aside |-> Corrupt]
      /\ UNCHANGED <<committed, promised>>
  BY <1>1 DEF StartQuarantined, SetAside
<1> QED
  BY <1>1, <1>2, HeldRevision, ContentKinds

\* No step destroys a file the application cannot read: a worker only replaces
\* what it could read or what was missing, and a power loss keeps the file in
\* one of its two places (apply_inspection_outcome).
THEOREM UnreadableFilesSurvive == Spec => UnreadableFileIsKept
<1> DEFINE Kept == \A c \in {Corrupt, Newer} :
                      c \in {disk.target, disk.aside} => c \in {disk.target, disk.aside}'
<1>1. IInv /\ [Next]_vars => [Kept]_vars
  <2> SUFFICES ASSUME IInv, Next PROVE Kept
    BY DEF vars
  <2>1. CASE disk' = disk
    BY <2>1
  <2>2. CASE WorkerNext /\ FileOperation
    <3>1. disk'.aside = disk.aside
      BY <2>2, FileOperationEffect DEF WorkerNext
    <3>2. disk.target \notin {Corrupt, Newer}
      BY <2>2 DEF IInv, DiskOK, FileOperation, At
    <3> QED
      BY <3>1, <3>2
  <2>3. CASE StartQuarantined
    <3>1. disk.aside # Newer
      <4>1. disk.aside \in {Missing, Corrupt} /\ Missing # Newer /\ Corrupt # Newer
        BY FileAssumption DEF IInv, TypeOK, FileTypeOK, Directories, Missing, Corrupt, Newer
      <4> QED
        BY <4>1
    <3>2. Corrupt # Newer
      BY FileAssumption DEF Corrupt, Newer
    <3>3. disk'.aside = Corrupt /\ disk.target = Corrupt
      BY <2>3, QuarantineEffect
    <3> QED
      BY <3>1, <3>2, <3>3
  <2>4. CASE MachineStops
    <3>1. disk' \in survivors
      BY <2>4 DEF MachineStops, PowerLoss
    <3> QED
      BY <3>1 DEF IInv, DiskOK
  <2>5. CASE PublishCommitted \/ ApplyEvents \/ JoinEnds
    BY <2>1, <2>5 DEF PublishCommitted, ApplyEvents, JoinEnds, fileVars
  <2> QED
    BY <2>1, <2>2, <2>3, <2>4, <2>5, OtherSteps DEF Next, UserStep, OwnerStep
<1> QED
  BY <1>1, Invariance, PTL DEF Spec, UnreadableFileIsKept

\* What the file holds is what the promise calls saved.
saved == IF disk.target \in Snapshots THEN disk.target ELSE 0

\* Before the first commit nothing is saved and nothing promised.
LEMMA InitImplements == Init => Saved!Init
<1> SUFFICES ASSUME Init PROVE Saved!Init
  OBVIOUS
<1>1. disk.target \notin Snapshots /\ committed = 0 /\ promised = 0
  BY ContentKinds DEF Init, FileInit
<1> QED
  BY <1>1 DEF Saved!Init

\* Every step commits, saves, promises or loses, or changes none of it.
LEMMA NextImplements ==
  IInv /\ [Next]_vars => [Saved!Next]_<<committed, saved, promised>>
<1> SUFFICES ASSUME IInv, [Next]_vars
             PROVE  Saved!Next \/ UNCHANGED <<committed, saved, promised>>
  OBVIOUS
<1>1. /\ saved = Held(disk) /\ saved' = Held(disk')
      /\ saved \in Nat /\ saved' \in Nat
  BY HeldRevision DEF saved, Held
<1>2. /\ committed \in Nat /\ promised \in Nat /\ promised \in Revisions
      /\ Reached(survivors, promised) /\ disk \in survivors
  BY Ranges, Numbers DEF IInv, DurableClaims
<1>3. CASE UNCHANGED <<disk, committed, promised>>
  BY <1>3 DEF saved
<1>4. CASE PublishCommitted
  <2>1. committed < MaxSnapshots /\ committed' = committed + 1 /\ UNCHANGED <<disk, promised>>
    BY <1>4 DEF PublishCommitted, fileVars
  <2>2. Saved!Commit
    BY <2>1 DEF Saved!Commit
  <2> QED
    BY <2>2 DEF Saved!Next
<1>5. CASE ApplyEvents \/ JoinEnds
  <2>1. /\ promised' \in Revisions /\ promised <= promised' /\ Reached(survivors, promised')
    BY <1>5, ApplyEffect, JoinEffect
  <2>2. UNCHANGED <<disk, committed>>
    BY <1>5 DEF ApplyEvents, JoinEnds, fileVars
  <2>3. promised' <= Held(disk) /\ promised' \in Nat
    BY <1>2, <2>1, Numbers DEF Reached
  <2>4. CASE promised' = promised
    BY <1>3, <2>2, <2>4
  <2>5. CASE promised' # promised
    <3>1. promised' \in promised + 1 .. saved
      BY <1>1, <1>2, <2>1, <2>3, <2>5
    <3>2. Saved!Promise
      BY <2>2, <3>1 DEF Saved!Promise, saved
    <3> QED
      BY <3>2 DEF Saved!Next
  <2> QED
    BY <2>4, <2>5
<1>6. CASE WorkerNext /\ FileOperation
  <2>1. Held(disk) <= Held(disk') /\ Held(disk') <= committed
    BY <1>6, FileOperationEffect DEF WorkerNext
  <2>2. UNCHANGED <<committed, promised>>
    BY <1>6 DEF WorkerNext, ownerVars
  <2>3. CASE saved' = saved
    BY <2>2, <2>3
  <2>4. CASE saved' # saved
    <3>1. saved' \in saved + 1 .. committed
      BY <1>1, <1>2, <2>1, <2>4
    <3>2. Saved!Save
      BY <2>2, <3>1 DEF Saved!Save, saved
    <3> QED
      BY <3>2 DEF Saved!Next
  <2> QED
    BY <2>3, <2>4
<1>7. CASE StartQuarantined
  BY <1>1, <1>7, QuarantineEffect
<1>8. CASE MachineStops
  <2>1. disk' \in survivors /\ UNCHANGED <<committed, promised>>
    BY <1>8 DEF MachineStops, PowerLoss, Restart
  <2>2. promised <= Held(disk') /\ Held(disk') <= Held(disk)
    BY <1>2, <2>1 DEF Reached, IInv, DiskOK
  <2>3. saved' \in promised .. saved
    BY <1>1, <1>2, <2>2
  <2>4. Saved!Lose
    BY <2>1, <2>3 DEF Saved!Lose, saved
  <2> QED
    BY <2>4 DEF Saved!Next
<1>9. CASE UNCHANGED vars
  BY <1>3, <1>9 DEF vars, fileVars, ownerVars
<1> QED
  BY <1>3, <1>4, <1>5, <1>6, <1>7, <1>8, <1>9, OtherSteps DEF Next, UserStep, OwnerStep

\* Saving the playlist, with its threads, queues, retries and crashes,
\* implements what SavedState promises the user.
THEOREM SavingImplementsPromise == Spec => SavesAsPromised
<1>1. IInv /\ [Next]_vars => [Saved!Next]_<<committed, saved, promised>>
  BY NextImplements
<1> QED
  BY <1>1, InitImplements, Invariance, PTL
     DEF Spec, SavesAsPromised, Saved!Spec, Saved!vars, saved

=============================================================================
