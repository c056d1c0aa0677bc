--------------------------- MODULE PrefetchProofs ---------------------------
(***************************************************************************)
(* Proofs about Prefetch: the inductive invariant, the safety invariants    *)
(* that follow from it, and the refinement of ByteSource.                   *)
(***************************************************************************)
EXTENDS Prefetch, TLAPS, SequenceTheorems, WellFoundedInduction

-----------------------------------------------------------------------------
(* Lemmas about the window *)

\* Every non-empty set of naturals has a least element.
LEMMA LeastNatural ==
  ASSUME NEW T \in SUBSET Nat, T # {}
  PROVE  \E x \in T : \A y \in T : x <= y
<1>1. PICK x \in T : \A y \in T : ~ (<<y, x>> \in OpToRel(<, Nat))
  BY NatLessThanWellFounded, WFMin
<1>2. \A y \in T : ~ (y < x)
  BY <1>1 DEF OpToRel
<1> QED
  BY <1>2

\* Typing facts of the window in the form the provers use them.
LEMMA WindowTypes ==
  ASSUME TypeOK
  PROVE  /\ base \in Nat /\ total \in Nat /\ MaxOffset \in Nat
         /\ ChunkBytes \in Nat /\ LookbackBytes = ChunkBytes
         /\ chunks \in Seq(Chunk) /\ Len(chunks) \in Nat
         /\ DOMAIN chunks = 1..Len(chunks)
         /\ \A i \in DOMAIN chunks : /\ chunks[i] \in Chunk
                                    /\ chunks[i].src \in Nat
                                    /\ chunks[i].end \in Offset
                                    /\ chunks[i].end \in Nat
<1>1. base \in Nat /\ total \in Nat /\ chunks \in Seq(Chunk)
  BY SourceAssumption DEF TypeOK, Offset
<1>2. /\ Len(chunks) \in Nat /\ DOMAIN chunks = 1..Len(chunks)
      /\ \A i \in DOMAIN chunks : chunks[i] \in Chunk
  BY <1>1, ElementOfSeq, LenProperties
<1>3. \A c \in Chunk : c.src \in Nat /\ c.end \in Offset /\ c.end \in Nat
  BY SourceAssumption DEF Chunk, Offset
<1> QED
  BY <1>1, <1>2, <1>3, SourceAssumption, ConfigAssumption DEF LookbackBytes

\* A byte read inside the window is the medium's byte at that offset: the
\* copy loop of copy_available_bytes finds the chunk that holds it.
LEMMA ByteAtIsMedium ==
  ASSUME TypeOK, WindowIsMedium, NEW a \in Nat, base <= a, a < BufferedEnd
  PROVE  ByteAt(a) = a
<1> DEFINE T == {i \in DOMAIN chunks : a < chunks[i].end}
<1>1. /\ base \in Nat /\ total \in Nat
      /\ chunks \in Seq(Chunk) /\ DOMAIN chunks = 1..Len(chunks)
      /\ Len(chunks) \in Nat
      /\ \A i \in DOMAIN chunks : chunks[i].end \in Nat /\ chunks[i].src \in Nat
  BY WindowTypes
<1>2. Len(chunks) \in T
  BY <1>1 DEF WindowIsMedium, BufferedEnd
<1>3. T \in SUBSET Nat
  BY <1>1
<1>4. PICK k \in T : \A i \in T : k <= i
  BY <1>2, <1>3, LeastNatural
<1>5. ChunkStart(k) <= a /\ a < chunks[k].end
  <2>1. CASE k = 1
    BY <2>1, <1>4 DEF ChunkStart
  <2>2. CASE k # 1
    <3>1. k - 1 \in DOMAIN chunks /\ k - 1 \notin T
      BY <2>2, <1>1, <1>4
    <3> QED
      BY <3>1, <2>2, <1>1, <1>4 DEF ChunkStart
  <2> QED
    BY <2>1, <2>2
<1>6. \A i \in DOMAIN chunks : chunks[i].src = ChunkStart(i)
  BY DEF WindowIsMedium
<1> DEFINE c == CHOOSE i \in DOMAIN chunks :
                  ChunkStart(i) <= a /\ a < chunks[i].end
<1>7. c \in DOMAIN chunks
  BY <1>4, <1>5
<1>8. chunks[c].src = ChunkStart(c) /\ chunks[c].src \in Nat
  BY <1>1, <1>6, <1>7
<1> HIDE DEF c
<1>9. chunks[c].src + (a - ChunkStart(c)) = a
  BY <1>8
<1> QED
  BY <1>9 DEF ByteAt, c

\* Dropping the bytes before c from a window of t bytes at b keeps its end.
LEMMA EndStays ==
  \A b, t, c \in Nat : c <= b + t => /\ t - (c - b) \in Nat
                                     /\ c + (t - (c - b)) = b + t
OBVIOUS

\* Moving the cursor inside the window and evicting behind the lookback keeps
\* the end of the window and its contents.
LEMMA EvictionKeepsWindow ==
  ASSUME TypeOK, WindowIsMedium, srcLen' = srcLen, NEW o \in Offset,
         base <= o, o <= BufferedEnd, MoveCursorAndEvict(o)
  PROVE  /\ chunks' \in Seq(Chunk)
         /\ base' \in Offset /\ total' \in Nat
         /\ cursor' = o /\ eof' = eof
         /\ BufferedEnd' = BufferedEnd
         /\ base' <= o
         /\ WindowIsMedium'
<1> DEFINE keepFrom == IF o > LookbackBytes THEN o - LookbackBytes ELSE 0
<1>1. PICK k \in 1..(Len(chunks) + 1) :
          /\ \A i \in 1..(k - 1) : chunks[i].end <= keepFrom
          /\ cursor' = o
          /\ chunks' = SubSeq(chunks, k, Len(chunks))
          /\ base' = ChunkStart(k)
          /\ total' = total - (ChunkStart(k) - base)
          /\ eof' = eof
  BY DEF MoveCursorAndEvict
<1>2. /\ base \in Nat /\ total \in Nat /\ o \in Nat /\ MaxOffset \in Nat
      /\ ChunkBytes \in Nat /\ LookbackBytes = ChunkBytes
      /\ chunks \in Seq(Chunk) /\ Len(chunks) \in Nat
      /\ DOMAIN chunks = 1..Len(chunks)
      /\ \A i \in DOMAIN chunks : chunks[i].end \in Offset /\ chunks[i].end \in Nat
  BY WindowTypes DEF Offset
<1>3. keepFrom \in Nat /\ keepFrom <= o
  BY <1>2
<1>4. /\ chunks' \in Seq(Chunk)
      /\ Len(chunks') = Len(chunks) - k + 1
      /\ \A i \in 1..(Len(chunks) - k + 1) : chunks'[i] = chunks[k + i - 1]
      /\ DOMAIN chunks' = 1..(Len(chunks) - k + 1)
  BY <1>1, <1>2
<1>5. base' \in Offset /\ base' <= o /\ base' <= BufferedEnd
  <2>1. CASE k = 1
    BY <2>1, <1>1, <1>2 DEF ChunkStart, Offset, TypeOK, BufferedEnd
  <2>2. CASE k # 1
    <3>1. k - 1 \in DOMAIN chunks /\ base' = chunks[k - 1].end
      BY <2>2, <1>1, <1>2 DEF ChunkStart
    <3>2. chunks[k - 1].end <= keepFrom
      BY <2>2, <1>1, <1>2
    <3> HIDE DEF keepFrom
    <3> QED
      BY <3>1, <3>2, <1>2, <1>3 DEF BufferedEnd
  <2> QED
    BY <2>1, <2>2
<1>6. total' \in Nat /\ BufferedEnd' = BufferedEnd
  <2>1. total' = total - (base' - base)
    BY <1>1
  <2>2. base' \in Nat /\ base' <= base + total
    BY <1>2, <1>5 DEF BufferedEnd, Offset
  <2>3. base \in Nat /\ total \in Nat
    BY <1>2
  <2>4. total' \in Nat /\ base' + total' = base + total
    BY <2>1, <2>2, <2>3, EndStays
  <2> QED
    BY <2>4 DEF BufferedEnd
<1>7. WindowIsMedium'
  <2>1. \A i \in DOMAIN chunks' : ChunkStart(i)' = ChunkStart(k + i - 1)
    <3> SUFFICES ASSUME NEW i \in DOMAIN chunks'
                 PROVE  ChunkStart(i)' = ChunkStart(k + i - 1)
      OBVIOUS
    <3>1. CASE i = 1
      <4>1. ChunkStart(i)' = base' /\ k + i - 1 = k
        BY <3>1, <1>2 DEF ChunkStart
      <4> QED
        BY <4>1, <1>1
    <3>2. CASE i # 1
      <4>1. i - 1 \in 1..(Len(chunks) - k + 1) /\ k + (i - 1) - 1 = (k + i - 1) - 1
        BY <3>2, <1>2, <1>4
      <4>2. chunks'[i - 1] = chunks[(k + i - 1) - 1]
        BY <4>1, <1>4
      <4> QED
        BY <4>2, <3>2, <1>2, <1>4 DEF ChunkStart
    <3> QED
      BY <3>1, <3>2
  <2>2. \A i \in DOMAIN chunks' : k + i - 1 \in DOMAIN chunks
    BY <1>2, <1>4
  <2>3. \A i \in DOMAIN chunks' : /\ ChunkStart(i)' < chunks'[i].end
                                  /\ chunks'[i].src = ChunkStart(i)'
                                  /\ chunks'[i].end <= srcLen
    BY <2>1, <2>2, <1>4 DEF WindowIsMedium
  <2>4. \A i \in DOMAIN chunks' : base' < chunks'[i].end
    <3> SUFFICES ASSUME NEW i \in DOMAIN chunks' PROVE base' < chunks'[i].end
      OBVIOUS
    <3>1. CASE k = 1
      BY <3>1, <1>1, <1>2, <1>4, <2>2 DEF WindowIsMedium, ChunkStart
    <3>2. CASE k # 1
      <4>1. base' = chunks[k - 1].end /\ k - 1 \in DOMAIN chunks
        BY <3>2, <1>1, <1>2 DEF ChunkStart
      <4>2. k - 1 < k + i - 1
        BY <1>2, <1>4
      <4> QED
        BY <4>1, <4>2, <2>2, <1>4 DEF WindowIsMedium
    <3> QED
      BY <3>1, <3>2
  <2>5. \A i, j \in DOMAIN chunks' : i < j => chunks'[i].end < chunks'[j].end
    <3> SUFFICES ASSUME NEW i \in DOMAIN chunks', NEW j \in DOMAIN chunks', i < j
                 PROVE  chunks'[i].end < chunks'[j].end
      OBVIOUS
    <3>1. k + i - 1 < k + j - 1
      BY <1>2, <1>4
    <3> QED
      BY <3>1, <2>2, <1>4 DEF WindowIsMedium
  <2>6. BufferedEnd' = IF Len(chunks') = 0 THEN base'
                       ELSE chunks'[Len(chunks')].end
    <3>1. CASE k = Len(chunks) + 1
      BY <3>1, <1>1, <1>2, <1>4, <1>6 DEF WindowIsMedium, ChunkStart
    <3>2. CASE k <= Len(chunks)
      BY <3>2, <1>2, <1>4, <1>6 DEF WindowIsMedium
    <3> QED
      BY <3>1, <3>2, <1>2
  <2> QED
    BY <2>3, <2>4, <2>5, <2>6 DEF WindowIsMedium
<1> QED
  BY <1>1, <1>4, <1>5, <1>6, <1>7

-----------------------------------------------------------------------------
(* The inductive invariant *)

\* A step that leaves the buffer alone leaves every fact about it alone.
LEMMA BufferUnchanged ==
  ASSUME IInv, UNCHANGED <<srcLen, seekable>>, UNCHANGED bufferVars
  PROVE  /\ WindowIsMedium' /\ BufferedEnd' = BufferedEnd
         /\ EofTruthful' /\ CursorNearWindow'
         /\ chunks' \in Seq(Chunk) /\ base' \in Offset /\ cursor' \in Offset
         /\ eof' \in OptOffset /\ total' \in Nat /\ BufferedEnd' <= MaxOffset
         /\ base' = base /\ cursor' = cursor /\ eof' = eof /\ total' = total
BY DEF IInv, TypeOK, bufferVars, WindowIsMedium, BufferedEnd, ChunkStart,
       EofTruthful, CursorNearWindow

\* The shapes of the fetch record the steps write.
LEMMA BeginFetchType ==
  ASSUME NEW start \in Offset, NEW len \in InitialChunk..ChunkBytes,
         BeginFetch(start, len)
  PROVE  /\ active' \in Fetch /\ active'.on = TRUE /\ active'.start = start
         /\ active'.cancelled = FALSE /\ active'.end <= start + ChunkBytes
         /\ wpc' = IF seekable THEN "seek" ELSE "read"
BY SourceAssumption, ConfigAssumption DEF BeginFetch, Fetch, Smaller, Offset

\* The idle fetch record is a fetch record.
LEMMA NoFetchType ==
  /\ NoFetch \in Fetch /\ NoFetch.on = FALSE /\ NoFetch.cancelled = FALSE
  /\ NoFetch.start = 0 /\ NoFetch.end = 0
BY SourceAssumption DEF NoFetch, Fetch, Offset

\* The fetch in flight has the offsets and sizes of a fetch record.
LEMMA ActiveType ==
  ASSUME TypeOK
  PROVE  /\ active.on \in BOOLEAN /\ active.cancelled \in BOOLEAN
         /\ active.start \in Offset /\ active.end \in Offset
         /\ active.start \in Nat /\ active.end \in Nat
BY SourceAssumption DEF TypeOK, Fetch, Offset

\* The source is not dropped while a caller is inside read or seek: Drop takes
\* the source by unique ownership.
LEMMA AliveWhileCalled ==
  ASSUME IInv, fg \in {"idle", "reading"}
  PROVE  shutdown = FALSE /\ token = FALSE
<1>1. shutdown \in BOOLEAN /\ token \in BOOLEAN
  BY DEF IInv, TypeOK
<1>2. ~shutdown /\ ~token
  BY DEF IInv, CallerCoherent
<1> QED
  BY <1>1, <1>2

\* The worker steps outside PublishRead and TakeSeekRequest.
LEMMA WorkerStepsKeepIInv ==
  ASSUME IInv, UNCHANGED <<srcLen, seekable>>,
         StopWorker \/ ChooseFetch \/ WaitForWork \/ SpuriousWakeup \/ InnerSeek
         \/ PublishSeekError \/ AbandonFetch \/ InnerRead
  PROVE  IInv'
<1> USE SourceAssumption, ConfigAssumption
<1>1. UNCHANGED bufferVars
  BY DEF StopWorker, ChooseFetch, WaitForWork, SpuriousWakeup, InnerSeek,
         PublishSeekError, AbandonFetch, InnerRead
<1>2. /\ WindowIsMedium' /\ BufferedEnd' = BufferedEnd
      /\ EofTruthful' /\ CursorNearWindow'
      /\ chunks' \in Seq(Chunk) /\ base' \in Offset /\ cursor' \in Offset
      /\ eof' \in OptOffset /\ total' \in Nat /\ BufferedEnd' <= MaxOffset
      /\ base' = base /\ cursor' = cursor /\ eof' = eof /\ total' = total
  BY <1>1, BufferUnchanged
<1>3. CASE StopWorker
  BY <1>2, <1>3 DEF IInv, StopWorker, TypeOK, PositionCoherent, LiveFetchExtendsWindow,
         ErrorBelongsToWindow, FetchCoherent, CallerCoherent, workerVars, callerVars
<1>4. CASE ChooseFetch
  <2>1. BufferedEnd \in Offset /\ BufferedEnd \in Nat /\ chunkLen \in InitialChunk..ChunkBytes
    BY DEF IInv, TypeOK, BufferedEnd, Offset
  <2>2. /\ active' \in Fetch /\ active'.on = TRUE /\ active'.start = BufferedEnd
        /\ active'.cancelled = FALSE /\ active'.end <= BufferedEnd + ChunkBytes
        /\ wpc' = IF seekable THEN "seek" ELSE "read"
    BY <2>1, <1>4, BeginFetchType DEF ChooseFetch
  <2>3. /\ UNCHANGED <<seekRequest, fatal, shutdown, chunkLen, innerPos, fetched,
                       token, fg, want, readCancelled, lifecycle, logical>>
        /\ wpc = "choose" /\ seekRequest = None /\ ~fatal /\ eof = None
    BY <1>4 DEF ChooseFetch, NeedsFetch, workerVars, callerVars
  <2>4. TypeOK'
    BY <1>2, <2>2, <2>3 DEF IInv, TypeOK
  <2>5. PositionCoherent' /\ ErrorBelongsToWindow' /\ LiveFetchExtendsWindow'
    BY <1>2, <2>2, <2>3 DEF IInv, PositionCoherent, ErrorBelongsToWindow,
           LiveFetchExtendsWindow
  <2>6. FetchCoherent' /\ CallerCoherent'
    BY <1>2, <2>1, <2>2, <2>3 DEF IInv, FetchCoherent, CallerCoherent
  <2> QED
    BY <1>2, <2>4, <2>5, <2>6 DEF IInv
<1>5. CASE WaitForWork
  BY <1>2, <1>5 DEF IInv, WaitForWork, TypeOK, PositionCoherent, LiveFetchExtendsWindow,
         ErrorBelongsToWindow, FetchCoherent, CallerCoherent, workerVars, callerVars
<1>6. CASE SpuriousWakeup
  BY <1>2, <1>6 DEF IInv, SpuriousWakeup, TypeOK, PositionCoherent, LiveFetchExtendsWindow,
         ErrorBelongsToWindow, FetchCoherent, CallerCoherent, workerVars, callerVars
<1>7. CASE InnerSeek
  <2>0. innerPos' \in Nat
    BY <1>7, ActiveType DEF IInv, InnerSeek, TypeOK
  <2>1. TypeOK'
    BY <1>2, <1>7, <2>0 DEF IInv, InnerSeek, TypeOK, workerVars, callerVars
  <2>2. PositionCoherent' /\ ErrorBelongsToWindow' /\ LiveFetchExtendsWindow'
    BY <1>2, <1>7 DEF IInv, InnerSeek, TypeOK, PositionCoherent,
           ErrorBelongsToWindow, LiveFetchExtendsWindow, FetchCoherent,
           workerVars, callerVars, Offset
  <2>3. FetchCoherent' /\ CallerCoherent'
    BY <1>2, <1>7 DEF IInv, InnerSeek, TypeOK, LiveFetchExtendsWindow,
           FetchCoherent, CallerCoherent, workerVars, callerVars, Offset
  <2> QED
    BY <1>2, <2>1, <2>2, <2>3 DEF IInv
<1>8. CASE PublishSeekError
  <2>1. /\ UNCHANGED <<seekRequest, shutdown, chunkLen, innerPos, fetched,
                       token, fg, want, readCancelled, lifecycle, logical>>
        /\ wpc = "seekFailed" /\ wpc' = "choose" /\ active' = NoFetch
    BY <1>8 DEF PublishSeekError, workerVars, callerVars
  <2>2. /\ fatal' \in BOOLEAN
        /\ fatal' => fatal \/ (seekRequest = None /\ ~active.cancelled)
    BY <1>8 DEF PublishSeekError, IInv, TypeOK
  <2>3. TypeOK'
    BY <1>2, <2>1, <2>2, NoFetchType DEF IInv, TypeOK
  <2>4. PositionCoherent' /\ ErrorBelongsToWindow' /\ LiveFetchExtendsWindow'
    BY <1>2, <2>1, <2>2, NoFetchType DEF IInv, PositionCoherent,
           ErrorBelongsToWindow, LiveFetchExtendsWindow, FetchCoherent
  <2>5. FetchCoherent' /\ CallerCoherent'
    BY <1>2, <2>1, NoFetchType DEF IInv, FetchCoherent, CallerCoherent
  <2> QED
    BY <1>2, <2>3, <2>4, <2>5 DEF IInv
<1>9. CASE AbandonFetch
  BY <1>2, <1>9, NoFetchType DEF IInv, AbandonFetch, TypeOK, PositionCoherent,
         LiveFetchExtendsWindow, ErrorBelongsToWindow, FetchCoherent,
         CallerCoherent, workerVars, callerVars
<1>10. CASE InnerRead
  <2>1. TypeOK'
    BY <1>2, <1>10 DEF IInv, InnerRead, TypeOK, workerVars, callerVars, None, Smaller, Offset
  <2>2. PositionCoherent' /\ ErrorBelongsToWindow' /\ LiveFetchExtendsWindow'
    BY <1>2, <1>10 DEF IInv, InnerRead, TypeOK, PositionCoherent,
           ErrorBelongsToWindow, LiveFetchExtendsWindow, FetchCoherent,
           workerVars, callerVars, None, Smaller, Offset
  <2>3. FetchCoherent' /\ CallerCoherent'
    BY <1>2, <1>10 DEF IInv, InnerRead, TypeOK, LiveFetchExtendsWindow,
           FetchCoherent, CallerCoherent, workerVars, callerVars, None, Smaller, Offset
  <2> QED
    BY <1>2, <2>1, <2>2, <2>3 DEF IInv
<1> QED
  BY <1>3, <1>4, <1>5, <1>6, <1>7, <1>8, <1>9, <1>10

\* Taking a seek request starts an empty window at the requested offset.
LEMMA TakeSeekRequestKeepsIInv ==
  ASSUME IInv, UNCHANGED <<srcLen, seekable>>, TakeSeekRequest
  PROVE  IInv'
<1> USE SourceAssumption, ConfigAssumption
<1>1. /\ seekRequest \in Offset /\ seekable
      /\ chunks' = <<>> /\ Len(chunks') = 0 /\ DOMAIN chunks' = {}
      /\ chunks' \in Seq(Chunk)
      /\ base' = seekRequest /\ total' = 0 /\ eof' = None
      /\ cursor' = seekRequest /\ BufferedEnd' = seekRequest
  BY DEF IInv, TypeOK, TakeSeekRequest, OptOffset, Offset, BufferedEnd, FetchCoherent
<1>2. WindowIsMedium' /\ EofTruthful' /\ CursorNearWindow'
  BY <1>1 DEF WindowIsMedium, EofTruthful, CursorNearWindow, Offset
<1>3. /\ active' \in Fetch /\ active'.on = TRUE /\ active'.start = seekRequest
      /\ active'.cancelled = FALSE /\ active'.end <= seekRequest + ChunkBytes
      /\ wpc' = "seek"
  <2>1. InitialChunk \in InitialChunk..ChunkBytes
    OBVIOUS
  <2> QED
    BY <2>1, <1>1, BeginFetchType DEF TakeSeekRequest
<1>4. /\ UNCHANGED <<shutdown, innerPos, fetched, token, fg, want,
                     readCancelled, lifecycle, logical>>
      /\ seekRequest' = None /\ fatal' = FALSE /\ chunkLen' = InitialChunk
      /\ seekRequest # None
  BY DEF TakeSeekRequest, callerVars
<1>5. TypeOK'
  <2>1. /\ seekRequest <= MaxOffset /\ 0 \in Nat /\ None \in OptOffset
        /\ InitialChunk \in InitialChunk..ChunkBytes
    BY <1>1 DEF Offset, OptOffset
  <2> QED
    BY <2>1, <1>1, <1>3, <1>4 DEF IInv, TypeOK
<1>6. PositionCoherent' /\ ErrorBelongsToWindow' /\ LiveFetchExtendsWindow'
  BY <1>1, <1>3, <1>4 DEF IInv, PositionCoherent, ErrorBelongsToWindow,
         LiveFetchExtendsWindow
<1>7. FetchCoherent' /\ CallerCoherent'
  BY <1>1, <1>3, <1>4 DEF IInv, FetchCoherent, CallerCoherent
<1> QED
  BY <1>2, <1>5, <1>6, <1>7 DEF IInv

\* Publishing extends the window by the medium's own next bytes, or records
\* the end of the medium, or leaves the window alone.
LEMMA PublishKeepsWindow ==
  ASSUME IInv, UNCHANGED <<srcLen, seekable>>, PublishRead
  PROVE  /\ WindowIsMedium' /\ EofTruthful' /\ CursorNearWindow'
         /\ chunks' \in Seq(Chunk) /\ base' \in Offset /\ cursor' = cursor
         /\ eof' \in OptOffset /\ total' \in Nat /\ BufferedEnd' <= MaxOffset
         /\ ~seekable /\ ~shutdown /\ eof' = None => innerPos = BufferedEnd'
         /\ eof' # None => eof' = eof \/ ~fatal'
<1> USE SourceAssumption, ConfigAssumption
<1>0. /\ wpc = "publish" /\ active.on /\ innerPos \in Nat
      /\ fetched \in 0..ChunkBytes \cup {None} /\ srcLen \in Nat
      /\ WindowIsMedium /\ EofTruthful /\ CursorNearWindow
      /\ BufferedEnd \in Offset /\ BufferedEnd \in Nat
      /\ cursor \in Offset /\ cursor \in Nat
  BY DEF IInv, TypeOK, PublishRead, FetchCoherent, Offset, BufferedEnd
<1>1. CASE UNCHANGED bufferVars /\ (shutdown \/ token \/ FetchIsStale)
  <2>1. ~seekable => shutdown
    BY <1>1 DEF IInv, FetchCoherent, CallerCoherent, FetchIsStale
  <2> QED
    BY <2>1, <1>1, BufferUnchanged DEF bufferVars
<1>2. CASE /\ ~shutdown /\ ~token /\ ~FetchIsStale
           /\ UNCHANGED bufferVars /\ fetched = None
  <2>1. active.start = BufferedEnd /\ innerPos = active.start
    BY <1>2, <1>0 DEF IInv, FetchCoherent, LiveFetchExtendsWindow, FetchIsStale
  <2> QED
    BY <2>1, <1>2, BufferUnchanged DEF bufferVars
<1>3. CASE /\ ~shutdown /\ ~token /\ ~FetchIsStale /\ UNCHANGED fatal
           /\ MarkEof /\ (fetched = 0 \/ BufferedEnd + fetched > MaxOffset)
           /\ fetched \in 0..ChunkBytes
  <2>1. active.start = BufferedEnd /\ innerPos = active.start + fetched /\ ~fatal
    BY <1>3, <1>0 DEF IInv, FetchCoherent, LiveFetchExtendsWindow, FetchIsStale, None
  <2>2. BufferedEnd >= srcLen \/ BufferedEnd + ChunkBytes > MaxOffset
    BY <2>1, <1>3, <1>0 DEF IInv, FetchCoherent
  <2>3. /\ eof' = BufferedEnd /\ BufferedEnd' = BufferedEnd
        /\ UNCHANGED <<chunks, base, cursor, total>>
    BY <1>3 DEF MarkEof, BufferedEnd
  <2>4. WindowIsMedium' /\ CursorNearWindow'
    BY <2>3, <1>0 DEF WindowIsMedium, ChunkStart, CursorNearWindow
  <2>5. EofTruthful' /\ eof' # None /\ eof' \in OptOffset
    BY <2>2, <2>3, <1>0 DEF EofTruthful, OptOffset, None
  <2> QED
    BY <2>1, <2>3, <2>4, <2>5, <1>3 DEF IInv, TypeOK
<1>4. CASE /\ ~shutdown /\ ~token /\ ~FetchIsStale /\ UNCHANGED fatal
           /\ fetched \in 1..ChunkBytes /\ BufferedEnd + fetched <= MaxOffset
           /\ chunks' = Append(chunks, [src |-> innerPos - fetched,
                                        end |-> BufferedEnd + fetched])
           /\ total' = BufferedEnd + fetched - base
           /\ UNCHANGED <<base, cursor, eof>>
  <2> DEFINE new == [src |-> innerPos - fetched, end |-> BufferedEnd + fetched]
  <2>1. /\ active.start = BufferedEnd /\ innerPos = active.start + fetched
        /\ innerPos <= srcLen /\ eof = None
    BY <1>4, <1>0 DEF IInv, FetchCoherent, LiveFetchExtendsWindow, FetchIsStale, None
  <2>2. /\ base \in Nat /\ total \in Nat /\ chunks \in Seq(Chunk)
        /\ Len(chunks) \in Nat /\ DOMAIN chunks = 1..Len(chunks)
        /\ \A i \in DOMAIN chunks : chunks[i].end \in Nat
    BY WindowTypes DEF IInv
  <2>3. /\ new.src = BufferedEnd /\ new.end = BufferedEnd + fetched
        /\ new.end = innerPos /\ new.end \in Offset /\ new \in Chunk
    BY <2>1, <1>0, <1>4 DEF Chunk, Offset
  <2> HIDE DEF new
  <2>4. /\ chunks' \in Seq(Chunk) /\ Len(chunks') = Len(chunks) + 1
        /\ DOMAIN chunks' = 1..(Len(chunks) + 1)
        /\ \A i \in DOMAIN chunks : chunks'[i] = chunks[i]
        /\ chunks'[Len(chunks) + 1] = new
    BY <2>2, <2>3, <1>4 DEF new
  <2>5. BufferedEnd' = BufferedEnd + fetched /\ total' \in Nat
    <3>1. total' = BufferedEnd + fetched - base /\ base' = base
      BY <1>4
    <3>2. base \in Nat /\ total \in Nat /\ fetched \in Nat
      BY <1>4 DEF IInv, TypeOK, Offset
    <3> QED
      BY ONLY <3>1, <3>2 DEF BufferedEnd
  <2>6. \A i \in DOMAIN chunks : chunks[i].end <= BufferedEnd
    BY <1>0, <2>2 DEF WindowIsMedium
  <2>7. \A i \in DOMAIN chunks : ChunkStart(i)' = ChunkStart(i)
    <3> SUFFICES ASSUME NEW i \in DOMAIN chunks
                 PROVE  ChunkStart(i)' = ChunkStart(i)
      OBVIOUS
    <3>1. i # 1 => i - 1 \in DOMAIN chunks
      BY <2>2
    <3>2. i # 1 => chunks'[i - 1] = chunks[i - 1]
      BY <3>1, <2>4
    <3> QED
      BY <3>2, <1>4 DEF ChunkStart
  <2>8. \A i \in Nat : i = Len(chunks) + 1 => ChunkStart(i)' = BufferedEnd
    <3> SUFFICES ASSUME NEW i \in Nat, i = Len(chunks) + 1
                 PROVE  ChunkStart(i)' = BufferedEnd
      OBVIOUS
    <3>1. CASE Len(chunks) = 0
      BY <3>1, <1>0, <1>4 DEF ChunkStart, WindowIsMedium
    <3>2. CASE Len(chunks) # 0
      <4>1. i # 1 /\ i - 1 = Len(chunks) /\ i - 1 \in DOMAIN chunks
        BY <3>2, <2>2
      <4>2. chunks'[i - 1] = chunks[i - 1]
        BY <4>1, <2>4
      <4>3. chunks[Len(chunks)].end = BufferedEnd
        BY <3>2, <1>0 DEF WindowIsMedium
      <4> QED
        BY <4>1, <4>2, <4>3 DEF ChunkStart
    <3> QED
      BY <3>1, <3>2
  <2>9. WindowIsMedium'
    <3>1. \A i \in DOMAIN chunks' : /\ base' < chunks'[i].end
                                    /\ ChunkStart(i)' < chunks'[i].end
                                    /\ chunks'[i].src = ChunkStart(i)'
                                    /\ chunks'[i].end <= srcLen
      <4> SUFFICES ASSUME NEW i \in DOMAIN chunks'
                   PROVE  /\ base' < chunks'[i].end
                          /\ ChunkStart(i)' < chunks'[i].end
                          /\ chunks'[i].src = ChunkStart(i)'
                          /\ chunks'[i].end <= srcLen
        OBVIOUS
      <4>1. CASE i \in DOMAIN chunks
        BY <4>1, <2>4, <2>7, <1>0, <1>4 DEF WindowIsMedium
      <4>2. CASE i = Len(chunks) + 1
        <5>1. chunks'[i] = new /\ ChunkStart(i)' = BufferedEnd /\ base' = base
          BY <4>2, <2>2, <2>4, <2>8, <1>4
        <5>2. base <= BufferedEnd /\ BufferedEnd < BufferedEnd + fetched
          BY <2>2, <1>0, <1>4 DEF BufferedEnd
        <5> QED
          BY <5>1, <5>2, <2>1, <2>2, <2>3, <1>0, <1>4
      <4> QED
        BY <4>1, <4>2, <2>2, <2>4
    <3>2. \A i, j \in DOMAIN chunks' : i < j => chunks'[i].end < chunks'[j].end
      <4> SUFFICES ASSUME NEW i \in DOMAIN chunks', NEW j \in DOMAIN chunks', i < j
                   PROVE  chunks'[i].end < chunks'[j].end
        OBVIOUS
      <4>1. i \in DOMAIN chunks
        BY <2>2, <2>4
      <4>2. CASE j \in DOMAIN chunks
        BY <4>1, <4>2, <2>4, <1>0 DEF WindowIsMedium
      <4>3. CASE j = Len(chunks) + 1
        BY <4>1, <4>3, <2>2, <2>3, <2>4, <2>6, <1>0, <1>4
      <4> QED
        BY <4>2, <4>3, <2>2, <2>4
    <3> QED
      BY <3>1, <3>2, <2>2, <2>3, <2>4, <2>5 DEF WindowIsMedium
  <2>10. CursorNearWindow' /\ EofTruthful'
    BY <2>1, <2>5, <1>0, <1>4 DEF CursorNearWindow, EofTruthful
  <2> QED
    BY <2>1, <2>4, <2>5, <2>9, <2>10, <1>4 DEF IInv, TypeOK
<1>5. \/ UNCHANGED bufferVars /\ (shutdown \/ token \/ FetchIsStale)
      \/ /\ ~shutdown /\ ~token /\ ~FetchIsStale
         /\ \/ fetched = 0 /\ MarkEof /\ UNCHANGED fatal
            \/ fetched > 0 /\ AppendChunk(fetched) /\ UNCHANGED fatal
            \/ fetched = None /\ UNCHANGED bufferVars
  BY DEF PublishRead
<1> QED
  BY <1>0, <1>1, <1>2, <1>3, <1>4, <1>5 DEF AppendChunk, MarkEof, None


\* Publishing what the inner source returned keeps the invariant.
LEMMA PublishReadKeepsIInv ==
  ASSUME IInv, UNCHANGED <<srcLen, seekable>>, PublishRead
  PROVE  IInv'
<1> USE SourceAssumption, ConfigAssumption
<1>1. /\ WindowIsMedium' /\ EofTruthful' /\ CursorNearWindow'
      /\ chunks' \in Seq(Chunk) /\ base' \in Offset /\ cursor' = cursor
      /\ eof' \in OptOffset /\ total' \in Nat /\ BufferedEnd' <= MaxOffset
      /\ ~seekable /\ ~shutdown /\ eof' = None => innerPos = BufferedEnd'
      /\ eof' # None => eof' = eof \/ ~fatal'
  BY PublishKeepsWindow
<1>2. /\ UNCHANGED <<seekRequest, shutdown, innerPos, token, fg, want,
                     readCancelled, lifecycle, logical>>
      /\ active' = NoFetch /\ wpc = "publish" /\ wpc' = "choose" /\ fetched' = 0
  BY DEF PublishRead, callerVars
<1>3. /\ fatal' \in BOOLEAN
      /\ fatal' => \/ fatal
                   \/ ~FetchIsStale /\ UNCHANGED bufferVars
  <2>1. \/ fatal' = fatal
        \/ fatal' = TRUE /\ ~FetchIsStale /\ UNCHANGED bufferVars
    BY DEF PublishRead
  <2>2. fatal \in BOOLEAN
    BY DEF IInv, TypeOK
  <2>3. fatal' \in BOOLEAN
    BY <2>1, <2>2
  <2>4. CASE fatal' = fatal
    BY <2>3, <2>4
  <2>5. CASE fatal' = TRUE /\ ~FetchIsStale /\ UNCHANGED bufferVars
    BY <2>3, <2>5
  <2> QED
    BY <2>1, <2>4, <2>5
<1>4. chunkLen' \in InitialChunk..ChunkBytes
  BY DEF PublishRead, IInv, TypeOK, Smaller
<1>5. TypeOK'
  BY <1>1, <1>2, <1>3, <1>4, NoFetchType DEF IInv, TypeOK
<1>6. ErrorBelongsToWindow'
  <2> SUFFICES ASSUME fatal' PROVE seekRequest' = None /\ eof' = None
    BY DEF ErrorBelongsToWindow
  <2>1. active.on
    BY <1>2 DEF IInv, FetchCoherent
  <2>2. CASE fatal
    BY <2>2, <1>1, <1>2 DEF IInv, ErrorBelongsToWindow
  <2>3. CASE ~FetchIsStale /\ UNCHANGED bufferVars
    BY <2>1, <2>3, <1>2 DEF IInv, LiveFetchExtendsWindow, FetchIsStale, bufferVars
  <2> QED
    BY <2>2, <2>3, <1>3
<1>7. PositionCoherent' /\ LiveFetchExtendsWindow'
  BY <1>1, <1>2, NoFetchType DEF IInv, PositionCoherent, LiveFetchExtendsWindow
<1>8. FetchCoherent' /\ CallerCoherent'
  BY <1>1, <1>2, NoFetchType DEF IInv, FetchCoherent, CallerCoherent
<1> QED
  BY <1>1, <1>5, <1>6, <1>7, <1>8 DEF IInv

\* The caller's steps that leave the window alone.
LEMMA CallerStepsKeepIInv ==
  ASSUME IInv, UNCHANGED <<srcLen, seekable>>,
         \/ \E n \in 1..MaxRead : ReadStart(n)
         \/ CancelRead \/ CloseLifecycle \/ ReadAborts \/ ReadTakesError
         \/ ReadSeesEof \/ (\E o \in Offset : SeekNotSeekable(o))
         \/ DropBegins \/ DropTurn \/ Gone
  PROVE  IInv'
<1> USE SourceAssumption, ConfigAssumption
<1>1. UNCHANGED bufferVars
  BY DEF ReadStart, CancelRead, CloseLifecycle, ReadAborts, ReadTakesError,
         ReadSeesEof, SeekNotSeekable, DropBegins, DropTurn,
         DropCancelsWorker, DropNotifies, DropJoins, Gone, vars
<1>2. /\ WindowIsMedium' /\ BufferedEnd' = BufferedEnd
      /\ EofTruthful' /\ CursorNearWindow'
      /\ chunks' \in Seq(Chunk) /\ base' \in Offset /\ cursor' \in Offset
      /\ eof' \in OptOffset /\ total' \in Nat /\ BufferedEnd' <= MaxOffset
      /\ base' = base /\ cursor' = cursor /\ eof' = eof /\ total' = total
  BY <1>1, BufferUnchanged
<1> DEFINE Shared ==
      /\ UNCHANGED <<seekRequest, chunkLen, innerPos, fetched, logical>>
      /\ fatal' \in BOOLEAN /\ (fatal' => fatal)
      /\ active' \in Fetch /\ active'.on = active.on
      /\ active'.start = active.start /\ active'.end = active.end
      /\ \/ active'.cancelled = active.cancelled /\ shutdown' = shutdown
         \/ active'.cancelled = active.on /\ shutdown' = TRUE
      /\ wpc' = wpc \/ (wpc = "waiting" /\ wpc' = "choose")
<1> DEFINE Caller ==
      /\ shutdown' \in BOOLEAN /\ token' \in BOOLEAN /\ readCancelled' \in BOOLEAN
      /\ lifecycle' \in BOOLEAN /\ want' \in 0..MaxRead
      /\ fg' \in {"idle", "reading", "dropToken", "dropNotify", "joining",
                  "dropped"}
      /\ CallerCoherent'
<1>3. Shared /\ Caller
  <2>1. CASE \E n \in 1..MaxRead : ReadStart(n)
    <3>1. PICK n \in 1..MaxRead : ReadStart(n)
      BY <2>1
    <3>2. Shared
      BY <3>1 DEF ReadStart, IInv, TypeOK, Fetch, workerVars, callerVars
    <3>3. /\ fg = "idle" /\ fg' = "reading" /\ want' = n /\ readCancelled' = FALSE
           /\ UNCHANGED <<shutdown, token, lifecycle>>
      BY <3>1 DEF ReadStart
    <3>4. shutdown' = FALSE /\ token' = FALSE
      BY <3>3, AliveWhileCalled
    <3>5. lifecycle' \in BOOLEAN /\ want' \in 0..MaxRead
      BY <3>3 DEF IInv, TypeOK
    <3>6. Caller
      BY <3>3, <3>4, <3>5 DEF CallerCoherent
    <3> QED
      BY <3>2, <3>6
  <2>2. CASE CancelRead
    BY <2>2 DEF CancelRead, IInv, TypeOK, Fetch,
           CallerCoherent, workerVars, callerVars
  <2>3. CASE CloseLifecycle
    BY <2>3 DEF CloseLifecycle, IInv, TypeOK, Fetch,
           CallerCoherent, workerVars, callerVars
  <2>4. CASE ReadAborts
    <3>1. Shared
      BY <2>4 DEF ReadAborts, ReadReturns, IInv, TypeOK, Fetch,
             workerVars
    <3>2. /\ fg = "reading" /\ fg' = "idle" /\ want' = 0 /\ readCancelled' = FALSE
          /\ UNCHANGED <<shutdown, token, lifecycle>>
      BY <2>4 DEF ReadAborts, ReadReturns
    <3>4. shutdown' = FALSE /\ token' = FALSE
      BY <3>2, AliveWhileCalled
    <3>5. lifecycle' \in BOOLEAN /\ want' \in 0..MaxRead
      BY <3>2 DEF IInv, TypeOK
    <3>6. Caller
      BY <3>2, <3>4, <3>5 DEF CallerCoherent
    <3> QED
      BY <3>1, <3>6
  <2>5. CASE ReadTakesError
    <3>1. Shared
      BY <2>5 DEF ReadTakesError, ReadReturns, ReadMayProceed, NotifyAll, IInv, TypeOK, Fetch,
             workerVars
    <3>2. /\ fg = "reading" /\ fg' = "idle" /\ want' = 0 /\ readCancelled' = FALSE
          /\ UNCHANGED <<shutdown, token, lifecycle>>
      BY <2>5 DEF ReadTakesError, ReadReturns, ReadMayProceed, NotifyAll
    <3>4. shutdown' = FALSE /\ token' = FALSE
      BY <3>2, AliveWhileCalled
    <3>5. lifecycle' \in BOOLEAN /\ want' \in 0..MaxRead
      BY <3>2 DEF IInv, TypeOK
    <3>6. Caller
      BY <3>2, <3>4, <3>5 DEF CallerCoherent
    <3> QED
      BY <3>1, <3>6
  <2>6. CASE ReadSeesEof
    <3>1. Shared
      BY <2>6 DEF ReadSeesEof, ReadReturns, ReadMayProceed, IInv, TypeOK, Fetch,
             workerVars
    <3>2. /\ fg = "reading" /\ fg' = "idle" /\ want' = 0 /\ readCancelled' = FALSE
          /\ UNCHANGED <<shutdown, token, lifecycle>>
      BY <2>6 DEF ReadSeesEof, ReadReturns, ReadMayProceed
    <3>4. shutdown' = FALSE /\ token' = FALSE
      BY <3>2, AliveWhileCalled
    <3>5. lifecycle' \in BOOLEAN /\ want' \in 0..MaxRead
      BY <3>2 DEF IInv, TypeOK
    <3>6. Caller
      BY <3>2, <3>4, <3>5 DEF CallerCoherent
    <3> QED
      BY <3>1, <3>6
  <2>7. CASE \E o \in Offset : SeekNotSeekable(o)
    BY <2>7 DEF SeekNotSeekable, SeekReturns, IInv, TypeOK, Fetch,
           CallerCoherent, workerVars, callerVars
  <2>8. CASE DropBegins
    BY <2>8 DEF DropBegins, IInv, TypeOK, Fetch,
           CallerCoherent, workerVars, callerVars
  <2>9. CASE DropCancelsWorker
    BY <2>9 DEF DropCancelsWorker, IInv, TypeOK, Fetch,
           CallerCoherent, workerVars, callerVars
  <2>10. CASE DropNotifies
    BY <2>10 DEF DropNotifies, NotifyAll, IInv, TypeOK, Fetch,
           CallerCoherent, workerVars, callerVars
  <2>11. CASE DropJoins
    BY <2>11 DEF DropJoins, IInv, TypeOK, Fetch,
           CallerCoherent, workerVars, callerVars
  <2>12. CASE Gone
    BY <2>12 DEF Gone, vars, IInv, TypeOK, Fetch,
           CallerCoherent, workerVars, callerVars
  <2> QED
    BY <2>1, <2>2, <2>3, <2>4, <2>5, <2>6, <2>7, <2>8, <2>9, <2>10, <2>11, <2>12 DEF DropTurn
<1>5. TypeOK'
  BY <1>2, <1>3 DEF IInv, TypeOK
<1>6. PositionCoherent' /\ ErrorBelongsToWindow' /\ LiveFetchExtendsWindow'
  BY <1>2, <1>3 DEF IInv, PositionCoherent, ErrorBelongsToWindow,
         LiveFetchExtendsWindow, FetchCoherent
<1>7. FetchCoherent'
  BY <1>2, <1>3, ActiveType DEF IInv, TypeOK, FetchCoherent
<1> QED
  BY <1>2, <1>3, <1>5, <1>6, <1>7 DEF IInv


\* The caller's steps that move the cursor inside the window.
LEMMA CursorStepsKeepIInv ==
  ASSUME IInv, UNCHANGED <<srcLen, seekable>>,
         NEW o \in Offset, base <= o, o <= BufferedEnd, MoveCursorAndEvict(o),
         logical' = o, seekRequest' = None,
         UNCHANGED <<active, fatal, shutdown, chunkLen, innerPos, fetched,
                     token, lifecycle>>,
         NotifyAll,
         readCancelled' \in BOOLEAN, want' \in 0..MaxRead,
         fg \in {"idle", "reading"}, fg' = "idle",
         fatal => seekRequest = None
  PROVE  IInv'
<1> USE SourceAssumption, ConfigAssumption
<1>1. /\ chunks' \in Seq(Chunk) /\ base' \in Offset /\ total' \in Nat
      /\ cursor' = o /\ eof' = eof /\ BufferedEnd' = BufferedEnd
      /\ base' <= o /\ WindowIsMedium'
  BY EvictionKeepsWindow DEF IInv
<1>2. wpc' = wpc \/ (wpc = "waiting" /\ wpc' = "choose")
  BY DEF NotifyAll
<1>3. BufferedEnd \in Nat /\ o \in Nat /\ base' \in Nat
  BY <1>1 DEF IInv, TypeOK, BufferedEnd, Offset
<1>4. TypeOK'
  BY <1>1, <1>2 DEF IInv, TypeOK, OptOffset
<1>5. PositionCoherent' /\ ErrorBelongsToWindow' /\ EofTruthful'
  BY <1>1 DEF IInv, PositionCoherent, ErrorBelongsToWindow, EofTruthful
<1>6. CursorNearWindow'
  BY <1>1, <1>3 DEF CursorNearWindow
<1>7. LiveFetchExtendsWindow'
  BY <1>1, <1>2 DEF IInv, LiveFetchExtendsWindow
<1>8. FetchCoherent'
  BY <1>1, <1>2 DEF IInv, FetchCoherent
<1>9. CallerCoherent'
  BY DEF IInv, CallerCoherent
<1> QED
  BY <1>1, <1>4, <1>5, <1>6, <1>7, <1>8, <1>9 DEF IInv

\* A read that copies bytes out of the window and evicts behind the cursor
\* keeps the invariant.
LEMMA ReadCopiesKeepsIInv ==
  ASSUME IInv, UNCHANGED <<srcLen, seekable>>, ReadCopies
  PROVE  /\ IInv'
         /\ \E n \in 1..MaxRead :
              /\ logical' = logical + n /\ logical + n <= BufferedEnd
              /\ result' = Outcome("bytes", logical,
                                   [i \in 1..n |-> logical + i - 1])
<1> USE SourceAssumption, ConfigAssumption
<1> DEFINE n == Smaller(AvailableFromCursor, want)
<1>1. /\ fg = "reading" /\ seekRequest = None /\ AvailableFromCursor > 0
      /\ logical' = logical + n /\ MoveCursorAndEvict(cursor + n)
      /\ NotifyAll /\ fatal' = fatal /\ fg' = "idle" /\ readCancelled' = FALSE
      /\ want' = 0
      /\ UNCHANGED <<seekRequest, active, shutdown, workerVars, token, lifecycle>>
      /\ result' = Outcome("bytes", logical,
                           [i \in 1..n |-> ByteAt(cursor + i - 1)])
  BY DEF ReadCopies, ReadMayProceed, HasBytes, ReadReturns
<1>2. /\ want \in 1..MaxRead /\ logical = cursor /\ cursor \in Nat
      /\ base \in Nat /\ BufferedEnd \in Nat /\ BufferedEnd <= MaxOffset
      /\ base <= cursor /\ AvailableFromCursor = BufferedEnd - cursor
  BY <1>1 DEF IInv, TypeOK, CallerCoherent, PositionCoherent, CursorNearWindow,
         AvailableFromCursor, Offset, BufferedEnd
<1>3. n \in 1..MaxRead /\ cursor + n <= BufferedEnd
  BY <1>1, <1>2 DEF Smaller
<1> HIDE DEF n
<1>4. cursor + n \in Offset /\ base <= cursor + n
  BY <1>2, <1>3 DEF Offset
<1>5. IInv'
  <2>1. UNCHANGED <<chunkLen, innerPos, fetched>>
    BY <1>1 DEF workerVars
  <2>2. UNCHANGED <<active, fatal, shutdown, chunkLen, innerPos, fetched, token,
                    lifecycle>>
    BY <2>1, <1>1
  <2>3. logical' = cursor + n /\ seekRequest' = None /\ fg' = "idle"
    BY <1>1, <1>2
  <2>4. readCancelled' \in BOOLEAN /\ want' \in 0..MaxRead
    <3>1. readCancelled' = FALSE /\ want' = 0
      BY <1>1
    <3>2. want' \in 0..MaxRead
      BY <3>1
    <3>3. readCancelled' \in BOOLEAN
      BY <3>1
    <3> QED
      BY <3>2, <3>3
  <2>5. fg \in {"idle", "reading"} /\ (fatal => seekRequest = None) /\ NotifyAll
    BY <1>1
  <2> QED
    BY <2>2, <2>3, <2>4, <2>5, <1>1, <1>3, <1>4, CursorStepsKeepIInv
<1>6. \A i \in 1..n : ByteAt(cursor + i - 1) = logical + i - 1
  <2> SUFFICES ASSUME NEW i \in 1..n
               PROVE  ByteAt(cursor + i - 1) = logical + i - 1
    OBVIOUS
  <2>1. /\ cursor + i - 1 \in Nat /\ base <= cursor + i - 1
        /\ cursor + i - 1 < BufferedEnd
    BY <1>2, <1>3
  <2>2. ByteAt(cursor + i - 1) = cursor + i - 1
    BY <2>1, ByteAtIsMedium DEF IInv
  <2> QED
    BY <2>2, <1>2
<1>7. [i \in 1..n |-> ByteAt(cursor + i - 1)] = [i \in 1..n |-> logical + i - 1]
  BY <1>6
<1> QED
  BY <1>1, <1>2, <1>3, <1>5, <1>7


\* A seek inside the window, a staged seek and a seek request.
LEMMA SeekKeepsIInv ==
  ASSUME IInv, UNCHANGED <<srcLen, seekable>>, NEW o \in Offset,
         SeekInsideWindow(o) \/ StageForwardSeek(o) \/ RequestSeek(o)
  PROVE  IInv'
<1> USE SourceAssumption, ConfigAssumption
<1>1. /\ base \in Nat /\ BufferedEnd \in Nat /\ base <= BufferedEnd /\ o \in Nat
      /\ BufferedEnd <= MaxOffset
  BY DEF IInv, TypeOK, BufferedEnd, Offset
<1>2. CASE SeekInsideWindow(o)
  <2>1. /\ fg = "idle" /\ IsBuffered(o) /\ seekRequest' = None
        /\ MoveCursorAndEvict(o) /\ NotifyAll /\ logical' = o
        /\ UNCHANGED <<shutdown, workerVars, token, fg, want, readCancelled,
                       lifecycle>>
        /\ UNCHANGED <<active, fatal>>
    BY <1>2 DEF SeekInsideWindow, SeekReturns
  <2>2. base <= o /\ o <= BufferedEnd
    BY <2>1, <1>1 DEF IsBuffered, Contains
  <2>3. UNCHANGED <<active, fatal, shutdown, chunkLen, innerPos, fetched, token,
                    lifecycle>>
    BY <2>1 DEF workerVars
  <2>4. readCancelled' \in BOOLEAN /\ want' \in 0..MaxRead
    BY <2>1 DEF IInv, TypeOK
  <2>5. fg \in {"idle", "reading"} /\ fg' = "idle" /\ (fatal => seekRequest = None)
    BY <2>1 DEF IInv, ErrorBelongsToWindow
  <2> QED
    BY <2>1, <2>2, <2>3, <2>4, <2>5, CursorStepsKeepIInv
<1>3. CASE StageForwardSeek(o)
  <2>1. /\ fg = "idle" /\ seekable /\ cursor' = o /\ logical' = o
        /\ UNCHANGED <<chunks, base, eof, total, seekRequest, active, fatal>>
        /\ UNCHANGED <<shutdown, chunkLen, innerPos, fetched, token, fg, want,
                       readCancelled, lifecycle>>
        /\ ActiveFetchCovers(o) \/ NextFetchCovers(o)
        /\ wpc' = wpc \/ (wpc = "waiting" /\ wpc' = "choose")
    BY <1>3 DEF StageForwardSeek, SeekReturns, NotifyAll, workerVars
  <2>2. /\ seekRequest = None /\ BufferedEnd <= o /\ o < BufferedEnd + ChunkBytes
    <3>1. CASE ActiveFetchCovers(o)
      BY <3>1, <1>1, ActiveType DEF ActiveFetchCovers, IInv,
             LiveFetchExtendsWindow, FetchCoherent
    <3>2. CASE NextFetchCovers(o)
      BY <3>2, <1>1 DEF NextFetchCovers
    <3> QED
      BY <2>1, <3>1, <3>2
  <2>3. BufferedEnd' = BufferedEnd /\ WindowIsMedium' /\ EofTruthful'
    BY <2>1 DEF IInv, BufferedEnd, WindowIsMedium, ChunkStart, EofTruthful
  <2>4. TypeOK'
    BY <2>1, <2>3 DEF IInv, TypeOK
  <2>5. PositionCoherent' /\ ErrorBelongsToWindow' /\ CursorNearWindow'
    BY <2>1, <2>2, <2>3, <1>1 DEF IInv, PositionCoherent,
           ErrorBelongsToWindow, CursorNearWindow
  <2>6. LiveFetchExtendsWindow'
    BY <2>1, <2>3 DEF IInv, LiveFetchExtendsWindow
  <2>7. FetchCoherent'
    BY <2>1, <2>3 DEF IInv, FetchCoherent
  <2>8. CallerCoherent'
    BY <2>1 DEF IInv, CallerCoherent
  <2> QED
    BY <2>3, <2>4, <2>5, <2>6, <2>7, <2>8 DEF IInv
<1>4. CASE RequestSeek(o)
  <2>1. /\ fg = "idle" /\ seekable /\ seekRequest' = o /\ logical' = o
        /\ fatal' = FALSE /\ UNCHANGED bufferVars
        /\ UNCHANGED <<shutdown, chunkLen, innerPos, fetched, token, fg, want,
                       readCancelled, lifecycle>>
        /\ active' = [active EXCEPT !.cancelled = active.on]
        /\ wpc' = wpc \/ (wpc = "waiting" /\ wpc' = "choose")
    BY <1>4 DEF RequestSeek, SeekReturns, NotifyAll, workerVars
  <2>2. /\ WindowIsMedium' /\ BufferedEnd' = BufferedEnd
        /\ EofTruthful' /\ CursorNearWindow'
        /\ chunks' \in Seq(Chunk) /\ base' \in Offset /\ cursor' \in Offset
        /\ eof' \in OptOffset /\ total' \in Nat /\ BufferedEnd' <= MaxOffset
    BY <2>1, BufferUnchanged
  <2>3. /\ active' \in Fetch /\ active'.on = active.on
        /\ active'.cancelled = active.on
        /\ active'.start = active.start /\ active'.end = active.end
    BY <2>1 DEF IInv, TypeOK, Fetch
  <2>4. TypeOK'
    BY <2>1, <2>2, <2>3 DEF IInv, TypeOK, OptOffset
  <2>5. PositionCoherent' /\ ErrorBelongsToWindow'
    BY <2>1, <1>1 DEF PositionCoherent, ErrorBelongsToWindow, None
  <2>6. LiveFetchExtendsWindow'
    BY <2>1, <2>3 DEF IInv, LiveFetchExtendsWindow
  <2>7. FetchCoherent'
    BY <2>1, <2>3 DEF IInv, FetchCoherent
  <2>8. CallerCoherent'
    BY <2>1 DEF IInv, CallerCoherent
  <2> QED
    BY <2>2, <2>4, <2>5, <2>6, <2>7, <2>8 DEF IInv
<1> QED
  BY <1>2, <1>3, <1>4

-----------------------------------------------------------------------------
(* The theorems *)

\* A new prefetching source satisfies the invariant.
LEMMA InitIInv == Init => IInv
<1> USE SourceAssumption, ConfigAssumption
<1> SUFFICES ASSUME Init PROVE IInv
  OBVIOUS
<1>1. /\ chunks = <<>> /\ Len(chunks) = 0 /\ DOMAIN chunks = {}
      /\ chunks \in Seq(Chunk) /\ BufferedEnd = StartOffset
      /\ StartOffset \in Nat /\ StartOffset <= MaxOffset
      /\ StartOffset \in Offset
      /\ InitialChunk \in InitialChunk..ChunkBytes
  BY DEF Init, BufferedEnd, Offset
<1>2. TypeOK
  <2>1. /\ base = StartOffset /\ cursor = StartOffset /\ logical = StartOffset
        /\ innerPos = StartOffset /\ total = 0 /\ fetched = 0 /\ want = 0
        /\ eof = None /\ seekRequest = None /\ active = NoFetch
        /\ chunkLen = InitialChunk
        /\ srcLen \in Nat /\ seekable \in BOOLEAN
    BY DEF Init
  <2>2. /\ fatal = FALSE /\ shutdown = FALSE /\ token = FALSE
        /\ readCancelled = FALSE /\ lifecycle = FALSE
        /\ wpc = "choose" /\ fg = "idle"
    BY DEF Init
  <2>3. 0 \in 0..MaxRead /\ 0 \in 0..ChunkBytes /\ None \in OptOffset /\ 0 \in Nat
    BY DEF OptOffset
  <2> QED
    BY <2>1, <2>2, <2>3, <1>1, NoFetchType DEF TypeOK
<1>3. PositionCoherent /\ LiveFetchExtendsWindow /\ ErrorBelongsToWindow
      /\ CursorNearWindow
  BY <1>1, NoFetchType DEF Init, PositionCoherent, LiveFetchExtendsWindow,
         ErrorBelongsToWindow, CursorNearWindow
<1>4. WindowIsMedium /\ EofTruthful
  BY <1>1 DEF Init, WindowIsMedium, EofTruthful
<1>5. FetchCoherent /\ CallerCoherent
  BY <1>1, NoFetchType DEF Init, FetchCoherent, CallerCoherent
<1> QED
  BY <1>2, <1>3, <1>4, <1>5 DEF IInv

\* No step changes the medium or its seekability.
LEMMA MediumIsFixed == [Next]_vars => UNCHANGED <<srcLen, seekable>>
<1> SUFFICES ASSUME [Next]_vars PROVE UNCHANGED <<srcLen, seekable>>
  OBVIOUS
<1>1. CASE Worker \/ SpuriousWakeup
  BY <1>1 DEF Worker, SpuriousWakeup, StopWorker, TakeSeekRequest, ChooseFetch,
         WaitForWork, InnerSeek, PublishSeekError, AbandonFetch, InnerRead,
         PublishRead, workerVars
<1>2. CASE Foreground
  <2>1. CASE \/ \E n \in 1..MaxRead : ReadStart(n)
             \/ ReadTurn
    BY <2>1 DEF ReadStart, ReadTurn, ReadAborts, ReadCopies, ReadTakesError,
           ReadSeesEof, ReadReturns, workerVars
  <2>2. CASE \E o \in Offset : SeekTo(o)
    BY <2>2 DEF SeekTo, SeekInsideWindow, SeekNotSeekable, StageForwardSeek,
           RequestSeek, SeekReturns, workerVars
  <2>3. CASE DropBegins \/ DropTurn
    BY <2>3 DEF DropBegins, DropTurn, DropCancelsWorker, DropNotifies, DropJoins,
           workerVars
  <2> QED
    BY <1>2, <2>1, <2>2, <2>3 DEF Foreground
<1>3. CASE CancelRead \/ CloseLifecycle \/ Gone \/ UNCHANGED vars
  BY <1>3 DEF CancelRead, CloseLifecycle, Gone, vars, workerVars
<1> QED
  BY <1>1, <1>2, <1>3 DEF Next

\* Every step of the worker and of the caller keeps the invariant.
LEMMA NextIInv == IInv /\ [Next]_vars => IInv'
<1> SUFFICES ASSUME IInv, [Next]_vars PROVE IInv'
  OBVIOUS
<1>m. UNCHANGED <<srcLen, seekable>>
  BY MediumIsFixed
<1>1. CASE Worker
  BY <1>m, <1>1, WorkerStepsKeepIInv, TakeSeekRequestKeepsIInv, PublishReadKeepsIInv
     DEF Worker
<1>2. CASE SpuriousWakeup
  BY <1>m, <1>2, WorkerStepsKeepIInv
<1>3. CASE Foreground
  <2>1. CASE \E n \in 1..MaxRead : ReadStart(n)
    BY <1>m, <2>1, CallerStepsKeepIInv
  <2>2. CASE ReadTurn
    BY <1>m, <2>2, CallerStepsKeepIInv, ReadCopiesKeepsIInv DEF ReadTurn
  <2>3. CASE \E o \in Offset : SeekTo(o)
    <3>1. PICK o \in Offset : SeekTo(o)
      BY <2>3
    <3>2. CASE SeekNotSeekable(o)
      BY <1>m, <3>2, CallerStepsKeepIInv
    <3>3. CASE SeekInsideWindow(o) \/ StageForwardSeek(o) \/ RequestSeek(o)
      BY <1>m, <3>3, SeekKeepsIInv
    <3> QED
      BY <3>1, <3>2, <3>3 DEF SeekTo
  <2>4. CASE DropBegins \/ DropTurn
    BY <1>m, <2>4, CallerStepsKeepIInv
  <2> QED
    BY <1>3, <2>1, <2>2, <2>3, <2>4 DEF Foreground
<1>4. CASE CancelRead \/ CloseLifecycle \/ Gone
  BY <1>m, <1>4, CallerStepsKeepIInv
<1>5. CASE UNCHANGED vars
  <2>1. UNCHANGED bufferVars
    BY <1>5 DEF vars
  <2> QED
    BY <1>m, <1>5, <2>1, BufferUnchanged DEF vars, workerVars, callerVars, IInv,
           TypeOK, PositionCoherent, LiveFetchExtendsWindow,
           ErrorBelongsToWindow, FetchCoherent, CallerCoherent
<1> QED
  BY <1>1, <1>2, <1>3, <1>4, <1>5 DEF Next

\* The inductive invariant holds in every reachable state, for every valid
\* configuration, medium length and offset width.
THEOREM PrefetchInvariant == Spec => []IInv
BY InitIInv, NextIInv, PTL DEF Spec


\* Types hold, and no offset of the window leaves the u64 range.
THEOREM TypeCorrect == Spec => []TypeOK
BY PrefetchInvariant, PTL DEF IInv

\* The reported position is always where the next byte comes from.
THEOREM PositionIsCoherent == Spec => []PositionCoherent
BY PrefetchInvariant, PTL DEF IInv

\* The assertions of append_chunk and stage_cursor_ahead never fail.
THEOREM LiveFetchAlwaysExtendsWindow == Spec => []LiveFetchExtendsWindow
BY PrefetchInvariant, PTL DEF IInv

\* An error never outlives the window it was met at (seek clears it).
THEOREM ErrorsAreLocal == Spec => []ErrorBelongsToWindow
BY PrefetchInvariant, PTL DEF IInv

\* A staged cursor stays within one chunk of the window (stage_cursor_ahead).
THEOREM CursorStaysNearWindow == Spec => []CursorNearWindow
BY PrefetchInvariant, PTL DEF IInv

-----------------------------------------------------------------------------
(* Refinement *)

\* A new prefetching source is a new byte source at the same position.
LEMMA InitImplements == Init => Source!Init
BY SourceAssumption DEF Init, Source!Init, Outcome, Source!Outcome

\* Every step of the window is a step of the plain byte source or invisible.
LEMMA NextImplements ==
  IInv /\ [Next]_vars => [Source!Next]_<<srcLen, logical, result>>
<1> USE SourceAssumption, ConfigAssumption
<1> SUFFICES ASSUME IInv, [Next]_vars
             PROVE  Source!Next \/ UNCHANGED <<srcLen, logical, result>>
  OBVIOUS
<1>m. UNCHANGED <<srcLen, seekable>>
  BY MediumIsFixed
<1>1. CASE ReadCopies
  <2>1. PICK n \in 1..MaxRead :
          /\ logical' = logical + n /\ logical + n <= BufferedEnd
          /\ result' = Outcome("bytes", logical, [i \in 1..n |-> logical + i - 1])
    BY <1>m, <1>1, ReadCopiesKeepsIInv
  <2>2. /\ logical \in Nat /\ srcLen \in Nat
        /\ BufferedEnd \in Nat /\ BufferedEnd <= MaxOffset
    BY DEF IInv, TypeOK, Offset, BufferedEnd
  <2>3. BufferedEnd <= srcLen
    <3>1. AvailableFromCursor > 0
      BY <1>1 DEF ReadCopies, HasBytes
    <3>2. Len(chunks) # 0
      BY <3>1 DEF IInv, TypeOK, WindowIsMedium, AvailableFromCursor, Offset,
             CursorNearWindow
    <3> QED
      BY <3>2, WindowTypes DEF IInv, WindowIsMedium
  <2>4. Source!Deliver
    BY <2>1, <2>2, <2>3 DEF Source!Deliver, Outcome, Source!Outcome
  <2> QED
    BY <1>m, <2>4 DEF Source!Next
<1>2. CASE ReadSeesEof
  <2>1. /\ eof # None /\ logical >= eof /\ UNCHANGED logical
        /\ result' = Outcome("eof", logical, <<>>)
    BY <1>2 DEF ReadSeesEof, IsEofAtCursor, ReadReturns, IInv, PositionCoherent
  <2>2. logical >= srcLen \/ logical + ChunkBytes > MaxOffset
    <3>1. eof \in Nat /\ logical \in Nat /\ srcLen \in Nat
      BY <2>1 DEF IInv, TypeOK, OptOffset, Offset
    <3> QED
      BY <2>1, <3>1 DEF IInv, EofTruthful
  <2>3. Source!EndOfFile
    BY <2>1, <2>2 DEF Source!EndOfFile, Outcome, Source!Outcome
  <2> QED
    BY <1>m, <2>3 DEF Source!Next
<1>3. CASE ReadAborts \/ ReadTakesError
  <2>1. UNCHANGED logical /\ \E kind \in {"error", "cancelled", "closed"} :
                               result' = Outcome(kind, logical, <<>>)
    BY <1>3 DEF ReadAborts, ReadTakesError, ReadReturns
  <2>2. Source!Fail
    BY <2>1 DEF Source!Fail, Outcome, Source!Outcome
  <2> QED
    BY <1>m, <2>2 DEF Source!Next
<1>4. CASE \E o \in Offset : SeekTo(o)
  <2>1. PICK o \in Offset : SeekTo(o)
    BY <1>4
  <2>2. CASE SeekInsideWindow(o) \/ StageForwardSeek(o) \/ RequestSeek(o)
    <3>1. logical' = o /\ result' = Outcome("sought", o, <<>>)
      BY <2>2 DEF SeekInsideWindow, StageForwardSeek, RequestSeek, SeekReturns
    <3>2. Source!Seek
      BY <3>1 DEF Source!Seek, Outcome, Source!Outcome, Offset
    <3> QED
      BY <1>m, <3>2 DEF Source!Next
  <2>3. CASE SeekNotSeekable(o)
    <3>1. /\ UNCHANGED logical /\ logical \in 0..MaxOffset
          /\ \/ result' = Outcome("notSeekable", logical, <<>>)
             \/ result' = Outcome("sought", logical, <<>>)
      BY <2>3 DEF SeekNotSeekable, SeekReturns, IInv, TypeOK, Offset
    <3>2. Source!Seek \/ Source!SeekRejected
      BY <3>1 DEF Source!Seek, Source!SeekRejected, Outcome, Source!Outcome
    <3> QED
      BY <1>m, <3>2 DEF Source!Next
  <2> QED
    BY <2>1, <2>2, <2>3 DEF SeekTo
<1>5. CASE Worker \/ SpuriousWakeup
  BY <1>m, <1>5 DEF Worker, SpuriousWakeup, StopWorker, TakeSeekRequest, ChooseFetch,
         WaitForWork, InnerSeek, PublishSeekError, AbandonFetch, InnerRead,
         PublishRead, callerVars
<1>6. CASE \/ \E n \in 1..MaxRead : ReadStart(n)
           \/ CancelRead \/ CloseLifecycle \/ DropBegins \/ DropTurn \/ Gone
  BY <1>m, <1>6 DEF ReadStart, CancelRead, CloseLifecycle, DropBegins, DropTurn,
         DropCancelsWorker, DropNotifies, DropJoins, Gone, vars, callerVars
<1>7. CASE UNCHANGED vars
  BY <1>m, <1>7 DEF vars, callerVars
<1> QED
  BY <1>1, <1>2, <1>3, <1>4, <1>5, <1>6, <1>7 DEF Next, Foreground, ReadTurn

\* The prefetching source is a byte source: what a caller reads through the
\* window is what it would read from the medium directly.
THEOREM PrefetchImplementsByteSource == Spec => ImplementsByteSource
<1>1. IInv /\ [Next]_vars => [Source!Next]_<<srcLen, logical, result>>
  BY NextImplements
<1> QED
  BY <1>1, InitImplements, PrefetchInvariant, PTL
     DEF Spec, ImplementsByteSource, Source!Spec

=============================================================================
