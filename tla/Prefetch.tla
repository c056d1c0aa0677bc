------------------------------ MODULE Prefetch ------------------------------
(***************************************************************************)
(* crates/media-prefetch: a ByteSource that serves one foreground reader    *)
(* from a sliding RAM window while one worker thread reads the inner source  *)
(* ahead.  All shared state lies under one mutex; the worker seeks and reads *)
(* the inner source without it, so a foreground seek or Drop may run between *)
(* the choice of a fetch and the publication of its result.                  *)
(*                                                                         *)
(* The byte at offset a of the medium is represented by the number a, a      *)
(* chunk by the source offset it was read from and the offset, in the        *)
(* window's own addressing, at which it ends.  Error values and the          *)
(* diagnostics counters are abstracted away.                                 *)
(***************************************************************************)
EXTENDS Integers, Sequences

CONSTANTS
    Media,         \* the inner sources: their length and their seekability
    MaxOffset,     \* largest representable offset (u64::MAX)
    InitialChunk,  \* initial_chunk_bytes: first fetch after open or seek
    ChunkBytes,    \* chunk_bytes: largest fetch, and the lookback
    WindowBytes,   \* window_bytes: read-ahead the worker tries to keep
    MaxRead,       \* largest output buffer of a foreground read
    StartOffset    \* position of the inner source when it is wrapped

\* PrefetchConfig::new rejects every other configuration.
ASSUME ConfigAssumption ==
    /\ InitialChunk \in Nat \ {0}
    /\ ChunkBytes \in Nat \ {0}
    /\ InitialChunk <= ChunkBytes
    /\ WindowBytes \in Nat
    /\ ChunkBytes <= WindowBytes

ASSUME SourceAssumption ==
    /\ Media \subseteq [len : Nat, seekable : BOOLEAN]
    /\ MaxOffset \in Nat
    /\ MaxRead \in Nat \ {0}
    /\ StartOffset \in 0..MaxOffset

None == -1                      \* Option::None for offsets
Offset == 0..MaxOffset
OptOffset == Offset \cup {None}
LookbackBytes == ChunkBytes
Chunk == [src : Nat, end : Offset]

Smaller(a, b) == IF a <= b THEN a ELSE b

VARIABLES
    \* PrefetchBufferState
    chunks,        \* contiguous chunks, oldest first: [src, end]
    base,          \* base_offset
    cursor,        \* read_cursor
    eof,           \* eof_offset
    total,         \* total_len
    \* PrefetchSharedState
    seekRequest,   \* seek_request
    active,        \* active_fetch with its token
    fatal,         \* fatal_error is Some
    shutdown,
    \* PrefetchWorker
    wpc,           \* where the worker thread is
    chunkLen,      \* current_chunk_len
    innerPos,      \* position of the inner source
    fetched,       \* result of the inner read not yet published
    token,         \* worker_cancellation
    srcLen,        \* number of bytes of the medium
    seekable,      \* seekability() of the inner source, taken once in new
    \* PrefetchingByteSource and its caller
    fg,            \* where the foreground thread is
    want,          \* output.len() of the read in progress
    readCancelled, \* the caller's token of the read in progress
    lifecycle,     \* lifecycle_cancellation
    logical,       \* logical_position
    result         \* outcome of the last completed foreground operation

bufferVars == <<chunks, base, cursor, eof, total>>
workerVars == <<chunkLen, innerPos, fetched, srcLen, seekable>>
callerVars == <<fg, want, readCancelled, lifecycle, logical, result>>
vars == <<bufferVars, seekRequest, active, fatal, shutdown, wpc, workerVars,
          token, callerVars>>

Fetch == [on : BOOLEAN, start : Offset, end : Offset, cancelled : BOOLEAN]
NoFetch == [on |-> FALSE, start |-> 0, end |-> 0, cancelled |-> FALSE]
Outcome(kind, at, data) == [kind |-> kind, at |-> at, data |-> data]

-----------------------------------------------------------------------------
(* PrefetchBufferState *)

BufferedEnd == base + total

AvailableFromCursor ==
    IF cursor < base \/ cursor > BufferedEnd THEN 0 ELSE BufferedEnd - cursor

NeedsFetch == eof = None /\ AvailableFromCursor < WindowBytes

IsEofAtCursor == eof # None /\ cursor >= eof

Contains(o) == o >= base /\ o < BufferedEnd

\* Window offset at which chunk i begins.
ChunkStart(i) == IF i = 1 THEN base ELSE chunks[i - 1].end

\* The medium's byte a read finds at window offset a.
ByteAt(a) == LET k == CHOOSE i \in DOMAIN chunks :
                        ChunkStart(i) <= a /\ a < chunks[i].end
             IN  chunks[k].src + (a - ChunkStart(k))

\* The cursor moves to c and the head chunks that end before the lookback
\* range are dropped; k is the first chunk kept.
MoveCursorAndEvict(c) ==
    LET keepFrom == IF c > LookbackBytes THEN c - LookbackBytes ELSE 0
    IN  \E k \in 1..(Len(chunks) + 1) :
          /\ \A i \in 1..(k - 1) : chunks[i].end <= keepFrom
          /\ k <= Len(chunks) => chunks[k].end > keepFrom
          /\ cursor' = c
          /\ chunks' = SubSeq(chunks, k, Len(chunks))
          /\ base' = ChunkStart(k)
          /\ total' = total - (ChunkStart(k) - base)
          /\ UNCHANGED eof

\* append_chunk: a chunk that would leave the offset space is refused and the
\* worker records the end of the addressable medium instead.
AppendChunk(n) ==
    IF BufferedEnd + n <= MaxOffset
    THEN /\ chunks' = Append(chunks, [src |-> innerPos - n,
                                      end |-> BufferedEnd + n])
         /\ total' = BufferedEnd + n - base
         /\ UNCHANGED <<base, cursor, eof>>
    ELSE /\ eof' = BufferedEnd
         /\ UNCHANGED <<chunks, base, cursor, total>>

MarkEof == eof' = BufferedEnd /\ UNCHANGED <<chunks, base, cursor, total>>

-----------------------------------------------------------------------------
(* The condition variable.  Only the worker waits without a timeout. *)

NotifyAll == wpc' = IF wpc = "waiting" THEN "choose" ELSE wpc

-----------------------------------------------------------------------------
(* PrefetchWorker *)

\* next_fetch_offset, one turn of its loop under the mutex.
StopWorker ==
    /\ wpc = "choose"
    /\ shutdown \/ token
    /\ wpc' = "stopped"
    /\ UNCHANGED <<bufferVars, seekRequest, active, fatal, shutdown,
                   workerVars, token, callerVars>>

BeginFetch(start, len) ==
    /\ active' = [on |-> TRUE, start |-> start,
                  end |-> Smaller(start + len, MaxOffset),
                  cancelled |-> FALSE]
    /\ wpc' = IF seekable THEN "seek" ELSE "read"

TakeSeekRequest ==
    /\ wpc = "choose"
    /\ ~shutdown /\ ~token
    /\ seekRequest # None
    /\ chunks' = <<>>
    /\ base' = seekRequest
    /\ cursor' = seekRequest
    /\ eof' = None
    /\ total' = 0
    /\ seekRequest' = None
    /\ fatal' = FALSE
    /\ chunkLen' = InitialChunk
    /\ BeginFetch(seekRequest, InitialChunk)
    /\ UNCHANGED <<shutdown, innerPos, fetched, srcLen, seekable, token,
                   callerVars>>

ChooseFetch ==
    /\ wpc = "choose"
    /\ ~shutdown /\ ~token
    /\ seekRequest = None
    /\ ~fatal /\ NeedsFetch
    /\ BeginFetch(BufferedEnd, chunkLen)
    /\ UNCHANGED <<bufferVars, seekRequest, fatal, shutdown, workerVars,
                   token, callerVars>>

WaitForWork ==
    /\ wpc = "choose"
    /\ ~shutdown /\ ~token
    /\ seekRequest = None
    /\ fatal \/ ~NeedsFetch
    /\ wpc' = "waiting"
    /\ UNCHANGED <<bufferVars, seekRequest, active, fatal, shutdown,
                   workerVars, token, callerVars>>

\* Condvar::wait may return without a notification.
SpuriousWakeup ==
    /\ wpc = "waiting"
    /\ wpc' = "choose"
    /\ UNCHANGED <<bufferVars, seekRequest, active, fatal, shutdown,
                   workerVars, token, callerVars>>

\* Mutant: the inner source is taken to stand at the fetch offset already.
Mut_InnerSeek ==
    /\ wpc = "seek"
    /\ wpc' = "read"
    /\ UNCHANGED <<bufferVars, seekRequest, active, fatal, shutdown,
                   workerVars, token, callerVars>>

\* inner.seek, without the mutex.
InnerSeek ==
    /\ wpc = "seek"
    /\ \/ innerPos' = active.start /\ wpc' = "read"
       \/ wpc' = "seekFailed" /\ UNCHANGED innerPos
    /\ UNCHANGED <<bufferVars, seekRequest, active, fatal, shutdown,
                   chunkLen, fetched, srcLen, seekable, token, callerVars>>

PublishSeekError ==
    /\ wpc = "seekFailed"
    /\ active' = NoFetch
    /\ fatal' = IF ~shutdown /\ ~token /\ seekRequest = None /\ ~active.cancelled
                THEN TRUE ELSE fatal
    /\ wpc' = "choose"
    /\ UNCHANGED <<bufferVars, seekRequest, shutdown, workerVars, token,
                   callerVars>>

AbandonFetch ==
    /\ wpc = "read"
    /\ token
    /\ active' = NoFetch
    /\ wpc' = "stopped"
    /\ UNCHANGED <<bufferVars, seekRequest, fatal, shutdown, workerVars,
                   token, callerVars>>

\* inner.read, without the mutex: some bytes, the end of the medium, or an
\* error.  A cancelled fetch may still complete with bytes.
InnerRead ==
    /\ wpc = "read"
    /\ \/ \E n \in 1..Smaller(chunkLen, srcLen - innerPos) :
            fetched' = n /\ innerPos' = innerPos + n
       \/ innerPos >= srcLen /\ fetched' = 0 /\ UNCHANGED innerPos
       \/ fetched' = None /\ UNCHANGED innerPos
    /\ wpc' = "publish"
    /\ UNCHANGED <<bufferVars, seekRequest, active, fatal, shutdown,
                   chunkLen, srcLen, seekable, token, callerVars>>

FetchIsStale == seekRequest # None \/ active.cancelled

\* publish_read_result and the slow-start growth that follows it in run.
PublishRead ==
    /\ wpc = "publish"
    /\ active' = NoFetch
    /\ \/ /\ shutdown \/ token \/ FetchIsStale
          /\ UNCHANGED <<bufferVars, fatal>>
       \/ /\ ~shutdown /\ ~token /\ ~FetchIsStale
          /\ \/ fetched = 0 /\ MarkEof /\ UNCHANGED fatal
             \/ fetched > 0 /\ AppendChunk(fetched) /\ UNCHANGED fatal
             \/ fetched = None /\ fatal' = TRUE /\ UNCHANGED bufferVars
    /\ chunkLen' = IF fetched > 0 THEN Smaller(2 * chunkLen, ChunkBytes)
                                  ELSE chunkLen
    /\ fetched' = 0
    /\ wpc' = "choose"
    /\ UNCHANGED <<seekRequest, shutdown, innerPos, srcLen, seekable, token,
                   callerVars>>

Worker == \/ StopWorker \/ TakeSeekRequest \/ ChooseFetch \/ WaitForWork
          \/ InnerSeek \/ PublishSeekError \/ AbandonFetch \/ InnerRead
          \/ PublishRead

-----------------------------------------------------------------------------
(* PrefetchingByteSource::read.  Each turn of its loop runs under the mutex; *)
(* the wait between turns ends by itself after 10 ms.                        *)

ReadStart(n) ==
    /\ fg = "idle"
    /\ fg' = "reading"
    /\ want' = n
    /\ readCancelled' = FALSE
    /\ UNCHANGED <<bufferVars, seekRequest, active, fatal, shutdown, wpc,
                   workerVars, token, lifecycle, logical, result>>

CancelRead ==
    /\ fg = "reading"
    /\ ~readCancelled
    /\ readCancelled' = TRUE
    /\ UNCHANGED <<bufferVars, seekRequest, active, fatal, shutdown, wpc,
                   workerVars, token, fg, want, lifecycle, logical, result>>

CloseLifecycle ==
    /\ ~lifecycle
    /\ lifecycle' = TRUE
    /\ UNCHANGED <<bufferVars, seekRequest, active, fatal, shutdown, wpc,
                   workerVars, token, fg, want, readCancelled, logical, result>>

ReadReturns(kind, data) ==
    /\ fg' = "idle"
    /\ result' = Outcome(kind, logical, data)
    /\ readCancelled' = FALSE
    /\ want' = 0
    /\ UNCHANGED <<seekRequest, active, shutdown, workerVars, token, lifecycle>>

ReadAborts ==
    /\ fg = "reading"
    /\ \/ (readCancelled \/ shutdown) /\ ReadReturns("cancelled", <<>>)
       \/ /\ ~readCancelled /\ ~shutdown /\ lifecycle
          /\ ReadReturns("closed", <<>>)
    /\ UNCHANGED <<bufferVars, fatal, wpc, logical>>

ReadMayProceed == fg = "reading" /\ ~readCancelled /\ ~shutdown /\ ~lifecycle

HasBytes == seekRequest = None /\ AvailableFromCursor > 0

ReadCopies ==
    /\ ReadMayProceed
    /\ HasBytes
    /\ LET n == Smaller(AvailableFromCursor, want)
       IN  /\ ReadReturns("bytes", [i \in 1..n |-> ByteAt(cursor + i - 1)])
           /\ logical' = logical + n
           /\ MoveCursorAndEvict(cursor + n)
    /\ NotifyAll
    /\ UNCHANGED fatal

\* Mutant: the worker is not told that the error has been consumed.
Mut_ReadTakesError ==
    /\ ReadMayProceed
    /\ ~HasBytes
    /\ fatal
    /\ fatal' = FALSE
    /\ ReadReturns("error", <<>>)
    /\ UNCHANGED <<bufferVars, logical, wpc>>

ReadTakesError ==
    /\ ReadMayProceed
    /\ ~HasBytes
    /\ fatal
    /\ fatal' = FALSE
    /\ ReadReturns("error", <<>>)
    /\ NotifyAll
    /\ UNCHANGED <<bufferVars, logical>>

ReadSeesEof ==
    /\ ReadMayProceed
    /\ ~HasBytes /\ ~fatal
    /\ seekRequest = None /\ IsEofAtCursor
    /\ ReadReturns("eof", <<>>)
    /\ UNCHANGED <<bufferVars, fatal, wpc, logical>>

ReadTurn == ReadAborts \/ ReadCopies \/ ReadTakesError \/ ReadSeesEof

-----------------------------------------------------------------------------
(* apply_prefetch_seek, one critical section *)

IsBuffered(o) == Contains(o) \/ o = BufferedEnd

SeekReturns(kind, o) ==
    /\ logical' = o
    /\ result' = Outcome(kind, o, <<>>)
    /\ UNCHANGED <<shutdown, workerVars, token, fg, want, readCancelled,
                   lifecycle>>

SeekInsideWindow(o) ==
    /\ fg = "idle"
    /\ IsBuffered(o)
    /\ seekRequest' = None
    /\ MoveCursorAndEvict(o)
    /\ NotifyAll
    /\ SeekReturns("sought", o)
    /\ UNCHANGED <<active, fatal>>

SeekNotSeekable(o) ==
    /\ fg = "idle"
    /\ ~IsBuffered(o) /\ ~seekable
    /\ SeekReturns(IF o # logical THEN "notSeekable" ELSE "sought", logical)
    /\ UNCHANGED <<bufferVars, seekRequest, active, fatal, wpc>>

\* ActivePrefetchFetch::can_materialize
ActiveFetchCovers(o) ==
    active.on /\ ~active.cancelled /\ o >= active.start /\ o < active.end

NextFetchCovers(o) ==
    /\ ~active.on /\ seekRequest = None /\ ~fatal /\ ~shutdown
    /\ NeedsFetch
    /\ o >= BufferedEnd /\ o - BufferedEnd < InitialChunk

StageForwardSeek(o) ==
    /\ fg = "idle"
    /\ ~IsBuffered(o) /\ seekable
    /\ ActiveFetchCovers(o) \/ NextFetchCovers(o)
    /\ cursor' = o
    /\ NotifyAll
    /\ SeekReturns("sought", o)
    /\ UNCHANGED <<chunks, base, eof, total, seekRequest, active, fatal>>

RequestSeek(o) ==
    /\ fg = "idle"
    /\ ~IsBuffered(o) /\ seekable
    /\ ~ActiveFetchCovers(o) /\ ~NextFetchCovers(o)
    /\ seekRequest' = o
    /\ fatal' = FALSE
    /\ active' = [active EXCEPT !.cancelled = active.on]
    /\ NotifyAll
    /\ SeekReturns("sought", o)
    /\ UNCHANGED bufferVars

SeekTo(o) == \/ SeekInsideWindow(o) \/ SeekNotSeekable(o)
             \/ StageForwardSeek(o) \/ RequestSeek(o)

-----------------------------------------------------------------------------
(* Drop: shutdown under the mutex, then the token, then the wakeup, then join *)

DropBegins ==
    /\ fg = "idle"
    /\ fg' = "dropToken"
    /\ shutdown' = TRUE
    /\ active' = [active EXCEPT !.cancelled = active.on]
    /\ UNCHANGED <<bufferVars, seekRequest, fatal, wpc, workerVars, token,
                   want, readCancelled, lifecycle, logical, result>>

DropCancelsWorker ==
    /\ fg = "dropToken"
    /\ fg' = "dropNotify"
    /\ token' = TRUE
    /\ UNCHANGED <<bufferVars, seekRequest, active, fatal, shutdown, wpc,
                   workerVars, want, readCancelled, lifecycle, logical, result>>

\* Mutant: Drop joins without waking the sleeping worker.
Mut_DropNotifies ==
    /\ fg = "dropNotify"
    /\ fg' = "joining"
    /\ UNCHANGED <<bufferVars, seekRequest, active, fatal, shutdown, token, wpc,
                   workerVars, want, readCancelled, lifecycle, logical, result>>

DropNotifies ==
    /\ fg = "dropNotify"
    /\ fg' = "joining"
    /\ NotifyAll
    /\ UNCHANGED <<bufferVars, seekRequest, active, fatal, shutdown, token,
                   workerVars, want, readCancelled, lifecycle, logical, result>>

DropJoins ==
    /\ fg = "joining"
    /\ wpc = "stopped"
    /\ fg' = "dropped"
    /\ UNCHANGED <<bufferVars, seekRequest, active, fatal, shutdown, wpc, token,
                   workerVars, want, readCancelled, lifecycle, logical, result>>

DropTurn == DropCancelsWorker \/ DropNotifies \/ DropJoins

-----------------------------------------------------------------------------
Init ==
    /\ chunks = <<>> /\ base = StartOffset /\ cursor = StartOffset
    /\ eof = None /\ total = 0
    /\ seekRequest = None /\ active = NoFetch
    /\ fatal = FALSE /\ shutdown = FALSE
    /\ wpc = "choose" /\ chunkLen = InitialChunk
    /\ innerPos = StartOffset /\ fetched = 0 /\ token = FALSE
    /\ \E m \in Media : srcLen = m.len /\ seekable = m.seekable
    /\ fg = "idle" /\ want = 0 /\ readCancelled = FALSE /\ lifecycle = FALSE
    /\ logical = StartOffset
    /\ result = Outcome("none", StartOffset, <<>>)

Foreground == \/ \E n \in 1..MaxRead : ReadStart(n)
              \/ ReadTurn
              \/ \E o \in Offset : SeekTo(o)
              \/ DropBegins
              \/ DropTurn

\* The source is gone and its worker joined: nothing is left to happen.
Gone == fg = "dropped" /\ UNCHANGED vars

Next == \/ Worker \/ SpuriousWakeup \/ Foreground
        \/ CancelRead \/ CloseLifecycle \/ Gone

\* The worker thread keeps running and every inner seek and read returns; the
\* foreground wait is a 10 ms poll; a Drop once begun runs to its join.
Fairness == WF_vars(Worker) /\ WF_vars(ReadTurn) /\ WF_vars(DropTurn)

Spec == Init /\ [][Next]_vars
FairSpec == Spec /\ Fairness

-----------------------------------------------------------------------------
(* Properties *)

\* Every variable keeps its type; offsets never leave the u64 range.
TypeOK ==
    /\ chunks \in Seq(Chunk)
    /\ base \in Offset /\ cursor \in Offset /\ eof \in OptOffset
    /\ total \in Nat /\ BufferedEnd <= MaxOffset
    /\ seekRequest \in OptOffset
    /\ active \in Fetch
    /\ fatal \in BOOLEAN /\ shutdown \in BOOLEAN /\ token \in BOOLEAN
    /\ wpc \in {"choose", "waiting", "seek", "seekFailed", "read", "publish",
                "stopped"}
    /\ chunkLen \in InitialChunk..ChunkBytes
    /\ innerPos \in Nat /\ srcLen \in Nat /\ seekable \in BOOLEAN
    /\ fetched \in 0..ChunkBytes \cup {None}
    /\ fg \in {"idle", "reading", "dropToken", "dropNotify", "joining",
               "dropped"}
    /\ want \in 0..MaxRead
    /\ readCancelled \in BOOLEAN /\ lifecycle \in BOOLEAN
    /\ logical \in Offset

\* The position the caller is told is the offset the next byte will come from:
\* the pending seek target, or else the cursor of the window, whatever seeks,
\* staged seeks and superseded seeks ran while a fetch was in flight.
PositionCoherent ==
    logical = IF seekRequest # None THEN seekRequest ELSE cursor

\* A fetch that may still be published continues the window exactly where it
\* ends, and the window has no end of file yet: this is what the assertions
\* of append_chunk and stage_cursor_ahead and the debug_assert on
\* active_fetch rely on, across every seek issued while the fetch runs.
LiveFetchExtendsWindow ==
    /\ active.on /\ ~active.cancelled => /\ active.start = BufferedEnd
                                         /\ eof = None /\ ~fatal
                                         /\ seekRequest = None
    /\ wpc \in {"choose", "waiting"} => ~active.on

\* A recorded error belongs to the end of the current window: it never
\* survives into a pending seek and never coexists with an end of file.
ErrorBelongsToWindow == fatal => seekRequest = None /\ eof = None

\* A staged seek never leaves the cursor further ahead than one chunk, so the
\* fetches that follow reach it, and no path moves it behind the window.
CursorNearWindow == base <= cursor /\ cursor < BufferedEnd + ChunkBytes

\* The chunks lie end to end from base to the buffered end, and each holds the
\* bytes of the medium that its place in the window promises.
WindowIsMedium ==
    /\ \A i \in DOMAIN chunks : /\ base < chunks[i].end
                               /\ ChunkStart(i) < chunks[i].end
                               /\ chunks[i].src = ChunkStart(i)
                               /\ chunks[i].end <= srcLen
    /\ \A i, j \in DOMAIN chunks : i < j => chunks[i].end < chunks[j].end
    /\ BufferedEnd = IF Len(chunks) = 0 THEN base ELSE chunks[Len(chunks)].end

\* What the worker holds outside the mutex agrees with the shared state: the
\* inner source stands where the fetch it serves starts, until shutdown.
FetchCoherent ==
    /\ active.on <=> wpc \in {"seek", "seekFailed", "read", "publish"}
    /\ active.end <= active.start + ChunkBytes
    /\ active.cancelled => active.on
    /\ ~seekable => /\ seekRequest = None
                    /\ wpc \notin {"seek", "seekFailed"}
                    /\ active.cancelled => shutdown
                    /\ (~shutdown /\ wpc \in {"choose", "waiting"} /\ eof = None)
                         => innerPos = BufferedEnd
    /\ (wpc = "read" /\ ~shutdown) => innerPos = active.start
    /\ (wpc = "publish" /\ ~shutdown) =>
          /\ fetched = None => innerPos = active.start
          /\ fetched # None => innerPos = active.start + fetched
          /\ fetched > 0 => innerPos <= srcLen
          /\ fetched = 0 => innerPos >= srcLen

\* An end of file is recorded at the end of the window, and only where the
\* medium or the offset space ends.
EofTruthful ==
    eof # None => /\ eof = BufferedEnd
                  /\ eof >= srcLen \/ eof + ChunkBytes > MaxOffset

\* The caller's thread: a read in progress has an output buffer, Drop is the
\* only writer of the shutdown flag and of the worker's token.
CallerCoherent ==
    /\ fg = "reading" => want \in 1..MaxRead
    /\ shutdown <=> fg \in {"dropToken", "dropNotify", "joining", "dropped"}
    /\ token => shutdown

\* The inductive invariant: the window holds the medium, the fetch in flight
\* continues it, and the caller's position points into it.
IInv == /\ TypeOK /\ PositionCoherent /\ LiveFetchExtendsWindow
        /\ ErrorBelongsToWindow /\ CursorNearWindow /\ WindowIsMedium
        /\ FetchCoherent /\ EofTruthful /\ CallerCoherent

\* The window delivers the medium: every completed read, end of file and seek
\* is one the plain sequential byte source allows.
Source == INSTANCE ByteSource WITH pos <- logical, len <- srcLen
ImplementsByteSource == Source!Spec

\* No lost wakeup: a read always comes back with bytes, end of file or an
\* error, even though the worker sleeps on the condition variable without a
\* timeout.
ReadReturnsEventually == (fg = "reading") ~> (fg # "reading")

\* Drop always joins the worker, wherever the shutdown finds it.
DropTerminates == (fg = "dropToken") ~> (fg = "dropped")
=============================================================================
