---------------------------- MODULE RenderLeases ----------------------------
(***************************************************************************)
(* How a decoded frame travels: the decoder puts it into a slot of its     *)
(* pool, the worker selects it as the present frame, leases it and         *)
(* publishes it through the PresentHandoff, the UI takes, shows and drops  *)
(* it, the drop of the last clone sends a release ack back, and the worker *)
(* returns the slot to the decoder that made the frame.                    *)
(*                                                                         *)
(* The pipeline state pl is the worker's own: the active decoder dec (0 =  *)
(* none), the render generation gen, the decoded generation dgen, the      *)
(* queued and the present frame, and the lease accounting:                 *)
(* leased_video_textures, deferred_video_texture_releases and              *)
(* retired_video_decoders.  (rendered_video_texture_release_providers only *)
(* chooses whether the decoder or its provider frees the same slot.)       *)
(* pool[d] are the slots of decoder d in use.  Three history fields are    *)
(* only read by the properties: lost (frames whose release found no        *)
(* decoder), twice (a slot was released again) and endedBy (what closed    *)
(* each past generation).                                                  *)
(***************************************************************************)
EXTENDS PresentHandoff, Integers, FiniteSets, FiniteSetsExt

CONSTANTS
    MaxDecoders,    \* decoders started one after the other
    Slots,          \* slots of one decoder's pool
    MaxFrames,      \* frames the decoders make in all
    MaxOperations,  \* seeks, stops, installs, ticks without a new frame, shutdown
    MaxRefusals,    \* frames the renderer does not accept
    Playing         \* playback is active: the UI keeps its fallback timer

ASSUME RenderLeasesAssumption ==
    /\ MaxDecoders \in Nat \ {0} /\ Slots \in Nat \ {0} /\ MaxFrames \in Nat
    /\ MaxOperations \in Nat /\ MaxRefusals \in Nat /\ Playing \in BOOLEAN

Decoders == 1 .. MaxDecoders
Handles == 1 .. MaxFrames
Generations == 0 .. MaxOperations
Leases == [gen : Generations, dec : Decoders, h : Handles, dgen : Generations]
Frames == [dec : Decoders, h : Handles, dgen : Generations]
Keys == Generations \X Handles
RENDER_RELEASE_CHANNEL_CAPACITY == 512

ASSUME NoLeaseAssumption == NoLease \notin Leases /\ NoLease \notin Frames

VARIABLES
    pl,        \* PlaybackPipeline and the decoders' pools
    made,      \* frames each decoder has made
    used,      \* decoders started so far
    ho,        \* the present-frame handoff
    acks,      \* the release channel
    submitted, \* live leases the renderer has submitted
    wpc,       \* the worker: where publish_session_outputs stands
    wakes,     \* this publication wakes the UI: a changed slot or an event
    ending,    \* the worker leaves after this publication
    snap,      \* the latest snapshot channel
    wake,      \* the edge of the presentation wake port
    ui,        \* the UI thread: pc, its snapshot, the lease in hand, and (history)
               \* the newest published frame when this pass began
    cached,    \* cached_renderable_present_frame
    redraw,    \* a follow-up redraw is requested
    claimed,   \* WaitingFrameFollowUpMemory
    count      \* frames, operations and refusals so far

vars == <<pl, made, used, ho, acks, submitted, wpc, wakes, ending, snap, wake,
          ui, cached, redraw, claimed, count>>

uiVars == <<ui, cached, redraw, claimed, submitted>>

Key(l) == <<l.gen, l.h>>

\* The leases some clone of which is alive.
Live == (HandoffLeases(ho) \cup {ui.hand, cached}) \ {NoLease}

Init ==
    /\ pl = [dec |-> 1, gen |-> 0, dgen |-> 0, queue |-> <<>>, present |-> NoLease,
             stale |-> FALSE, leased |-> <<>>, deferred |-> {},
             retired |-> <<>>, pool |-> [d \in Decoders |-> {}],
             lost |-> {}, twice |-> FALSE, endedBy |-> <<>>]
    /\ made = [d \in Decoders |-> 0]
    /\ used = 1
    /\ ho = EmptyHandoff
    /\ acks = <<>> /\ submitted = {}
    /\ wpc = "idle" /\ wakes = FALSE /\ ending = FALSE
    /\ snap = [gen |-> 0, has |-> FALSE]
    /\ wake = FALSE
    /\ ui = [pc |-> "idle", snap |-> [gen |-> 0, has |-> FALSE], hand |-> NoLease,
             seen |-> NoLease]
    /\ cached = NoLease /\ redraw = FALSE /\ claimed = NoLease
    /\ count = [frames |-> 0, operations |-> 0, refusals |-> 0]

-----------------------------------------------------------------------------
(* Lease accounting of the pipeline.                                       *)

\* The decoder or its resource provider takes the slots back.
ReleaseFrames(p, d, hs) ==
    [p EXCEPT !.pool[d] = @ \ hs, !.twice = @ \/ ~(hs \subseteq p.pool[d])]

HasLeasesForGeneration(p, g) == \E k \in DOMAIN p.leased : k[1] = g

\* A map after the insertion of a key.
Insert(f, k, v) == [x \in DOMAIN f \cup {k} |-> IF x = k THEN v ELSE f[x]]

TryRegisterRenderLease(p, k) ==
    [p EXCEPT !.leased = Insert(@, k, IF k \in DOMAIN @ THEN @[k] + 1 ELSE 1)]

\* Fault: a leased frame is released at once.
Mut_ReleaseVideoTextures(p, hs) ==
    IF p.dec = 0 THEN p ELSE ReleaseFrames(p, p.dec, hs)

\* release_video_texture for each of the handles: a leased one is deferred.
ReleaseVideoTextures(p, hs) ==
    LET held == {h \in hs : <<p.gen, h>> \in DOMAIN p.leased}
        q == [p EXCEPT !.deferred = @ \cup {<<p.gen, h>> : h \in held}]
    IN  IF p.dec = 0 THEN q ELSE ReleaseFrames(q, p.dec, hs \ held)

DropRetiredDecoderIfIdle(p, g) ==
    IF HasLeasesForGeneration(p, g) THEN p
    ELSE [p EXCEPT !.retired = [x \in DOMAIN @ \ {g} |-> @[x]]]

\* Fault: the release through the provider forgets the retired decoder.
Mut_ReleaseDeferredVideoTexture(p, a) ==
    IF a.submitted
      THEN ReleaseFrames(p, a.dec, {a.h})
    ELSE IF a.gen = p.gen
      THEN IF p.dec = 0 THEN p ELSE ReleaseFrames(p, p.dec, {a.h})
    ELSE IF a.gen \in DOMAIN p.retired
      THEN DropRetiredDecoderIfIdle(ReleaseFrames(p, p.retired[a.gen], {a.h}), a.gen)
      ELSE p

\* The deferred slot goes back the way its generation asks for.
ReleaseDeferredVideoTexture(p, a) ==
    IF a.submitted
      THEN DropRetiredDecoderIfIdle(ReleaseFrames(p, a.dec, {a.h}), a.gen)
    ELSE IF a.gen = p.gen
      THEN IF p.dec = 0 THEN p ELSE ReleaseFrames(p, p.dec, {a.h})
    ELSE IF a.gen \in DOMAIN p.retired
      THEN DropRetiredDecoderIfIdle(ReleaseFrames(p, p.retired[a.gen], {a.h}), a.gen)
      ELSE [p EXCEPT !.lost = @ \cup {[dec |-> a.dec, h |-> a.h, gen |-> a.gen]}]

\* record_release: one ack leaves the accounting.
RecordRelease(p, a) ==
    LET k == <<a.gen, a.h>>
        q == [p EXCEPT !.leased = [x \in DOMAIN @ \ {k} |-> @[x]]]
    IN  CASE k \notin DOMAIN p.leased -> p
          [] k \in DOMAIN p.leased /\ p.leased[k] > 1 -> [p EXCEPT !.leased[k] = @ - 1]
          [] OTHER ->
               IF k \in p.deferred
                 THEN ReleaseDeferredVideoTexture([q EXCEPT !.deferred = @ \ {k}], a)
                 ELSE q

\* The worker takes the oldest ack from the channel.
ReceiveRelease ==
    /\ acks # <<>>
    /\ pl' = RecordRelease(pl, Head(acks)) /\ acks' = Tail(acks)

-----------------------------------------------------------------------------
(* Dropping leases.  The last clone's drop sends the ack, or, when the     *)
(* channel is full for 2 ms or the worker is gone, returns the slot itself.*)

Ack(l, sub) == [gen |-> l.gen, dec |-> l.dec, h |-> l.h, submitted |-> l \in sub]

\* release_without_worker for each of the leases: the provider takes the slot.
ReleaseWithoutWorker(p, ls) ==
    [p EXCEPT !.pool = [d \in Decoders |-> @[d] \ {l.h : l \in {x \in ls : x.dec = d}}],
              !.twice = @ \/ \E l \in ls :
                                \/ l.h \notin p.pool[l.dec]
                                \/ \E m \in ls \ {l} : m.dec = l.dec /\ m.h = l.h]

\* What the drops of this step send, in some order, given the clones that remain;
\* sub are the submitted leases as the step has left them.
DropDead(sub) ==
    LET dead == Live \ Live'
        room == IF wpc' = "ended" THEN 0 ELSE RENDER_RELEASE_CHANNEL_CAPACITY - Len(acks)
        fits == Min({room, Cardinality(dead)})
    IN  /\ \E order \in Bijection(1 .. Cardinality(dead), dead) :
              /\ acks' = acks \o [i \in 1 .. fits |-> Ack(order[i], sub)]
              /\ pl' = ReleaseWithoutWorker(pl, {order[i] : i \in fits + 1 .. Cardinality(dead)})
        /\ submitted' = sub \cap Live'

-----------------------------------------------------------------------------
(* The worker's operations on its session.  Each one is followed by a      *)
(* publication, except the intake of a frame and the drain of acks.        *)

Ready == wpc = "idle" /\ ~ending

Operation ==
    /\ Ready
    /\ count.operations < MaxOperations
    /\ count' = [count EXCEPT !.operations = @ + 1]

\* The operation has left the pipeline as p, and publish_present_frame begins.
\* event: the operation also publishes an event, and every event wakes the UI.
ThenPublish(p, event) ==
    /\ pl' = p
    /\ wpc' = "drain" /\ wakes' = event
    /\ UNCHANGED <<ho, acks, snap, wake, uiVars>>

\* A frame of the active decoder joins the queue; it needs a free slot.
Decode ==
    LET d == pl.dec
    IN  /\ Ready /\ d # 0
        /\ count.frames < MaxFrames /\ Cardinality(pl.pool[d]) < Slots
        /\ made' = [made EXCEPT ![d] = @ + 1]
        /\ pl' = [pl EXCEPT !.pool[d] = @ \cup {made[d] + 1},
                            !.queue = Append(@, [dec |-> d, h |-> made[d] + 1, dgen |-> pl.dgen])]
        /\ count' = [count EXCEPT !.frames = @ + 1]
        /\ UNCHANGED <<used, ho, acks, wpc, wakes, ending, snap, wake, uiVars>>

HandlesOf(frames) == {f.h : f \in frames \ {NoLease}}

\* Every frame the pipeline owns, and the pipeline without them.
OwnFrames(p) == Range(p.queue) \cup {p.present}
WithoutFrames(p) == ReleaseVideoTextures([p EXCEPT !.queue = <<>>, !.present = NoLease],
                                         HandlesOf(OwnFrames(p)))

\* present_front_queued_video_frame.
PresentNext ==
    /\ Ready /\ pl.queue # <<>>
    /\ ThenPublish(ReleaseVideoTextures(
                     [pl EXCEPT !.queue = Tail(@), !.present = Head(pl.queue), !.stale = FALSE],
                     HandlesOf({pl.present})), FALSE)
    /\ UNCHANGED <<made, used, ending, count>>

\* clear_queued_video_frames: the picture on the screen stays.
ClearQueued(p) == ReleaseVideoTextures([p EXCEPT !.queue = <<>>], HandlesOf(Range(p.queue)))

\* A seek opens a decoded generation and keeps the present frame as stale.
Seek ==
    /\ Operation /\ pl.dec # 0
    /\ ThenPublish([ClearQueued(pl) EXCEPT !.dgen = @ + 1, !.stale = pl.present # NoLease], TRUE)
    /\ UNCHANGED <<made, used, ending>>

\* The stale picture gives its slot back when the pool has none left.
ReleaseStalePresentFrame ==
    /\ Ready /\ pl.stale /\ pl.present # NoLease
    /\ Cardinality(pl.pool[pl.dec]) = Slots
    /\ ThenPublish(ReleaseVideoTextures([pl EXCEPT !.present = NoLease], {pl.present.h}), FALSE)
    /\ UNCHANGED <<made, used, ending, count>>

AdvanceRenderGeneration(p, why) ==
    [p EXCEPT !.gen = @ + 1, !.endedBy = Insert(@, p.gen, why)]

\* reset_media_state: the decoder stays, the render generation moves on.
Stop ==
    /\ Operation
    /\ ThenPublish([AdvanceRenderGeneration(WithoutFrames(pl), "stop")
                      EXCEPT !.dgen = 0, !.stale = FALSE], TRUE)
    /\ UNCHANGED <<made, used, ending>>

\* Fault: the decoder of the last medium is dropped at once.
Mut_RetainRetired(p, g, d) == p

\* retain_retired_video_decoder_for_outstanding_leases.
RetainRetired(p, g, d) ==
    IF d = 0 \/ ~HasLeasesForGeneration(p, g) THEN p
    ELSE [p EXCEPT !.retired = Insert(@, g, d)]

NewDecoder == used + 1

\* commit_staged_media: the next medium has its own decoder, or no video.
InstallMedia ==
    /\ Operation
    /\ \E d \in {0} \cup (IF used < MaxDecoders THEN {NewDecoder} ELSE {}) :
         LET p == [AdvanceRenderGeneration(WithoutFrames(pl), "install")
                     EXCEPT !.dec = d, !.dgen = 0, !.stale = FALSE]
         IN  /\ ThenPublish(RetainRetired(p, pl.gen, pl.dec), TRUE)
             /\ used' = IF d = 0 THEN used ELSE d
    /\ UNCHANGED <<made, ending>>

\* install_video_backend_with_intent: a failed swap puts the previous decoder back.
InstallVideoBackend ==
    /\ Operation /\ used < MaxDecoders
    /\ \E ok \in BOOLEAN :
         LET p == IF pl.dec = 0 THEN pl
                  ELSE AdvanceRenderGeneration(WithoutFrames(pl), "backend")
         IN  ThenPublish([p EXCEPT !.dec = IF ok \/ pl.dec = 0 THEN NewDecoder ELSE @], TRUE)
    /\ used' = NewDecoder
    /\ UNCHANGED <<made, ending>>

\* A tick that changes no frame still publishes.
Republish ==
    /\ Operation
    /\ ThenPublish(pl, FALSE)
    /\ UNCHANGED <<made, used, ending>>

\* A release ack wakes the waiting worker.
AckWake ==
    /\ Ready /\ ReceiveRelease
    /\ UNCHANGED <<made, used, ho, wpc, wakes, ending, snap, wake, uiVars, count>>

\* The shutdown event; run() publishes once more and returns.
Shutdown ==
    /\ Operation
    /\ ending' = TRUE
    /\ ThenPublish(pl, TRUE)
    /\ UNCHANGED <<made, used>>

-----------------------------------------------------------------------------
(* publish_session_outputs: slot, then snapshot, then wake.  The handoff's *)
(* mutex is held in the states probe, push and clear.                      *)

Busy == wpc \in {"probe", "push", "clear"}

LeaseOf(p) == [gen |-> p.gen, dec |-> p.present.dec, h |-> p.present.h, dgen |-> p.present.dgen]

\* drain_releases before a publication: the UI may drop leases meanwhile.
DrainReleases ==
    /\ wpc = "drain" /\ ReceiveRelease
    /\ UNCHANGED <<made, used, ho, wpc, wakes, ending, snap, wake, uiVars, count>>

\* try_recv found nothing; without a frame the slot will be cleared.
PublishPresentFrame ==
    /\ wpc = "drain" /\ acks = <<>>
    /\ wpc' = IF pl.dec = 0 \/ pl.present = NoLease THEN "clear" ELSE "probe"
    /\ UNCHANGED <<pl, made, used, ho, acks, wakes, ending, snap, wake, uiVars, count>>

AlreadyPublished == NewestPublished(ho) = LeaseOf(pl)

\* newest_identity: the same frame is not published again; another is leased.
PublishProbe ==
    /\ wpc = "probe"
    /\ IF AlreadyPublished
         THEN wpc' = "snapshot" /\ UNCHANGED pl
         ELSE wpc' = "push" /\ pl' = TryRegisterRenderLease(pl, <<pl.gen, pl.present.h>>)
    /\ UNCHANGED <<made, used, ho, acks, wakes, ending, snap, wake, uiVars, count>>

PublishPush ==
    /\ wpc = "push"
    /\ ho' = Published(ho, LeaseOf(pl))
    /\ wpc' = "snapshot" /\ wakes' = TRUE
    /\ UNCHANGED <<ui, cached>>
    /\ DropDead(submitted)
    /\ UNCHANGED <<made, used, ending, snap, wake, redraw, claimed, count>>

PublishClear ==
    /\ wpc = "clear"
    /\ ho' = EmptyHandoff
    /\ wpc' = "snapshot" /\ wakes' = (wakes \/ NewestPublished(ho) # NoLease)
    /\ UNCHANGED <<ui, cached>>
    /\ DropDead(submitted)
    /\ UNCHANGED <<made, used, ending, snap, wake, redraw, claimed, count>>

\* Where the worker goes when the publication is over; leaving drops the channel.
AfterPublication ==
    /\ wpc' = IF ending THEN "ended" ELSE "idle"
    /\ acks' = IF ending THEN <<>> ELSE acks

PublishSnapshot ==
    /\ wpc = "snapshot"
    /\ snap' = [gen |-> pl.gen, has |-> pl.present # NoLease]
    /\ IF wakes THEN wpc' = "wake" /\ UNCHANGED acks ELSE AfterPublication
    /\ UNCHANGED <<pl, made, used, ho, wakes, ending, wake, uiVars, count>>

PublishWake ==
    /\ wpc = "wake"
    /\ wake' = TRUE
    /\ AfterPublication
    /\ UNCHANGED <<pl, made, used, ho, wakes, ending, snap, uiVars, count>>

-----------------------------------------------------------------------------
(* One frame of the UI thread.                                             *)

UiKeeps == UNCHANGED <<made, used, wpc, wakes, ending, snap, wake>>

BeginFrame ==
    /\ ui.pc = "idle"
    /\ ui' = [ui EXCEPT !.pc = "peek", !.snap = snap, !.seen = NewestPublished(ho)]
    /\ wake' = FALSE /\ redraw' = FALSE
    /\ UNCHANGED <<pl, made, used, ho, acks, submitted, wpc, wakes, ending, snap,
                   cached, claimed, count>>

\* A wake of the worker or a redraw the UI asked for itself.
UiBegin == (wake \/ redraw) /\ BeginFrame

\* wants_continuous_redraw: during playback the loop also has a timer.
UiTimer == Playing /\ BeginFrame

\* Why the cached frame is the picture of the UI's snapshot.
CachedIsValid == cached # NoLease /\ ui.snap.has /\ cached.gen = ui.snap.gen

\* Fault: a valid cached frame is taken for the one in the slot.
Mut_PresentFrameChanged == Busy \/ ~CachedIsValid

\* peek_present_frame_change = Changed.
PresentFrameChanged ==
    LET next == NextForRender(ho)
    IN  \/ Busy
        \/ next = NoLease /\ ~CachedIsValid /\ cached # NoLease
        \/ next # NoLease /\ ~CachedIsValid
        \/ next # NoLease /\ CachedIsValid /\ next.gen = ui.snap.gen /\ cached # next

\* The frame is skipped when neither the video nor the interface changes.
UiPeek ==
    /\ ui.pc = "peek"
    /\ \E interfaceChanged \in BOOLEAN :
         ui' = [ui EXCEPT !.pc =
                  IF PresentFrameChanged \/ interfaceChanged THEN "acquire" ELSE "idle"]
    /\ UiKeeps /\ UNCHANGED <<pl, ho, acks, submitted, cached, redraw, claimed, count>>

Refused == count.refusals < MaxRefusals /\ count' = [count EXCEPT !.refusals = @ + 1]

\* The surface gives no buffer: no frame is taken and nothing is asked for.
UiNoSurface ==
    /\ ui.pc = "acquire" /\ Refused
    /\ cached' \in {cached, NoLease}
    /\ ui' = [ui EXCEPT !.pc = "idle"]
    /\ UNCHANGED ho /\ UiKeeps
    /\ DropDead(submitted)
    /\ UNCHANGED <<redraw, claimed>>

\* acquire_present_frame_for_render.
UiAcquire ==
    /\ ui.pc = "acquire"
    /\ LET kept == IF CachedIsValid THEN cached ELSE NoLease
           next == TakenNext(ho)
           stale == next.taken # NoLease /\ next.taken.gen # ui.snap.gen
       IN  /\ ho' = IF Busy THEN ho ELSE next
           /\ cached' = IF ~Busy /\ stale THEN NoLease ELSE kept
           /\ ui' = [ui EXCEPT !.pc = "show",
                       !.hand = IF Busy \/ next.taken = NoLease THEN kept
                                ELSE IF stale THEN NoLease ELSE next.taken]
    /\ UiKeeps
    /\ DropDead(submitted)
    /\ UNCHANGED <<redraw, claimed, count>>

\* What the renderer did with the frame in hand.  Without the old interface to
\* draw over it the frame is refused and asked for again at once.
UiShow(outcome) ==
    /\ ui.pc = "show"
    /\ CASE outcome = "presented" ->
              /\ cached' = IF ui.hand = NoLease THEN cached ELSE ui.hand
              /\ UNCHANGED count
         [] outcome = "busy" -> cached' = cached /\ Refused
         [] outcome = "error" -> cached' = NoLease /\ Refused
         [] outcome = "dropped" -> cached' \in {ui.hand, NoLease} /\ Refused
         [] outcome = "interface" -> cached' = ui.hand /\ Refused
    /\ ui.hand # NoLease \/ outcome = "presented"
    /\ ui' = [ui EXCEPT !.pc = IF outcome \in {"dropped", "interface"} THEN "idle" ELSE "probe",
                        !.hand = NoLease]
    /\ redraw' = (redraw \/ outcome = "interface")
    /\ UNCHANGED ho /\ UiKeeps
    /\ LET shown == IF outcome = "presented" THEN {ui.hand} \ {NoLease} ELSE {}
       IN  DropDead(submitted \cup shown)
    /\ UNCHANGED claimed

\* request_follow_up_redraw_for_waiting_present_frame: once for each frame.
UiProbe ==
    /\ ui.pc = "probe"
    /\ LET waiting == NextForRender(ho)
           follow == /\ ~Busy /\ waiting # NoLease /\ waiting # cached
                     /\ waiting.gen = ui.snap.gen /\ waiting # claimed
       IN  /\ claimed' = IF follow THEN waiting ELSE claimed
           /\ redraw' = (redraw \/ follow)
    /\ ui' = [ui EXCEPT !.pc = "idle"]
    /\ UiKeeps /\ UNCHANGED <<pl, ho, acks, submitted, cached, count>>

-----------------------------------------------------------------------------
SessionStep ==
    \/ Decode \/ PresentNext \/ Seek \/ ReleaseStalePresentFrame
    \/ Stop \/ InstallMedia \/ InstallVideoBackend \/ Republish \/ Shutdown

PublishStep ==
    \/ DrainReleases \/ PublishPresentFrame \/ PublishProbe \/ PublishPush \/ PublishClear
    \/ PublishSnapshot \/ PublishWake

ShowStep == \E o \in {"presented", "busy", "error", "dropped", "interface"} : UiShow(o)

UiStep == UiPeek \/ UiNoSurface \/ UiAcquire \/ ShowStep \/ UiProbe

Next == SessionStep \/ PublishStep \/ AckWake \/ UiBegin \/ UiTimer \/ UiStep

Spec == Init /\ [][Next]_vars

\* The worker finishes what it publishes and answers an ack; the UI finishes
\* its frame and answers a wake, a redraw request and its timer.
FairSpec ==
    /\ Spec
    /\ WF_vars(PublishStep) /\ WF_vars(AckWake)
    /\ WF_vars(UiStep) /\ WF_vars(UiBegin) /\ WF_vars(UiTimer)

-----------------------------------------------------------------------------
\* The handoff holds at most two untaken frames, and every variable of the
\* bridge, the worker and the UI has its type.
TypeOK ==
    /\ pl.dec \in 0 .. MaxDecoders /\ pl.gen \in Generations /\ pl.dgen \in Generations
    /\ Range(pl.queue) \subseteq Frames /\ pl.present \in Frames \cup {NoLease}
    /\ DOMAIN pl.leased \subseteq Keys /\ pl.deferred \subseteq Keys
    /\ DOMAIN pl.retired \subseteq Generations /\ Range(pl.retired) \subseteq Decoders
    /\ pl.pool \in [Decoders -> SUBSET Handles]
    /\ HandoffLeases(ho) \subseteq Leases
    /\ Len(ho.untaken) <= UNTAKEN_PRESENT_FRAME_CAPACITY
    /\ Len(acks) <= RENDER_RELEASE_CHANNEL_CAPACITY
    /\ submitted \subseteq Live /\ Live \subseteq Leases
    /\ wpc \in {"idle", "drain", "probe", "push", "clear", "snapshot", "wake", "ended"}
    /\ ui.pc \in {"idle", "peek", "acquire", "show", "probe"}
    /\ claimed \in Leases \cup {NoLease}

\* The slot of a frame the UI or the handoff still holds, or whose ack the
\* worker has not read, belongs to that frame: the decoder never writes into a
\* picture that may be on the screen (release_video_texture defers).
LeasedFrameIsHeld ==
    /\ \A l \in Live : l.h \in pl.pool[l.dec]
    /\ \A a \in Range(acks) : a.h \in pl.pool[a.dec]

\* No slot is released twice, whichever of the five release paths a frame
\* takes: a backend answers a second release with a fatal decoder error.
ReleasedOnce == ~pl.twice

\* The keys of the leases the worker has handed out and not got back.
Outstanding ==
    {Key(l) : l \in Live} \cup {<<a.gen, a.h>> : a \in Range(acks)}
        \cup (IF wpc = "push" THEN {<<pl.gen, pl.present.h>>} ELSE {})

\* leased_video_textures is exactly what is outstanding, one lease for each
\* frame, and only a leased frame is deferred: no ack is lost or counted twice
\* on its way from a clone's drop through the channel to the worker.
LeasesAreAccounted ==
    wpc # "ended" =>
        /\ DOMAIN pl.leased = Outstanding
        /\ \A k \in DOMAIN pl.leased : pl.leased[k] = 1
        /\ pl.deferred \subseteq DOMAIN pl.leased

\* A slot in use has an owner that will release it: the queue, the present
\* frame or a deferred release.  Otherwise the pool runs dry (pl.lost are the
\* releases the worker reports as having lost their decoder).
SlotsAreAccounted ==
    wpc # "ended" =>
        \A h \in (IF pl.dec = 0 THEN {} ELSE pl.pool[pl.dec]) :
            \/ h \in HandlesOf(OwnFrames(pl))
            \/ \E k \in pl.deferred : k[2] = h
            \/ \E f \in pl.lost : f.dec = pl.dec /\ f.h = h

\* The player has given up every leased frame of a past generation, and after
\* a staged install the decoder that made it is kept for its release.
OldLeaseHasItsDecoder ==
    \A k \in DOMAIN pl.leased : k[1] # pl.gen =>
        /\ k \in pl.deferred
        /\ pl.endedBy[k[1]] = "install" => k[1] \in DOMAIN pl.retired

\* A retired decoder is kept only for leases of its generation.
RetiredOnlyWhileLeased ==
    \A g \in DOMAIN pl.retired : HasLeasesForGeneration(pl, g)

\* The frames the UI has not taken are of one sequence, in growing order: a
\* picture of before a seek or of the last medium never waits behind a new one.
OneSequence ==
    \A i, j \in DOMAIN ho.untaken :
        i < j => ContinuesSequence(ho.untaken[i], ho.untaken[j])

\* When the worker rests and the wake edge is clear, the UI's last pass began
\* with the published snapshot and the newest frame already in place: slot and
\* snapshot are written before the wake.
WokenAfterEveryChange ==
    (wpc \in {"idle", "ended"} /\ ~wake) =>
        ui.snap = snap /\ ui.seen = NewestPublished(ho)

Before(l, m) ==
    \/ l.gen < m.gen
    \/ l.gen = m.gen /\ l.dgen < m.dgen
    \/ l.gen = m.gen /\ l.dgen = m.dgen /\ l.h < m.h

\* The picture on the screen never goes back: not to an earlier frame of the
\* sequence, not to one of before a seek, not to one of the last medium.
PictureNeverGoesBack ==
    [][cached # NoLease /\ cached' # NoLease => ~Before(cached', cached)]_vars

\* The newest published frame gets to the screen.
NewestIsShown == []<>(NewestPublished(ho) \in {NoLease, cached})

\* A decoder retired by an install is dropped once the UI has let its last
\* picture go: every path of the release of the last lease drops it.
RetiredDecoderIsFreed == []<>(pl.retired = <<>> \/ wpc = "ended")

\* Every deferred frame finds the decoder that made it ("Deferred
\* old-generation frame lost its decoder owner" is never reported).
DeferredFrameHasOwner == pl.lost = {}

\* What always holds of the leases: the types, one release for each slot, exact
\* tables of leases and slots, a decoder kept for the old leases and no longer,
\* one sequence in the handoff, and a wake after every change
\* (render_lease_bridge, retired_video_decoders, publish_session_outputs).
LeaseInv ==
    /\ TypeOK
    /\ ReleasedOnce
    /\ LeasesAreAccounted
    /\ SlotsAreAccounted
    /\ OldLeaseHasItsDecoder
    /\ RetiredOnlyWhileLeased
    /\ OneSequence
    /\ WokenAfterEveryChange

=============================================================================
