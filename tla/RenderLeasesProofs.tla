------------------------- MODULE RenderLeasesProofs -------------------------
(***************************************************************************)
(* Theorems about RenderLeases.  A lease is followed as a token, its        *)
(* generation, decoder and handle, from its registration to the receipt of  *)
(* its ack: the tokens held are those of the live clones, of the acks in    *)
(* the channel, and of the lease about to be published.                     *)
(***************************************************************************)
EXTENDS RenderLeases, TLAPS, FiniteSetTheorems, SequenceTheorems

-----------------------------------------------------------------------------
(* Tokens *)

Tokens == [gen : Generations, dec : Decoders, h : Handles]
Token(x) == [gen |-> x.gen, dec |-> x.dec, h |-> x.h]

\* The frames the pipeline p has in its queue or as the present frame.
Owned(p, h) ==
    \/ p.present # NoLease /\ h = p.present.h
    \/ \E i \in DOMAIN p.queue : h = p.queue[i].h

PresentToken(p) == [gen |-> p.gen, dec |-> p.present.dec, h |-> p.present.h]

\* The tokens held, given the live leases L, the channel q and the worker w.
HeldBy(L, q, w, p) ==
    {Token(l) : l \in L} \cup {Token(q[i]) : i \in DOMAIN q}
        \cup (IF w = "push" THEN {PresentToken(p)} ELSE {})
Held == HeldBy(Live, acks, wpc, pl)

-----------------------------------------------------------------------------
(* The inductive invariant: types *)

Acks == [gen : Generations, dec : Decoders, h : Handles, submitted : BOOLEAN]
MaybeLease == Leases \cup {NoLease}
Maps(K, V) == UNION {[D -> V] : D \in SUBSET K}

Pipelines ==
    [dec : 0 .. MaxDecoders, gen : Generations, dgen : Generations,
     queue : Seq(Frames), present : Frames \cup {NoLease}, stale : BOOLEAN,
     leased : Maps(Keys, Nat), deferred : SUBSET Keys,
     retired : Maps(Generations, Decoders), pool : [Decoders -> SUBSET Handles],
     lost : SUBSET Tokens, twice : BOOLEAN,
     endedBy : Maps(Generations, {"stop", "install", "backend"})]

Types ==
    /\ pl \in Pipelines
    /\ made \in [Decoders -> 0 .. MaxFrames] /\ used \in Decoders
    /\ ho \in [taken : MaybeLease, untaken : Seq(Leases)]
    /\ Len(ho.untaken) <= UNTAKEN_PRESENT_FRAME_CAPACITY
    /\ acks \in Seq(Acks) /\ submitted \subseteq Live
    /\ wpc \in {"idle", "drain", "probe", "push", "clear", "snapshot", "wake", "ended"}
    /\ wakes \in BOOLEAN /\ ending \in BOOLEAN
    /\ snap \in [gen : Generations, has : BOOLEAN]
    /\ ui \in [pc : {"idle", "peek", "acquire", "show", "probe"},
               snap : [gen : Generations, has : BOOLEAN],
               hand : MaybeLease, seen : MaybeLease]
    /\ cached \in MaybeLease /\ claimed \in MaybeLease
    /\ wake \in BOOLEAN /\ redraw \in BOOLEAN
    /\ count \in [frames : 0 .. MaxFrames, operations : 0 .. MaxOperations,
                  refusals : 0 .. MaxRefusals]

\* The numbers handed out: frames by decoder, generations by operation.
NumbersOK(p, mk, us, ct) ==
    /\ p.dec <= us
    /\ p.gen <= ct.operations /\ p.dgen <= ct.operations
    /\ \A d \in Decoders :
          /\ mk[d] <= ct.frames
          /\ d > us => mk[d] = 0
          /\ \A h \in p.pool[d] : h <= mk[d]

-----------------------------------------------------------------------------
(* The inductive invariant: the accounting of slots and leases *)

\* A frame is leased once, and a generation has one decoder.
TokensOK(H) ==
    /\ \A s, t \in H : s.dec = t.dec /\ s.h = t.h => s = t
    /\ \A s, t \in H : s.gen = t.gen => s.dec = t.dec

\* The slot of a held token is its own, and its generation's decoder is active
\* while the generation is.
HeldOK(p, H) ==
    \A t \in H : /\ t.h \in p.pool[t.dec]
                 /\ t.gen <= p.gen
                 /\ t.gen = p.gen => t.dec = p.dec

\* The frames of the pipeline are of its decoder, in order, in their slots.
OwnOK(p) ==
    /\ p.dec = 0 => p.queue = << >> /\ p.present = NoLease
    /\ \A i \in DOMAIN p.queue :
          /\ p.queue[i].dec = p.dec /\ p.queue[i].dgen = p.dgen
          /\ p.queue[i].h \in p.pool[p.dec]
    /\ \A i, j \in DOMAIN p.queue : i < j => p.queue[i].h < p.queue[j].h
    /\ p.present # NoLease =>
          /\ p.present.dec = p.dec /\ p.present.dgen <= p.dgen
          /\ p.present.h \in p.pool[p.dec]
          /\ \A i \in DOMAIN p.queue : p.present.h < p.queue[i].h

\* The table has exactly the held tokens, each once.
TableOK(p, H) ==
    /\ \A k \in DOMAIN p.leased : \E t \in H : k = <<t.gen, t.h>>
    /\ \A t \in H : <<t.gen, t.h>> \in DOMAIN p.leased
    /\ \A k \in DOMAIN p.leased : p.leased[k] = 1
    /\ p.deferred \subseteq DOMAIN p.leased

\* A held token is deferred or the present frame's, never both.
DeferOK(p, H) ==
    \A t \in H :
        /\ \/ <<t.gen, t.h>> \in p.deferred
           \/ t.gen = p.gen /\ p.present # NoLease /\ p.present.h = t.h
        /\ <<t.gen, t.h>> \in p.deferred /\ t.dec = p.dec => ~Owned(p, t.h)

\* A slot of the active decoder has someone who will release it.
SlotsOK(p, H) ==
    p.dec # 0 =>
        \A h \in p.pool[p.dec] :
            \/ Owned(p, h)
            \/ \E t \in H : t.dec = p.dec /\ t.h = h /\ <<t.gen, t.h>> \in p.deferred
            \/ \E f \in p.lost : f.dec = p.dec /\ f.h = h

\* The table of retired decoders, by what the table of leases says.
OldOK(p) ==
    /\ \A k \in DOMAIN p.leased : k[1] # p.gen =>
          /\ k \in p.deferred /\ k[1] \in DOMAIN p.endedBy
          /\ p.endedBy[k[1]] = "install" => k[1] \in DOMAIN p.retired
    /\ \A g \in DOMAIN p.retired : g < p.gen /\ HasLeasesForGeneration(p, g)
    /\ ~p.twice

RetiredOK(p, H) ==
    \A t \in H : t.gen \in DOMAIN p.retired => p.retired[t.gen] = t.dec

Accounting(p, H) ==
    /\ OwnOK(p) /\ TableOK(p, H) /\ DeferOK(p, H) /\ SlotsOK(p, H) /\ RetiredOK(p, H)

\* A token is in one place: with one live lease, in one cell of the channel, or
\* with the lease about to be published.
PlacesOK(L, q, w, p) ==
    /\ \A l, m \in L : Token(l) = Token(m) => l = m
    /\ \A i, j \in DOMAIN q : Token(q[i]) = Token(q[j]) => i = j
    /\ \A l \in L, i \in DOMAIN q : Token(l) # Token(q[i])
    /\ w = "push" =>
          /\ \A l \in L : Token(l) # PresentToken(p)
          /\ \A i \in DOMAIN q : Token(q[i]) # PresentToken(p)

\* The release channel never fills: at most one lease is published between two
\* drains, and at most five are alive.
RoomOK(L, q, w) ==
    /\ Len(q) + Cardinality(L) <= 6
    /\ w \in {"probe", "push"} => Len(q) + Cardinality(L) <= 5

\* The accounting of the pipeline p for the leases L, the channel q and the
\* worker w.
Accounted(p, L, q, w) ==
    /\ TokensOK(HeldBy(L, q, w, p)) /\ HeldOK(p, HeldBy(L, q, w, p)) /\ OldOK(p)
    /\ w # "ended" => Accounting(p, HeldBy(L, q, w, p))
    /\ PlacesOK(L, q, w, p)
    /\ w = "ended" => q = << >>

LeasesOK ==
    /\ NumbersOK(pl, made, used, count)
    /\ Accounted(pl, Live, acks, wpc)
    /\ RoomOK(Live, acks, wpc)

-----------------------------------------------------------------------------
(* The inductive invariant: the publication and the picture *)

\* What the worker is publishing.
StageOK ==
    /\ wpc = "clear" => pl.present = NoLease
    /\ wpc \in {"probe", "push"} => pl.present # NoLease
    /\ wpc \in {"idle", "snapshot", "wake", "ended"} =>
          NewestPublished(ho) = IF pl.present = NoLease THEN NoLease ELSE LeaseOf(pl)
    /\ wpc # "push" /\ pl.present # NoLease /\ PresentToken(pl) \in Held =>
          NewestPublished(ho) = LeaseOf(pl)

Current == [gen |-> pl.gen, has |-> pl.present # NoLease]
Fresh == wake \/ (ui.snap = snap /\ ui.seen = NewestPublished(ho))

\* A publication without a wake leaves what the UI has seen.
WakeOK ==
    /\ wpc \in {"idle", "ended"} => Fresh /\ snap = Current
    /\ wpc = "wake" => snap = Current
    /\ wpc = "snapshot" /\ ~wakes => Fresh /\ snap = Current
    /\ wpc \in {"drain", "probe", "push", "clear"} /\ ~wakes =>
          /\ Fresh /\ snap.gen = pl.gen
          /\ snap.has <=> NewestPublished(ho) # NoLease

\* No picture a clone of which is alive is ahead of what comes next.
BehindOK(L, p) ==
    \A l \in L :
        \/ l.gen < p.gen
        \/ /\ l.gen = p.gen /\ l.dgen <= p.dgen
           /\ l.dgen = p.dgen => \A i \in DOMAIN p.queue : l.h < p.queue[i].h
           /\ p.present # NoLease =>
                \/ l.dgen < p.present.dgen
                \/ l.dgen = p.present.dgen /\ l.h <= p.present.h

\* m is no picture before l.
NotBefore(m, l) == m # NoLease /\ l # NoLease => ~Before(m, l)

\* The screen, the UI's hand and the handoff, in this order.
ShownOK ==
    /\ NotBefore(ui.hand, cached)
    /\ NotBefore(ho.taken, cached) /\ NotBefore(ho.taken, ui.hand)
    /\ \A i \in DOMAIN ho.untaken :
          /\ NotBefore(ho.untaken[i], cached) /\ NotBefore(ho.untaken[i], ui.hand)
          /\ NotBefore(ho.untaken[i], ho.taken)

IInv ==
    /\ Types
    /\ LeasesOK
    /\ StageOK
    /\ WakeOK
    /\ OneSequence
    /\ BehindOK(Live, pl)
    /\ ShownOK

-----------------------------------------------------------------------------
(* The types *)

\* The bounds are numbers, and so are decoders, handles and generations.
LEMMA Bounds ==
  /\ MaxDecoders \in Nat /\ 1 <= MaxDecoders /\ MaxFrames \in Nat /\ MaxOperations \in Nat
  /\ MaxRefusals \in Nat /\ Slots \in Nat
  /\ \A d \in Decoders : d \in Nat /\ d # 0 /\ d <= MaxDecoders
  /\ \A h \in Handles : h \in Nat /\ h <= MaxFrames /\ 1 <= h
  /\ \A g \in Generations : g \in Nat /\ g <= MaxOperations
  /\ 0 \in Generations /\ 1 \in Decoders
  BY RenderLeasesAssumption DEF Decoders, Handles, Generations

\* The fields of a pipeline.
LEMMA Fields ==
  ASSUME NEW p \in Pipelines
  PROVE  /\ p.dec \in 0 .. MaxDecoders /\ p.gen \in Generations /\ p.dgen \in Generations
         /\ p.queue \in Seq(Frames) /\ p.present \in Frames \cup {NoLease}
         /\ p.stale \in BOOLEAN /\ p.leased \in Maps(Keys, Nat) /\ p.deferred \subseteq Keys
         /\ p.retired \in Maps(Generations, Decoders)
         /\ p.pool \in [Decoders -> SUBSET Handles]
         /\ p.lost \subseteq Tokens /\ p.twice \in BOOLEAN
         /\ p.endedBy \in Maps(Generations, {"stop", "install", "backend"})
  BY DEF Pipelines

\* A map is a function on its keys.
LEMMA MapFacts ==
  ASSUME NEW K, NEW V, NEW f \in Maps(K, V)
  PROVE  /\ DOMAIN f \subseteq K
         /\ \A k \in DOMAIN f : f[k] \in V
         /\ f = [k \in DOMAIN f |-> f[k]]
  BY DEF Maps

\* A map after a removal.
LEMMA RemoveFacts ==
  ASSUME NEW K, NEW V, NEW f \in Maps(K, V), NEW k
  PROVE  /\ [x \in DOMAIN f \ {k} |-> f[x]] \in Maps(K, V)
         /\ DOMAIN [x \in DOMAIN f \ {k} |-> f[x]] = DOMAIN f \ {k}
<1>1. DOMAIN f \subseteq K /\ \A x \in DOMAIN f : f[x] \in V
  BY MapFacts
<1>2. [x \in DOMAIN f \ {k} |-> f[x]] \in [DOMAIN f \ {k} -> V]
  BY <1>1
<1>3. DOMAIN f \ {k} \in SUBSET K
  BY <1>1
<1> QED
  BY <1>2, <1>3 DEF Maps

\* The keys of the three tables of a pipeline.
LEMMA TableKeys ==
  ASSUME NEW p \in Pipelines
  PROVE  /\ DOMAIN p.leased \subseteq Keys
         /\ DOMAIN p.retired \subseteq Generations
         /\ \A g \in DOMAIN p.retired : p.retired[g] \in Decoders
         /\ DOMAIN p.endedBy \subseteq Generations
<1>1. /\ p.leased \in Maps(Keys, Nat) /\ p.retired \in Maps(Generations, Decoders)
      /\ p.endedBy \in Maps(Generations, {"stop", "install", "backend"})
  BY Fields
<1>2. DOMAIN p.leased \subseteq Keys
  BY <1>1, MapFacts
<1>3. DOMAIN p.retired \subseteq Generations /\ \A g \in DOMAIN p.retired : p.retired[g] \in Decoders
  BY <1>1, MapFacts
<1>4. DOMAIN p.endedBy \subseteq Generations
  BY <1>1, MapFacts
<1> QED
  BY <1>2, <1>3, <1>4

\* What the end of a generation does to the record of the ends.
LEMMA EndFacts ==
  ASSUME NEW p \in Pipelines, NEW why \in {"stop", "install", "backend"}
  PROVE  /\ Insert(p.endedBy, p.gen, why) \in Maps(Generations, {"stop", "install", "backend"})
         /\ DOMAIN Insert(p.endedBy, p.gen, why) = DOMAIN p.endedBy \cup {p.gen}
         /\ Insert(p.endedBy, p.gen, why)[p.gen] = why
         /\ \A x \in DOMAIN p.endedBy :
               x # p.gen => Insert(p.endedBy, p.gen, why)[x] = p.endedBy[x]
<1> DEFINE Ends == {"stop", "install", "backend"}
<1>1. p.endedBy \in Maps(Generations, Ends) /\ p.gen \in Generations /\ why \in Ends
  BY Fields
<1> HIDE DEF Ends
<1>2. DOMAIN p.endedBy \subseteq Generations /\ \A x \in DOMAIN p.endedBy : p.endedBy[x] \in Ends
  BY <1>1, MapFacts
<1>3. Insert(p.endedBy, p.gen, why) \in [DOMAIN p.endedBy \cup {p.gen} -> Ends]
  BY <1>1, <1>2 DEF Insert
<1>4. DOMAIN p.endedBy \cup {p.gen} \in SUBSET Generations
  BY <1>1, <1>2
<1>5. Insert(p.endedBy, p.gen, why) \in Maps(Generations, Ends)
  BY <1>3, <1>4 DEF Maps
<1> QED
  BY <1>5 DEF Insert, Ends

\* What release_frame_to_video_decoder changes.
LEMMA ReleaseFramesEffect ==
  ASSUME NEW p \in Pipelines, NEW d \in Decoders, NEW hs, NEW q, q = ReleaseFrames(p, d, hs)
  PROVE  /\ q \in Pipelines
         /\ q.dec = p.dec /\ q.gen = p.gen /\ q.dgen = p.dgen /\ q.queue = p.queue
         /\ q.present = p.present /\ q.stale = p.stale /\ q.leased = p.leased
         /\ q.deferred = p.deferred /\ q.retired = p.retired /\ q.lost = p.lost
         /\ q.endedBy = p.endedBy
         /\ q.pool[d] = p.pool[d] \ hs
         /\ \A e \in Decoders : e # d => q.pool[e] = p.pool[e]
         /\ hs \subseteq p.pool[d] /\ ~p.twice => ~q.twice
<1>1. p.pool \in [Decoders -> SUBSET Handles] /\ p.twice \in BOOLEAN
  BY Fields
<1>2. [p.pool EXCEPT ![d] = @ \ hs] \in [Decoders -> SUBSET Handles]
  BY <1>1
<1>3. (p.twice \/ ~(hs \subseteq p.pool[d])) \in BOOLEAN
  OBVIOUS
<1>4. q = [p EXCEPT !.pool = [p.pool EXCEPT ![d] = @ \ hs],
                    !.twice = p.twice \/ ~(hs \subseteq p.pool[d])]
  BY DEF ReleaseFrames, Pipelines
<1>5. q \in Pipelines
  BY <1>2, <1>3, <1>4 DEF Pipelines
<1>6. /\ q.pool = [p.pool EXCEPT ![d] = @ \ hs]
      /\ q.twice = (p.twice \/ ~(hs \subseteq p.pool[d]))
  BY <1>4 DEF Pipelines
<1>7. /\ q.dec = p.dec /\ q.gen = p.gen /\ q.dgen = p.dgen /\ q.queue = p.queue
      /\ q.present = p.present /\ q.stale = p.stale /\ q.leased = p.leased
      /\ q.deferred = p.deferred /\ q.retired = p.retired /\ q.lost = p.lost
      /\ q.endedBy = p.endedBy
  BY <1>4 DEF Pipelines
<1> QED
  BY <1>1, <1>5, <1>6, <1>7

-----------------------------------------------------------------------------
(* Giving frames up *)

\* The handles of hs whose frame is leased in the current generation.
LeasedOf(p, hs) == {h \in hs : <<p.gen, h>> \in DOMAIN p.leased}

\* What release_video_texture changes: a leased frame is deferred, the slot of
\* another goes back.
LEMMA ReleaseVideoTexturesEffect ==
  ASSUME NEW p \in Pipelines, NEW hs \in SUBSET Handles, p.dec = 0 => hs = {},
         NEW q, q = ReleaseVideoTextures(p, hs)
  PROVE  /\ q \in Pipelines
         /\ q.dec = p.dec /\ q.gen = p.gen /\ q.dgen = p.dgen /\ q.queue = p.queue
         /\ q.present = p.present /\ q.stale = p.stale /\ q.leased = p.leased
         /\ q.retired = p.retired /\ q.lost = p.lost /\ q.endedBy = p.endedBy
         /\ q.deferred = p.deferred \cup {<<p.gen, h>> : h \in LeasedOf(p, hs)}
         /\ p.dec # 0 => q.pool[p.dec] = p.pool[p.dec] \ (hs \ LeasedOf(p, hs))
         /\ \A e \in Decoders : e # p.dec => q.pool[e] = p.pool[e]
         /\ (p.dec # 0 => hs \subseteq p.pool[p.dec]) /\ ~p.twice => ~q.twice
<1> DEFINE held == LeasedOf(p, hs)
           more == p.deferred \cup {<<p.gen, h>> : h \in held}
           r == [p EXCEPT !.deferred = more]
<1>1. more \subseteq Keys
  <2>1. p.gen \in Generations /\ p.deferred \subseteq Keys
    BY Fields
  <2>2. \A h \in held : <<p.gen, h>> \in Keys
    BY <2>1 DEF Keys, LeasedOf
  <2> QED
    BY <2>1, <2>2
<1>2. /\ r \in Pipelines
      /\ r.dec = p.dec /\ r.gen = p.gen /\ r.dgen = p.dgen /\ r.queue = p.queue
      /\ r.present = p.present /\ r.stale = p.stale /\ r.leased = p.leased
      /\ r.retired = p.retired /\ r.lost = p.lost /\ r.endedBy = p.endedBy
      /\ r.deferred = more /\ r.pool = p.pool /\ r.twice = p.twice
  <2> HIDE DEF more
  <2> QED
    BY <1>1 DEF Pipelines
<1>3. q = IF p.dec = 0 THEN r ELSE ReleaseFrames(r, p.dec, hs \ held)
  BY DEF ReleaseVideoTextures, LeasedOf
<1>4. p.dec # 0 => p.dec \in Decoders
  BY Fields DEF Decoders
<1> HIDE DEF r, more, held
<1>5. CASE p.dec = 0
  <2>1. \A e \in Decoders : e # p.dec => q.pool[e] = p.pool[e]
    BY <1>2, <1>3, <1>5
  <2> QED
    BY <1>2, <1>3, <1>5, <2>1 DEF more, held
<1>6. CASE p.dec # 0
  <2>1. q = ReleaseFrames(r, p.dec, hs \ held)
    BY <1>3, <1>6
  <2>2. /\ q \in Pipelines
        /\ q.dec = r.dec /\ q.gen = r.gen /\ q.dgen = r.dgen /\ q.queue = r.queue
        /\ q.present = r.present /\ q.stale = r.stale /\ q.leased = r.leased
        /\ q.deferred = r.deferred /\ q.retired = r.retired /\ q.lost = r.lost
        /\ q.endedBy = r.endedBy
        /\ q.pool[p.dec] = r.pool[p.dec] \ (hs \ held)
        /\ \A e \in Decoders : e # p.dec => q.pool[e] = r.pool[e]
        /\ (hs \ held) \subseteq r.pool[p.dec] /\ ~r.twice => ~q.twice
    BY <1>2, <1>4, <1>6, <2>1, ReleaseFramesEffect
  <2> QED
    BY <1>2, <1>6, <2>2 DEF more, held
<1> QED
  BY <1>5, <1>6

\* p0 is p without the frames hs, which are still to be released.
Leaves(p, p0, hs) ==
    /\ p0.dec = p.dec /\ p0.gen = p.gen /\ p0.leased = p.leased
    /\ p0.deferred = p.deferred /\ p0.retired = p.retired /\ p0.pool = p.pool
    /\ p0.lost = p.lost /\ p0.twice = p.twice /\ p0.endedBy = p.endedBy
    /\ \A h \in Handles : Owned(p, h) <=> (Owned(p0, h) \/ h \in hs)
    /\ \A h \in hs : ~Owned(p0, h)
    /\ p.present # NoLease => p0.present = p.present \/ p.present.h \in hs

\* Whatever frames the pipeline gives up, the accounting stays exact.
LEMMA GiveUp ==
  ASSUME NEW p \in Pipelines, NEW p0 \in Pipelines, NEW H \in SUBSET Tokens,
         NEW hs \in SUBSET Handles, TokensOK(H), HeldOK(p, H), OldOK(p), Accounting(p, H),
         Leaves(p, p0, hs), OwnOK(p0), NEW q, q = ReleaseVideoTextures(p0, hs)
  PROVE  /\ q \in Pipelines /\ HeldOK(q, H) /\ OldOK(q) /\ Accounting(q, H)
         /\ q.dec = p.dec /\ q.gen = p.gen /\ q.endedBy = p.endedBy
         /\ q.dgen = p0.dgen /\ q.queue = p0.queue /\ q.present = p0.present
         /\ q.stale = p0.stale
         /\ \A d \in Decoders : q.pool[d] \subseteq p.pool[d]
<1>1. /\ p0.dec = p.dec /\ p0.gen = p.gen /\ p0.leased = p.leased
      /\ p0.deferred = p.deferred /\ p0.retired = p.retired /\ p0.pool = p.pool
      /\ p0.lost = p.lost /\ p0.twice = p.twice /\ p0.endedBy = p.endedBy
  BY DEF Leaves
<1>2. /\ \A h \in Handles : Owned(p, h) <=> (Owned(p0, h) \/ h \in hs)
      /\ \A h \in hs : ~Owned(p0, h)
      /\ p.present # NoLease => p0.present = p.present \/ p.present.h \in hs
  BY DEF Leaves
<1>3. /\ OwnOK(p) /\ TableOK(p, H) /\ DeferOK(p, H) /\ SlotsOK(p, H) /\ RetiredOK(p, H)
  BY DEF Accounting
<1>4. \A h : Owned(p, h) => p.dec # 0 /\ h \in p.pool[p.dec] /\ h \in Handles
  <2>1. p.pool \in [Decoders -> SUBSET Handles] /\ (p.dec # 0 => p.dec \in Decoders)
    BY Fields DEF Decoders
  <2>2. \A h : Owned(p, h) => p.dec # 0 /\ h \in p.pool[p.dec]
    BY <1>3 DEF OwnOK, Owned
  <2> QED
    BY <2>1, <2>2
<1>5. (p.dec = 0 => hs = {}) /\ (p.dec # 0 => hs \subseteq p.pool[p.dec])
  BY <1>2, <1>4
<1>6. /\ q \in Pipelines
      /\ q.dec = p.dec /\ q.gen = p.gen /\ q.dgen = p0.dgen /\ q.queue = p0.queue
      /\ q.present = p0.present /\ q.stale = p0.stale /\ q.leased = p.leased
      /\ q.retired = p.retired /\ q.lost = p.lost /\ q.endedBy = p.endedBy
      /\ q.deferred = p.deferred \cup {<<p.gen, h>> : h \in LeasedOf(p0, hs)}
      /\ p.dec # 0 => q.pool[p.dec] = p.pool[p.dec] \ (hs \ LeasedOf(p0, hs))
      /\ \A e \in Decoders : e # p.dec => q.pool[e] = p.pool[e]
      /\ ~p.twice => ~q.twice
  BY <1>1, <1>5, ReleaseVideoTexturesEffect
<1>7. LeasedOf(p0, hs) = {h \in hs : <<p.gen, h>> \in DOMAIN p.leased}
  BY <1>1 DEF LeasedOf
<1>8. \A d \in Decoders : q.pool[d] \subseteq p.pool[d]
  <2> SUFFICES ASSUME NEW d \in Decoders PROVE q.pool[d] \subseteq p.pool[d]
    OBVIOUS
  <2>1. CASE d = p.dec
    BY <1>6, <2>1, Bounds
  <2> QED
    BY <1>6, <2>1
<1>9. \A h : Owned(q, h) <=> Owned(p0, h)
  BY <1>6 DEF Owned
<1>10. \A t \in H : t.gen \in Generations /\ t.dec \in Decoders /\ t.h \in Handles
  BY DEF Tokens
\* A held token of a frame that is given up is the present frame's, and leased.
<1>11. \A t \in H : t.dec = p.dec /\ t.h \in hs =>
                       /\ t.gen = p.gen
                       /\ t.h \in LeasedOf(p0, hs)
  <2> SUFFICES ASSUME NEW t \in H, t.dec = p.dec, t.h \in hs
               PROVE  t.gen = p.gen /\ t.h \in LeasedOf(p0, hs)
    OBVIOUS
  <2>1. Owned(p, t.h)
    BY <1>2, <1>10
  <2>2. t.gen = p.gen
    BY <1>3, <2>1 DEF DeferOK
  <2>3. <<t.gen, t.h>> \in DOMAIN p.leased
    BY <1>3 DEF TableOK
  <2> QED
    BY <1>7, <2>2, <2>3
<1>12. HeldOK(q, H)
  <2> SUFFICES ASSUME NEW t \in H PROVE t.h \in q.pool[t.dec]
    BY <1>6 DEF HeldOK
  <2>1. t.h \in p.pool[t.dec] /\ t.dec \in Decoders
    BY <1>10 DEF HeldOK
  <2>2. CASE t.dec = p.dec
    BY <1>6, <1>10, <1>11, <2>1, <2>2, Bounds
  <2> QED
    BY <1>6, <2>1, <2>2
<1>13. OldOK(q)
  <2>1. p.deferred \subseteq q.deferred
    BY <1>6
  <2> QED
    BY <1>6, <2>1 DEF OldOK, HasLeasesForGeneration
<1>14. OwnOK(q)
  <2>1. \A h : Owned(p0, h) => h \notin hs
    BY <1>2
  <2>2. ASSUME p.dec # 0 PROVE \A h \in p.pool[p.dec] : Owned(p0, h) => h \in q.pool[p.dec]
    BY <1>6, <2>1, <2>2
  <2>3. \A i \in DOMAIN p0.queue : Owned(p0, p0.queue[i].h)
    BY DEF Owned
  <2>4. p0.present # NoLease => Owned(p0, p0.present.h)
    BY DEF Owned
  <2> QED
    BY <1>1, <1>6, <2>2, <2>3, <2>4 DEF OwnOK
<1>15. TableOK(q, H)
  <2>1. \A h \in LeasedOf(p0, hs) : <<p.gen, h>> \in DOMAIN p.leased
    BY <1>7
  <2> QED
    BY <1>3, <1>6, <2>1 DEF TableOK
<1>16. DeferOK(q, H)
  <2> SUFFICES ASSUME NEW t \in H
               PROVE  /\ \/ <<t.gen, t.h>> \in q.deferred
                         \/ t.gen = q.gen /\ q.present # NoLease /\ q.present.h = t.h
                      /\ <<t.gen, t.h>> \in q.deferred /\ t.dec = q.dec => ~Owned(q, t.h)
    BY DEF DeferOK
  <2>1. \/ <<t.gen, t.h>> \in p.deferred
        \/ t.gen = p.gen /\ p.present # NoLease /\ p.present.h = t.h
    BY <1>3 DEF DeferOK
  <2>2. <<t.gen, t.h>> \in p.deferred /\ t.dec = p.dec => ~Owned(p, t.h)
    BY <1>3 DEF DeferOK
  <2>3. \/ <<t.gen, t.h>> \in q.deferred
        \/ t.gen = q.gen /\ q.present # NoLease /\ q.present.h = t.h
    <3>1. CASE <<t.gen, t.h>> \in p.deferred
      BY <1>6, <3>1
    <3>2. CASE t.gen = p.gen /\ p.present # NoLease /\ p.present.h = t.h
      <4>1. t.dec = p.dec
        BY <3>2 DEF HeldOK
      <4>2. CASE t.h \in hs
        <5>1. t.h \in LeasedOf(p0, hs)
          BY <1>11, <4>1, <4>2
        <5> QED
          BY <1>6, <3>2, <5>1
      <4> QED
        BY <1>2, <1>6, <3>2, <4>2
    <3> QED
      BY <2>1, <3>1, <3>2
  <2>4. ASSUME <<t.gen, t.h>> \in q.deferred, t.dec = q.dec PROVE ~Owned(q, t.h)
    <3>1. CASE <<t.gen, t.h>> \in p.deferred
      BY <1>2, <1>6, <1>9, <1>10, <2>2, <2>4, <3>1
    <3>2. CASE \E h \in LeasedOf(p0, hs) : <<t.gen, t.h>> = <<p.gen, h>>
      BY <1>2, <1>7, <1>9, <3>2
    <3> QED
      BY <1>6, <2>4, <3>1, <3>2
  <2> QED
    BY <2>3, <2>4
<1>17. SlotsOK(q, H)
  <2> SUFFICES ASSUME p.dec # 0, NEW h \in q.pool[p.dec], ~Owned(q, h)
               PROVE  \/ \E t \in H : t.dec = p.dec /\ t.h = h /\ <<t.gen, t.h>> \in q.deferred
                      \/ \E f \in p.lost : f.dec = p.dec /\ f.h = h
    BY <1>6 DEF SlotsOK
  <2>1. h \in p.pool[p.dec] /\ h \in Handles /\ (h \in hs => h \in LeasedOf(p0, hs))
    <3>1. p.pool \in [Decoders -> SUBSET Handles] /\ p.dec \in Decoders
      BY Fields DEF Decoders
    <3> QED
      BY <1>6, <3>1
  <2>2. CASE Owned(p, h)
    <3>1. h \in LeasedOf(p0, hs)
      BY <1>2, <1>9, <2>1, <2>2
    <3>2. <<p.gen, h>> \in DOMAIN p.leased /\ <<p.gen, h>> \in q.deferred
      BY <1>6, <1>7, <3>1
    <3>3. PICK t \in H : <<p.gen, h>> = <<t.gen, t.h>>
      BY <1>3, <3>2 DEF TableOK
    <3>4. t.gen = p.gen /\ t.h = h /\ t.dec = p.dec
      BY <3>3 DEF HeldOK
    <3> QED
      BY <3>2, <3>4
  <2>3. CASE ~Owned(p, h)
    <3>1. \/ \E t \in H : t.dec = p.dec /\ t.h = h /\ <<t.gen, t.h>> \in p.deferred
          \/ \E f \in p.lost : f.dec = p.dec /\ f.h = h
      BY <1>3, <2>1, <2>3 DEF SlotsOK
    <3> QED
      BY <1>6, <3>1
  <2> QED
    BY <2>2, <2>3
<1>18. RetiredOK(q, H)
  BY <1>3, <1>6 DEF RetiredOK
<1> QED
  BY <1>6, <1>8, <1>12, <1>13, <1>14, <1>15, <1>16, <1>17, <1>18 DEF Accounting

\* A pipeline whose accounting is exact for the tokens H.
Exact(p, H) == p \in Pipelines /\ HeldOK(p, H) /\ OldOK(p) /\ Accounting(p, H)

\* The frames of a sequence are frames, and so is the present one.
LEMMA FrameFacts ==
  ASSUME NEW p \in Pipelines
  PROVE  /\ \A i \in DOMAIN p.queue :
               /\ p.queue[i] \in Frames /\ p.queue[i] # NoLease
               /\ p.queue[i].h \in Handles /\ p.queue[i].dec \in Decoders
               /\ p.queue[i].dgen \in Generations
         /\ p.present # NoLease =>
               /\ p.present \in Frames /\ p.present.h \in Handles
               /\ p.present.dec \in Decoders /\ p.present.dgen \in Generations
         /\ Len(p.queue) \in Nat /\ DOMAIN p.queue = 1 .. Len(p.queue)
<1>1. p.queue \in Seq(Frames) /\ p.present \in Frames \cup {NoLease}
  BY Fields
<1>2. \A f \in Frames : /\ f # NoLease /\ f.h \in Handles /\ f.dec \in Decoders
                        /\ f.dgen \in Generations
  BY NoLeaseAssumption DEF Frames
<1>3. /\ \A i \in DOMAIN p.queue : p.queue[i] \in Frames
      /\ Len(p.queue) \in Nat /\ DOMAIN p.queue = 1 .. Len(p.queue)
  BY <1>1
<1> QED
  BY <1>1, <1>2, <1>3

\* clear_queued_video_frames.
LEMMA ClearQueuedKeeps ==
  ASSUME NEW p, NEW H \in SUBSET Tokens, TokensOK(H), Exact(p, H), NEW q, q = ClearQueued(p)
  PROVE  /\ Exact(q, H) /\ q.dec = p.dec /\ q.gen = p.gen /\ q.endedBy = p.endedBy
         /\ q.dgen = p.dgen /\ q.queue = << >> /\ q.present = p.present /\ q.stale = p.stale
         /\ \A d \in Decoders : q.pool[d] \subseteq p.pool[d]
<1> DEFINE p0 == [p EXCEPT !.queue = << >>]
           hs == HandlesOf(Range(p.queue))
<1>1. p \in Pipelines /\ HeldOK(p, H) /\ OldOK(p) /\ Accounting(p, H)
  BY DEF Exact
<1>2. << >> \in Seq(Frames)
  OBVIOUS
<1>3. /\ p0 \in Pipelines /\ p0.queue = << >>
      /\ p0.dec = p.dec /\ p0.gen = p.gen /\ p0.dgen = p.dgen /\ p0.present = p.present
      /\ p0.stale = p.stale /\ p0.leased = p.leased /\ p0.deferred = p.deferred
      /\ p0.retired = p.retired /\ p0.pool = p.pool /\ p0.lost = p.lost
      /\ p0.twice = p.twice /\ p0.endedBy = p.endedBy
  BY <1>1, <1>2 DEF Pipelines
<1>4. \A h : h \in hs <=> \E i \in DOMAIN p.queue : h = p.queue[i].h
  BY <1>1, FrameFacts DEF HandlesOf, Range
<1>5. hs \in SUBSET Handles
  BY <1>1, <1>4, FrameFacts
<1> HIDE DEF p0, hs
<1>6. \A h : Owned(p0, h) <=> p.present # NoLease /\ h = p.present.h
  BY <1>3 DEF Owned
<1>7. \A h \in hs : ~Owned(p0, h)
  <2> SUFFICES ASSUME NEW h \in hs, p.present # NoLease, h = p.present.h PROVE FALSE
    BY <1>6
  <2>1. PICK i \in DOMAIN p.queue : h = p.queue[i].h
    BY <1>4
  <2>2. p.present.h < p.queue[i].h
    BY <1>1 DEF Accounting, OwnOK
  <2> QED
    BY <1>5, <2>1, <2>2, Bounds
<1>8. Leaves(p, p0, hs)
  BY <1>3, <1>4, <1>6, <1>7 DEF Leaves, Owned
<1>9. OwnOK(p0)
  BY <1>1, <1>3 DEF Accounting, OwnOK
<1>10. q = ReleaseVideoTextures(p0, hs)
  BY DEF ClearQueued, p0, hs
<1> QED
  BY <1>1, <1>3, <1>5, <1>8, <1>9, <1>10, GiveUp DEF Exact

\* clear_video_frames.
LEMMA WithoutFramesKeeps ==
  ASSUME NEW p, NEW H \in SUBSET Tokens, TokensOK(H), Exact(p, H), NEW q, q = WithoutFrames(p)
  PROVE  /\ Exact(q, H) /\ q.dec = p.dec /\ q.gen = p.gen /\ q.endedBy = p.endedBy
         /\ q.dgen = p.dgen /\ q.queue = << >> /\ q.present = NoLease /\ q.stale = p.stale
         /\ \A d \in Decoders : q.pool[d] \subseteq p.pool[d]
<1> DEFINE p0 == [p EXCEPT !.queue = << >>, !.present = NoLease]
           hs == HandlesOf(OwnFrames(p))
<1>1. p \in Pipelines /\ HeldOK(p, H) /\ OldOK(p) /\ Accounting(p, H)
  BY DEF Exact
<1>2. << >> \in Seq(Frames)
  OBVIOUS
<1>3. /\ p0 \in Pipelines /\ p0.queue = << >> /\ p0.present = NoLease
      /\ p0.dec = p.dec /\ p0.gen = p.gen /\ p0.dgen = p.dgen
      /\ p0.stale = p.stale /\ p0.leased = p.leased /\ p0.deferred = p.deferred
      /\ p0.retired = p.retired /\ p0.pool = p.pool /\ p0.lost = p.lost
      /\ p0.twice = p.twice /\ p0.endedBy = p.endedBy
  BY <1>1, <1>2 DEF Pipelines
<1>4. \A h : h \in hs <=> Owned(p, h)
  BY <1>1, FrameFacts DEF HandlesOf, OwnFrames, Range, Owned
<1>5. hs \in SUBSET Handles
  BY <1>1, <1>4, FrameFacts DEF Owned
<1> HIDE DEF p0, hs
<1>6. \A h : ~Owned(p0, h)
  BY <1>3 DEF Owned
<1>7. p.present # NoLease => Owned(p, p.present.h)
  BY DEF Owned
<1>8. Leaves(p, p0, hs)
  BY <1>3, <1>4, <1>6, <1>7 DEF Leaves
<1>9. OwnOK(p0)
  BY <1>3 DEF OwnOK
<1>10. q = ReleaseVideoTextures(p0, hs)
  BY DEF WithoutFrames, p0, hs
<1> QED
  BY <1>1, <1>3, <1>5, <1>8, <1>9, <1>10, GiveUp DEF Exact

\* The pipeline that has released its present frame, and one that has also put
\* the next one in its place.
WithoutPresent(p) == [p EXCEPT !.present = NoLease]
StaleReleased(p) == ReleaseVideoTextures(WithoutPresent(p), {p.present.h})
WithNext(p) ==
    [p EXCEPT !.queue = Tail(@), !.present = Head(p.queue), !.stale = FALSE]
NextPresented(p) == ReleaseVideoTextures(WithNext(p), HandlesOf({p.present}))

\* release_stale_present_frame_for_final_seek_texture_pressure.
LEMMA StaleReleaseKeeps ==
  ASSUME NEW p, NEW H \in SUBSET Tokens, TokensOK(H), Exact(p, H), p.present # NoLease,
         NEW q, q = StaleReleased(p)
  PROVE  /\ Exact(q, H) /\ q.dec = p.dec /\ q.gen = p.gen /\ q.endedBy = p.endedBy
         /\ q.dgen = p.dgen /\ q.queue = p.queue /\ q.present = NoLease
         /\ \A d \in Decoders : q.pool[d] \subseteq p.pool[d]
<1> DEFINE p0 == WithoutPresent(p)
           hs == {p.present.h}
<1>1. p \in Pipelines /\ HeldOK(p, H) /\ OldOK(p) /\ Accounting(p, H)
  BY DEF Exact
<1>2. /\ p0 \in Pipelines /\ p0.queue = p.queue /\ p0.present = NoLease
      /\ p0.dec = p.dec /\ p0.gen = p.gen /\ p0.dgen = p.dgen
      /\ p0.stale = p.stale /\ p0.leased = p.leased /\ p0.deferred = p.deferred
      /\ p0.retired = p.retired /\ p0.pool = p.pool /\ p0.lost = p.lost
      /\ p0.twice = p.twice /\ p0.endedBy = p.endedBy
  BY <1>1 DEF Pipelines, WithoutPresent
<1>3. hs \in SUBSET Handles
  BY <1>1, FrameFacts
<1>10. hs = {p.present.h}
  OBVIOUS
<1> HIDE DEF p0, hs
<1>4. OwnOK(p)
  BY <1>1 DEF Accounting
<1>5. \A h \in hs : ~Owned(p0, h)
  <2> SUFFICES ASSUME NEW i \in DOMAIN p.queue, p.present.h = p.queue[i].h PROVE FALSE
    BY <1>2, <1>10 DEF Owned
  <2>1. p.present.h < p.queue[i].h
    BY <1>4 DEF OwnOK
  <2> QED
    BY <1>3, <1>10, <2>1, Bounds
<1>6. Leaves(p, p0, hs)
  BY <1>2, <1>10, <1>5 DEF Leaves, Owned
<1>7. OwnOK(p0)
  BY <1>2, <1>4 DEF OwnOK
<1>8. q = ReleaseVideoTextures(p0, hs)
  BY <1>10 DEF p0, StaleReleased
<1>9. /\ q \in Pipelines /\ HeldOK(q, H) /\ OldOK(q) /\ Accounting(q, H)
      /\ q.dec = p.dec /\ q.gen = p.gen /\ q.endedBy = p.endedBy
      /\ q.dgen = p0.dgen /\ q.queue = p0.queue /\ q.present = p0.present
      /\ \A d \in Decoders : q.pool[d] \subseteq p.pool[d]
  BY <1>1, <1>2, <1>3, <1>6, <1>7, <1>8, GiveUp
<1> QED
  BY <1>2, <1>9 DEF Exact

\* present_front_queued_video_frame.
LEMMA PresentNextKeeps ==
  ASSUME NEW p, NEW H \in SUBSET Tokens, TokensOK(H), Exact(p, H), p.queue # << >>,
         NEW q, q = NextPresented(p)
  PROVE  /\ Exact(q, H) /\ q.dec = p.dec /\ q.gen = p.gen /\ q.endedBy = p.endedBy
         /\ q.dgen = p.dgen /\ q.queue = Tail(p.queue) /\ q.present = p.queue[1]
         /\ q.present # NoLease
         /\ \A d \in Decoders : q.pool[d] \subseteq p.pool[d]
<1> DEFINE p0 == WithNext(p)
           hs == HandlesOf({p.present})
<1>1. p \in Pipelines /\ HeldOK(p, H) /\ OldOK(p) /\ Accounting(p, H)
  BY DEF Exact
<1>2. /\ Len(p.queue) \in Nat \ {0} /\ DOMAIN p.queue = 1 .. Len(p.queue)
      /\ Head(p.queue) = p.queue[1] /\ Head(p.queue) \in Frames
      /\ Tail(p.queue) \in Seq(Frames)
      /\ DOMAIN Tail(p.queue) = 1 .. Len(p.queue) - 1
      /\ \A i \in 1 .. Len(p.queue) - 1 : Tail(p.queue)[i] = p.queue[i + 1]
  <2>1. p.queue \in Seq(Frames)
    BY <1>1, Fields
  <2> QED
    BY <2>1
<1>3. FALSE \in BOOLEAN
  OBVIOUS
<1>4. /\ p0 \in Pipelines /\ p0.queue = Tail(p.queue) /\ p0.present = p.queue[1]
      /\ p0.dec = p.dec /\ p0.gen = p.gen /\ p0.dgen = p.dgen
      /\ p0.leased = p.leased /\ p0.deferred = p.deferred
      /\ p0.retired = p.retired /\ p0.pool = p.pool /\ p0.lost = p.lost
      /\ p0.twice = p.twice /\ p0.endedBy = p.endedBy
  BY <1>1, <1>2, <1>3 DEF Pipelines, WithNext
<1>5. \A h : h \in hs <=> p.present # NoLease /\ h = p.present.h
  BY DEF HandlesOf
<1> HIDE DEF p0, hs
<1>6. hs \in SUBSET Handles
  BY <1>1, <1>5, FrameFacts
<1>7. OwnOK(p)
  BY <1>1 DEF Accounting
<1>8. 1 \in DOMAIN p.queue /\ p.queue[1] # NoLease
  BY <1>1, <1>2, FrameFacts
<1>9. \A h : Owned(p0, h) <=> \E i \in DOMAIN p.queue : h = p.queue[i].h
  <2>1. ASSUME NEW h, Owned(p0, h) PROVE \E i \in DOMAIN p.queue : h = p.queue[i].h
    <3>1. CASE h = p.queue[1].h
      BY <1>8, <3>1
    <3>2. CASE \E i \in DOMAIN Tail(p.queue) : h = Tail(p.queue)[i].h
      <4>1. PICK i \in 1 .. Len(p.queue) - 1 : h = p.queue[i + 1].h
        BY <1>2, <3>2
      <4> QED
        BY <1>2, <4>1
    <3> QED
      BY <1>4, <2>1, <3>1, <3>2 DEF Owned
  <2>2. ASSUME NEW h, NEW i \in DOMAIN p.queue, h = p.queue[i].h PROVE Owned(p0, h)
    <3>1. CASE i = 1
      BY <1>4, <1>8, <2>2, <3>1 DEF Owned
    <3>2. CASE i # 1
      <4>1. i - 1 \in DOMAIN Tail(p.queue) /\ Tail(p.queue)[i - 1] = p.queue[i]
        BY <1>2, <3>2
      <4> QED
        BY <1>4, <2>2, <4>1 DEF Owned
    <3> QED
      BY <3>1, <3>2
  <2> QED
    BY <2>1, <2>2
<1>10. \A h \in hs : ~Owned(p0, h)
  <2> SUFFICES ASSUME p.present # NoLease, NEW i \in DOMAIN p.queue,
                      p.present.h = p.queue[i].h
               PROVE  FALSE
    BY <1>5, <1>9
  <2>1. p.present.h < p.queue[i].h
    BY <1>7 DEF OwnOK
  <2> QED
    BY <1>1, <2>1, FrameFacts, Bounds
<1>11. Leaves(p, p0, hs)
  <2>1. \A h : Owned(p, h) <=> (Owned(p0, h) \/ h \in hs)
    BY <1>5, <1>9 DEF Owned
  <2> QED
    BY <1>4, <1>5, <1>10, <2>1 DEF Leaves
<1>12. OwnOK(p0)
  <2>1. p.dec # 0
    BY <1>7 DEF OwnOK
  <2>2. \A i \in DOMAIN Tail(p.queue) :
           /\ i + 1 \in DOMAIN p.queue /\ Tail(p.queue)[i] = p.queue[i + 1] /\ 1 < i + 1
    BY <1>2
  <2>3. \A i \in DOMAIN Tail(p.queue) : p.queue[1].h < Tail(p.queue)[i].h
    BY <1>7, <1>8, <2>2 DEF OwnOK
  <2>4. \A i, j \in DOMAIN Tail(p.queue) : i < j => Tail(p.queue)[i].h < Tail(p.queue)[j].h
    <3> SUFFICES ASSUME NEW i \in DOMAIN Tail(p.queue), NEW j \in DOMAIN Tail(p.queue), i < j
                 PROVE  Tail(p.queue)[i].h < Tail(p.queue)[j].h
      OBVIOUS
    <3>1. i + 1 < j + 1
      BY <1>2
    <3> QED
      BY <1>7, <2>2, <3>1 DEF OwnOK
  <2>5. p.queue[1].dgen <= p.dgen
    <3>1. p.queue[1].dgen = p.dgen /\ p.dgen \in Generations
      BY <1>1, <1>7, <1>8, Fields DEF OwnOK
    <3> QED
      BY <3>1, Bounds
  <2> QED
    BY <1>4, <1>7, <1>8, <2>1, <2>2, <2>3, <2>4, <2>5 DEF OwnOK
<1>13. q = ReleaseVideoTextures(p0, hs)
  BY DEF p0, hs, NextPresented
<1>14. /\ q \in Pipelines /\ HeldOK(q, H) /\ OldOK(q) /\ Accounting(q, H)
       /\ q.dec = p.dec /\ q.gen = p.gen /\ q.endedBy = p.endedBy
       /\ q.dgen = p0.dgen /\ q.queue = p0.queue /\ q.present = p0.present
       /\ \A d \in Decoders : q.pool[d] \subseteq p.pool[d]
  BY <1>1, <1>4, <1>6, <1>11, <1>12, <1>13, GiveUp
<1> QED
  BY <1>4, <1>8, <1>14 DEF Exact

-----------------------------------------------------------------------------
(* A new generation *)

\* q is the pipeline w, which has no frames, in the next generation, with its
\* decoder, no decoder or a new one.
Advanced(w, q, why) ==
    /\ q.gen = w.gen + 1 /\ q.queue = << >> /\ q.present = NoLease
    /\ q.leased = w.leased /\ q.deferred = w.deferred /\ q.pool = w.pool
    /\ q.lost = w.lost /\ q.twice = w.twice
    /\ DOMAIN q.endedBy = DOMAIN w.endedBy \cup {w.gen} /\ q.endedBy[w.gen] = why
    /\ \A x \in DOMAIN w.endedBy : x # w.gen => q.endedBy[x] = w.endedBy[x]
    /\ IF why = "install" /\ w.dec # 0 /\ HasLeasesForGeneration(w, w.gen)
         THEN /\ DOMAIN q.retired = DOMAIN w.retired \cup {w.gen}
              /\ q.retired[w.gen] = w.dec
              /\ \A x \in DOMAIN w.retired : x # w.gen => q.retired[x] = w.retired[x]
         ELSE q.retired = w.retired
    /\ q.dec \in {0, w.dec} \/ q.pool[q.dec] = {}

\* Every lease of the generation that ends is deferred, and after an install
\* its decoder is retained.
LEMMA AdvanceKeeps ==
  ASSUME NEW H \in SUBSET Tokens, NEW w, TokensOK(H), Exact(w, H),
         w.queue = << >>, w.present = NoLease,
         NEW why \in {"stop", "install", "backend"},
         NEW q \in Pipelines, Advanced(w, q, why)
  PROVE  Exact(q, H)
<1>1. w \in Pipelines /\ HeldOK(w, H) /\ OldOK(w) /\ Accounting(w, H)
  BY DEF Exact
<1>2. /\ OwnOK(w) /\ TableOK(w, H) /\ DeferOK(w, H) /\ SlotsOK(w, H) /\ RetiredOK(w, H)
  BY <1>1 DEF Accounting
<1>3. /\ q.gen = w.gen + 1 /\ q.queue = << >> /\ q.present = NoLease
      /\ q.leased = w.leased /\ q.deferred = w.deferred /\ q.pool = w.pool
      /\ q.lost = w.lost /\ q.twice = w.twice
      /\ q.dec \in {0, w.dec} \/ q.pool[q.dec] = {}
  BY DEF Advanced
<1>4. w.gen \in Nat /\ w.gen \in Generations
  BY <1>1, Fields, Bounds
<1>5. \A t \in H : /\ t.gen \in Generations /\ t.gen \in Nat /\ t.dec \in Decoders
                   /\ t.h \in Handles
  BY Bounds DEF Tokens
<1>6. \A t \in H : t.gen <= w.gen /\ <<t.gen, t.h>> \in w.deferred
  BY <1>1, <1>2 DEF HeldOK, DeferOK
<1>7. \A h : ~Owned(q, h) /\ ~Owned(w, h)
  BY <1>3 DEF Owned
<1>8. /\ w.leased \in Maps(Keys, Nat) /\ w.retired \in Maps(Generations, Decoders)
      /\ w.endedBy \in Maps(Generations, {"stop", "install", "backend"})
      /\ w.dec # 0 => w.dec \in Decoders
  BY <1>1, Fields DEF Decoders
<1>9. HeldOK(q, H)
  <2> SUFFICES ASSUME NEW t \in H
               PROVE  t.h \in q.pool[t.dec] /\ t.gen <= q.gen /\ t.gen # q.gen
    BY DEF HeldOK
  <2>1. t.h \in w.pool[t.dec]
    BY <1>1 DEF HeldOK
  <2>2. t.h \in q.pool[t.dec]
    BY <1>3, <2>1
  <2>3. t.gen \in Nat /\ t.gen <= w.gen /\ w.gen \in Nat /\ q.gen = w.gen + 1
    BY <1>3, <1>4, <1>5, <1>6
  <2>4. t.gen <= q.gen /\ t.gen # q.gen
    BY <2>3
  <2> QED
    BY <2>2, <2>4
<1>16. /\ IF why = "install" /\ w.dec # 0 /\ HasLeasesForGeneration(w, w.gen)
            THEN /\ DOMAIN q.retired = DOMAIN w.retired \cup {w.gen}
                 /\ q.retired[w.gen] = w.dec
                 /\ \A x \in DOMAIN w.retired : x # w.gen => q.retired[x] = w.retired[x]
            ELSE q.retired = w.retired
  BY DEF Advanced
<1>10. \A g \in DOMAIN w.retired : g \in DOMAIN q.retired /\ g # w.gen /\ g \in Nat
  <2>1. \A g \in DOMAIN w.retired : g \in Generations /\ g < w.gen
    BY <1>1, TableKeys DEF OldOK
  <2>2. DOMAIN w.retired \subseteq DOMAIN q.retired
    BY <1>16
  <2> QED
    BY <1>4, <2>1, <2>2, Bounds
<1>11. /\ DOMAIN q.endedBy = DOMAIN w.endedBy \cup {w.gen} /\ q.endedBy[w.gen] = why
       /\ \A x \in DOMAIN w.endedBy : x # w.gen => q.endedBy[x] = w.endedBy[x]
  BY DEF Advanced
<1>12. OldOK(q)
  <2>1. ASSUME NEW k \in DOMAIN w.leased
        PROVE  /\ k \in w.deferred /\ k[1] \in DOMAIN q.endedBy
               /\ q.endedBy[k[1]] = "install" => k[1] \in DOMAIN q.retired
    <3>1. PICK t \in H : k = <<t.gen, t.h>>
      BY <1>2 DEF TableOK
    <3>2. k \in w.deferred /\ k[1] = t.gen
      BY <1>6, <3>1
    <3>3. CASE k[1] = w.gen
      <4>1. why = "install" => k[1] \in DOMAIN q.retired
        <5>1. HasLeasesForGeneration(w, w.gen)
          BY <3>3 DEF HasLeasesForGeneration
        <5>2. w.dec # 0
          BY <1>1, <1>5, <3>2, <3>3, Bounds DEF HeldOK
        <5> QED
          BY <1>16, <3>3, <5>1, <5>2
      <4> QED
        BY <1>11, <3>2, <3>3, <4>1
    <3>4. CASE k[1] # w.gen
      BY <1>1, <1>10, <1>11, <3>2, <3>4 DEF OldOK
    <3> QED
      BY <3>3, <3>4
  <2>2. ASSUME NEW g \in DOMAIN q.retired
        PROVE  g < q.gen /\ HasLeasesForGeneration(q, g)
    <3>1. CASE g \in DOMAIN w.retired
      <4>1. g < w.gen /\ HasLeasesForGeneration(w, g)
        BY <1>1, <3>1 DEF OldOK
      <4> QED
        BY <1>3, <1>4, <1>10, <3>1, <4>1 DEF HasLeasesForGeneration
    <3>2. CASE g \notin DOMAIN w.retired
      <4>4. g = w.gen /\ HasLeasesForGeneration(w, w.gen)
        BY <1>16, <3>2
      <4> QED
        BY <1>3, <1>4, <4>4 DEF HasLeasesForGeneration
    <3> QED
      BY <3>1, <3>2
  <2>3. ~q.twice
    BY <1>1, <1>3 DEF OldOK
  <2> QED
    BY <1>3, <2>1, <2>2, <2>3 DEF OldOK
<1>13. OwnOK(q) /\ TableOK(q, H) /\ DeferOK(q, H)
  <2>1. OwnOK(q)
    BY <1>3 DEF OwnOK
  <2>2. TableOK(q, H)
    BY <1>2, <1>3 DEF TableOK
  <2>3. DeferOK(q, H)
    BY <1>3, <1>6, <1>7 DEF DeferOK
  <2> QED
    BY <2>1, <2>2, <2>3
<1>14. SlotsOK(q, H)
  <2> SUFFICES ASSUME q.dec # 0, NEW h \in q.pool[q.dec]
               PROVE  \/ \E t \in H : t.dec = q.dec /\ t.h = h /\ <<t.gen, t.h>> \in q.deferred
                      \/ \E f \in q.lost : f.dec = q.dec /\ f.h = h
    BY DEF SlotsOK
  <2>1. q.dec = w.dec
    BY <1>3
  <2> QED
    BY <1>2, <1>3, <1>7, <2>1 DEF SlotsOK
<1>15. RetiredOK(q, H)
  <2> SUFFICES ASSUME NEW t \in H, t.gen \in DOMAIN q.retired PROVE q.retired[t.gen] = t.dec
    BY DEF RetiredOK
  <2>1. CASE q.retired = w.retired
    BY <1>2, <2>1 DEF RetiredOK
  <2>2. CASE q.retired # w.retired
    <3>2. /\ DOMAIN q.retired = DOMAIN w.retired \cup {w.gen} /\ q.retired[w.gen] = w.dec
          /\ \A x \in DOMAIN w.retired : x # w.gen => q.retired[x] = w.retired[x]
      BY <1>16, <2>2
    <3>3. CASE t.gen = w.gen
      BY <1>1, <3>2, <3>3 DEF HeldOK
    <3>4. CASE t.gen # w.gen
      BY <1>2, <3>2, <3>4 DEF RetiredOK
    <3> QED
      BY <3>3, <3>4
  <2> QED
    BY <2>1, <2>2
<1> QED
  BY <1>9, <1>12, <1>13, <1>14, <1>15 DEF Exact, Accounting

-----------------------------------------------------------------------------
(* Receiving a release *)

\* Neither pipeline differs in what the session shows.
SameSession(p, q) ==
    /\ q.dec = p.dec /\ q.gen = p.gen /\ q.dgen = p.dgen /\ q.queue = p.queue
    /\ q.present = p.present /\ q.stale = p.stale /\ q.endedBy = p.endedBy

\* What release_retired_video_decoder_if_idle changes.
LEMMA DropRetiredEffect ==
  ASSUME NEW p \in Pipelines, NEW g, NEW q, q = DropRetiredDecoderIfIdle(p, g)
  PROVE  /\ q \in Pipelines /\ SameSession(p, q)
         /\ q.leased = p.leased /\ q.deferred = p.deferred /\ q.pool = p.pool
         /\ q.lost = p.lost /\ q.twice = p.twice
         /\ \/ HasLeasesForGeneration(p, g) /\ q.retired = p.retired
            \/ /\ ~HasLeasesForGeneration(p, g)
               /\ DOMAIN q.retired = DOMAIN p.retired \ {g}
               /\ \A x \in DOMAIN q.retired : q.retired[x] = p.retired[x]
<1> DEFINE left == [x \in DOMAIN p.retired \ {g} |-> p.retired[x]]
<1>1. left \in Maps(Generations, Decoders)
  <2>1. /\ DOMAIN p.retired \subseteq Generations
        /\ \A x \in DOMAIN p.retired : p.retired[x] \in Decoders
    BY TableKeys
  <2>2. left \in [DOMAIN p.retired \ {g} -> Decoders]
    BY <2>1
  <2>3. DOMAIN p.retired \ {g} \in SUBSET Generations
    BY <2>1
  <2> QED
    BY <2>2, <2>3 DEF Maps
<1>2. DOMAIN left = DOMAIN p.retired \ {g} /\ \A x \in DOMAIN left : left[x] = p.retired[x]
  OBVIOUS
<1>3. q = IF HasLeasesForGeneration(p, g) THEN p ELSE [p EXCEPT !.retired = left]
  BY DEF DropRetiredDecoderIfIdle
<1> HIDE DEF left
<1>4. CASE HasLeasesForGeneration(p, g)
  BY <1>3, <1>4 DEF SameSession
<1>5. CASE ~HasLeasesForGeneration(p, g)
  <2>1. q = [p EXCEPT !.retired = left]
    BY <1>3, <1>5
  <2>2. q \in Pipelines
    BY <1>1, <2>1 DEF Pipelines
  <2>3. /\ SameSession(p, q) /\ q.leased = p.leased /\ q.deferred = p.deferred
        /\ q.pool = p.pool /\ q.lost = p.lost /\ q.twice = p.twice /\ q.retired = left
    BY <2>1 DEF Pipelines, SameSession
  <2> QED
    BY <1>2, <1>5, <2>2, <2>3
<1> QED
  BY <1>4, <1>5

\* The lease k leaves the tables of leases and of deferred releases.
Unleased(p, k) ==
    [p EXCEPT !.leased = [x \in DOMAIN @ \ {k} |-> @[x]], !.deferred = @ \ {k}]

LEMMA UnleasedEffect ==
  ASSUME NEW p \in Pipelines, NEW k, NEW q, q = Unleased(p, k)
  PROVE  /\ q \in Pipelines /\ SameSession(p, q)
         /\ DOMAIN q.leased = DOMAIN p.leased \ {k}
         /\ \A x \in DOMAIN q.leased : q.leased[x] = p.leased[x]
         /\ q.deferred = p.deferred \ {k}
         /\ q.retired = p.retired /\ q.pool = p.pool /\ q.lost = p.lost /\ q.twice = p.twice
<1> DEFINE left == [x \in DOMAIN p.leased \ {k} |-> p.leased[x]]
<1>1. left \in Maps(Keys, Nat)
  <2>1. p.leased \in Maps(Keys, Nat)
    BY Fields
  <2>2. DOMAIN p.leased \subseteq Keys /\ \A x \in DOMAIN p.leased : p.leased[x] \in Nat
    BY <2>1, MapFacts
  <2>3. left \in [DOMAIN p.leased \ {k} -> Nat]
    BY <2>2
  <2>4. DOMAIN p.leased \ {k} \in SUBSET Keys
    BY <2>2
  <2> QED
    BY <2>3, <2>4 DEF Maps
<1>2. DOMAIN left = DOMAIN p.leased \ {k} /\ \A x \in DOMAIN left : left[x] = p.leased[x]
  OBVIOUS
<1>3. q = [p EXCEPT !.leased = left, !.deferred = p.deferred \ {k}]
  BY DEF Unleased, Pipelines
<1>4. p.deferred \ {k} \subseteq Keys
  BY Fields
<1> HIDE DEF left
<1>5. q \in Pipelines
  BY <1>1, <1>3, <1>4 DEF Pipelines
<1>6. /\ SameSession(p, q) /\ q.leased = left /\ q.deferred = p.deferred \ {k}
      /\ q.retired = p.retired /\ q.pool = p.pool /\ q.lost = p.lost /\ q.twice = p.twice
  BY <1>3 DEF Pipelines, SameSession
<1> QED
  BY <1>2, <1>5, <1>6

\* The ack a leaves p as q: its slot is given back, or lost, if it was deferred,
\* and a retired decoder goes with the last lease of its generation.
Settled(p, q, a) ==
    /\ SameSession(p, q)
    /\ DOMAIN q.leased = DOMAIN p.leased \ {<<a.gen, a.h>>}
    /\ \A x \in DOMAIN q.leased : q.leased[x] = p.leased[x]
    /\ q.deferred = p.deferred \ {<<a.gen, a.h>>}
    /\ q.twice = p.twice
    /\ \A d \in Decoders : d # a.dec => q.pool[d] = p.pool[d]
    /\ \/ <<a.gen, a.h>> \notin p.deferred /\ q.pool[a.dec] = p.pool[a.dec] /\ q.lost = p.lost
       \/ /\ <<a.gen, a.h>> \in p.deferred
          /\ \/ q.pool[a.dec] = p.pool[a.dec] \ {a.h} /\ q.lost = p.lost
             \/ q.pool[a.dec] = p.pool[a.dec] /\ q.lost = p.lost \cup {Token(a)}
    /\ \/ /\ q.retired = p.retired
          /\ a.gen \in DOMAIN p.retired => HasLeasesForGeneration(q, a.gen)
       \/ /\ DOMAIN q.retired = DOMAIN p.retired \ {a.gen}
          /\ \A x \in DOMAIN q.retired : q.retired[x] = p.retired[x]
          /\ ~HasLeasesForGeneration(q, a.gen)

\* What record_release does with the ack of a lease.
LEMMA RecordReleaseSettles ==
  ASSUME NEW H \in SUBSET Tokens, NEW p, Exact(p, H), NEW a \in Acks, Token(a) \in H,
         NEW q, q = RecordRelease(p, a)
  PROVE  q \in Pipelines /\ Settled(p, q, a)
<1> DEFINE k == <<a.gen, a.h>>
           r == Unleased(p, k)
<1>1. p \in Pipelines /\ HeldOK(p, H) /\ OldOK(p)
      /\ TableOK(p, H) /\ RetiredOK(p, H)
  BY DEF Exact, Accounting
<1>2. /\ a.gen \in Generations /\ a.dec \in Decoders /\ a.h \in Handles
      /\ a.submitted \in BOOLEAN
  BY DEF Acks
<1>3. /\ k \in DOMAIN p.leased /\ p.leased[k] = 1
      /\ a.h \in p.pool[a.dec] /\ a.gen <= p.gen /\ (a.gen = p.gen => a.dec = p.dec)
      /\ (a.gen \in DOMAIN p.retired => p.retired[a.gen] = a.dec)
  <2>1. Token(a).gen = a.gen /\ Token(a).dec = a.dec /\ Token(a).h = a.h
    BY DEF Token
  <2>2. <<Token(a).gen, Token(a).h>> \in DOMAIN p.leased
    BY <1>1 DEF TableOK
  <2> QED
    BY <1>1, <2>1, <2>2 DEF TableOK, HeldOK, RetiredOK
<1>4. /\ r \in Pipelines /\ SameSession(p, r)
      /\ DOMAIN r.leased = DOMAIN p.leased \ {k}
      /\ \A x \in DOMAIN r.leased : r.leased[x] = p.leased[x]
      /\ r.deferred = p.deferred \ {k}
      /\ r.retired = p.retired /\ r.pool = p.pool /\ r.lost = p.lost /\ r.twice = p.twice
  BY <1>1, UnleasedEffect
<1>5. a.gen = p.gen => a.gen \notin DOMAIN p.retired
  <2>1. \A g \in DOMAIN p.retired : g < p.gen /\ g \in Nat
    BY <1>1, TableKeys, Bounds DEF OldOK
  <2> QED
    BY <2>1
<1>6. ASSUME k \notin p.deferred, a.gen \in DOMAIN p.retired PROVE FALSE
  <2>1. a.gen # p.gen
    BY <1>5, <1>6
  <2>2. k[1] = a.gen
    OBVIOUS
  <2> HIDE DEF k
  <2> QED
    BY <1>1, <1>3, <1>6, <2>1, <2>2 DEF OldOK
<1>7. CASE k \notin p.deferred
  <2>1. q = [p EXCEPT !.leased = [x \in DOMAIN @ \ {k} |-> @[x]]]
    BY <1>3, <1>7 DEF RecordRelease
  <2>2. q = r
    <3>1. p.deferred \ {k} = p.deferred
      BY <1>7
    <3>2. p.leased = p.leased /\ r = [p EXCEPT !.leased = [x \in DOMAIN p.leased \ {k} |-> p.leased[x]],
                                               !.deferred = p.deferred]
      BY <1>1, <3>1 DEF Unleased, Pipelines
    <3> QED
      BY <1>1, <2>1, <3>2 DEF Pipelines
  <2> HIDE DEF r
  <2>3. r.pool[a.dec] = p.pool[a.dec]
    BY <1>4
  <2> QED
    BY <1>4, <1>6, <1>7, <2>2, <2>3 DEF Settled
<1>8. CASE k \in p.deferred
  <2>1. q = ReleaseDeferredVideoTexture(r, a)
    <3>1. r = [[p EXCEPT !.leased = [x \in DOMAIN @ \ {k} |-> @[x]]] EXCEPT !.deferred = @ \ {k}]
      BY <1>1 DEF Unleased, Pipelines
    <3> QED
      BY <1>3, <1>8, <3>1 DEF RecordRelease
  <2> DEFINE f == ReleaseFrames(r, a.dec, {a.h})
  <2> HIDE DEF r
  <2>2. /\ f \in Pipelines /\ SameSession(r, f)
        /\ f.leased = r.leased /\ f.deferred = r.deferred /\ f.retired = r.retired
        /\ f.lost = r.lost
        /\ f.pool[a.dec] = r.pool[a.dec] \ {a.h}
        /\ \A e \in Decoders : e # a.dec => f.pool[e] = r.pool[e]
    BY <1>2, <1>4, ReleaseFramesEffect DEF SameSession
  <2>3. f.twice = r.twice
    BY <1>1, <1>2, <1>3, <1>4, ReleaseFramesEffect DEF OldOK, Pipelines
  <2>4. CASE q = DropRetiredDecoderIfIdle(f, a.gen)
    <3> HIDE DEF f
    <3>1. /\ q \in Pipelines /\ SameSession(f, q)
          /\ q.leased = f.leased /\ q.deferred = f.deferred /\ q.pool = f.pool
          /\ q.lost = f.lost /\ q.twice = f.twice
          /\ \/ HasLeasesForGeneration(f, a.gen) /\ q.retired = f.retired
             \/ /\ ~HasLeasesForGeneration(f, a.gen)
                /\ DOMAIN q.retired = DOMAIN f.retired \ {a.gen}
                /\ \A x \in DOMAIN q.retired : q.retired[x] = f.retired[x]
      BY <2>2, <2>4, DropRetiredEffect
    <3>2. HasLeasesForGeneration(f, a.gen) <=> HasLeasesForGeneration(q, a.gen)
      BY <3>1 DEF HasLeasesForGeneration
    <3>3. SameSession(p, q)
      BY <1>4, <2>2, <3>1 DEF SameSession
    <3>4. /\ \A d \in Decoders : d # a.dec => q.pool[d] = p.pool[d]
          /\ q.pool[a.dec] = p.pool[a.dec] \ {a.h} /\ q.lost = p.lost
      BY <1>4, <2>2, <3>1
    <3>5. /\ DOMAIN q.leased = DOMAIN p.leased \ {k}
          /\ \A x \in DOMAIN q.leased : q.leased[x] = p.leased[x]
          /\ q.deferred = p.deferred \ {k} /\ q.twice = p.twice
      BY <1>4, <2>2, <2>3, <3>1
    <3>6. \/ /\ q.retired = p.retired
             /\ a.gen \in DOMAIN p.retired => HasLeasesForGeneration(q, a.gen)
          \/ /\ DOMAIN q.retired = DOMAIN p.retired \ {a.gen}
             /\ \A x \in DOMAIN q.retired : q.retired[x] = p.retired[x]
             /\ ~HasLeasesForGeneration(q, a.gen)
      BY <1>4, <2>2, <3>1, <3>2
    <3> QED
      BY <1>8, <3>1, <3>3, <3>4, <3>5, <3>6 DEF Settled
  <2>5. CASE q = f /\ a.gen = p.gen
    <3>1. SameSession(p, q)
      BY <1>4, <2>2, <2>5 DEF SameSession
    <3>2. /\ \A d \in Decoders : d # a.dec => q.pool[d] = p.pool[d]
          /\ q.pool[a.dec] = p.pool[a.dec] \ {a.h} /\ q.lost = p.lost
      BY <1>4, <2>2, <2>5
    <3>3. /\ DOMAIN q.leased = DOMAIN p.leased \ {k}
          /\ \A x \in DOMAIN q.leased : q.leased[x] = p.leased[x]
          /\ q.deferred = p.deferred \ {k} /\ q.twice = p.twice /\ q.retired = p.retired
      BY <1>4, <2>2, <2>3, <2>5
    <3> QED
      BY <1>5, <1>8, <2>2, <2>5, <3>1, <3>2, <3>3 DEF Settled
  <2>6. CASE q = [r EXCEPT !.lost = @ \cup {Token(a)}] /\ a.gen \notin DOMAIN p.retired
    <3>1. r.lost \cup {Token(a)} \in SUBSET Tokens
      BY <1>4, Fields
    <3>2. /\ q \in Pipelines /\ SameSession(r, q)
          /\ q.leased = r.leased /\ q.deferred = r.deferred /\ q.retired = r.retired
          /\ q.lost = r.lost \cup {Token(a)} /\ q.pool = r.pool /\ q.twice = r.twice
      BY <1>4, <2>6, <3>1 DEF Pipelines, SameSession
    <3>3. SameSession(p, q)
      BY <1>4, <3>2 DEF SameSession
    <3>4. /\ \A d \in Decoders : d # a.dec => q.pool[d] = p.pool[d]
          /\ q.pool[a.dec] = p.pool[a.dec] /\ q.lost = p.lost \cup {Token(a)}
      BY <1>4, <3>2
    <3>5. /\ DOMAIN q.leased = DOMAIN p.leased \ {k}
          /\ \A x \in DOMAIN q.leased : q.leased[x] = p.leased[x]
          /\ q.deferred = p.deferred \ {k} /\ q.twice = p.twice /\ q.retired = p.retired
      BY <1>4, <3>2
    <3> QED
      BY <1>8, <2>6, <3>2, <3>3, <3>4, <3>5 DEF Settled
  <2>7. \/ q = DropRetiredDecoderIfIdle(f, a.gen)
        \/ q = f /\ a.gen = p.gen
        \/ q = [r EXCEPT !.lost = @ \cup {Token(a)}] /\ a.gen \notin DOMAIN p.retired
    <3>1. r.gen = p.gen /\ r.dec = p.dec /\ r.retired = p.retired
      BY <1>4 DEF SameSession
    <3>2. a.gen = r.gen => r.dec = a.dec /\ r.dec # 0
      BY <1>2, <1>3, <3>1, Bounds
    <3>3. a.gen \in DOMAIN r.retired => r.retired[a.gen] = a.dec
      BY <1>3, <3>1
    <3>4. Token(a) = [dec |-> a.dec, h |-> a.h, gen |-> a.gen]
      BY DEF Token
    <3> QED
      BY <2>1, <3>1, <3>2, <3>3, <3>4 DEF ReleaseDeferredVideoTexture
  <2> QED
    BY <2>4, <2>5, <2>6, <2>7
<1> QED
  BY <1>7, <1>8

\* The accounting stays exact when an ack leaves the channel.
LEMMA SettledKeeps ==
  ASSUME NEW H \in SUBSET Tokens, NEW p, TokensOK(H), Exact(p, H), NEW a \in Acks,
         Token(a) \in H, NEW q \in Pipelines, Settled(p, q, a)
  PROVE  Exact(q, H \ {Token(a)}) /\ \A d \in Decoders : q.pool[d] \subseteq p.pool[d]
<1> DEFINE k == <<a.gen, a.h>>
           G == H \ {Token(a)}
<1>1. p \in Pipelines /\ HeldOK(p, H) /\ OldOK(p) /\ OwnOK(p)
      /\ TableOK(p, H) /\ DeferOK(p, H) /\ SlotsOK(p, H) /\ RetiredOK(p, H)
  BY DEF Exact, Accounting
<1>2. /\ q.dec = p.dec /\ q.gen = p.gen /\ q.dgen = p.dgen /\ q.queue = p.queue
      /\ q.present = p.present /\ q.endedBy = p.endedBy
  BY DEF Settled, SameSession
<1>3. /\ DOMAIN q.leased = DOMAIN p.leased \ {k}
      /\ \A x \in DOMAIN q.leased : q.leased[x] = p.leased[x]
      /\ q.deferred = p.deferred \ {k} /\ q.twice = p.twice
  BY DEF Settled
<1>4. /\ \A d \in Decoders : d # a.dec => q.pool[d] = p.pool[d]
      /\ \/ k \notin p.deferred /\ q.pool[a.dec] = p.pool[a.dec] /\ q.lost = p.lost
         \/ /\ k \in p.deferred
            /\ \/ q.pool[a.dec] = p.pool[a.dec] \ {a.h} /\ q.lost = p.lost
               \/ q.pool[a.dec] = p.pool[a.dec] /\ q.lost = p.lost \cup {Token(a)}
  BY DEF Settled
<1>5. \/ /\ q.retired = p.retired
         /\ a.gen \in DOMAIN p.retired => HasLeasesForGeneration(q, a.gen)
      \/ /\ DOMAIN q.retired = DOMAIN p.retired \ {a.gen}
         /\ \A x \in DOMAIN q.retired : q.retired[x] = p.retired[x]
         /\ ~HasLeasesForGeneration(q, a.gen)
  BY DEF Settled
<1>6. Token(a).gen = a.gen /\ Token(a).dec = a.dec /\ Token(a).h = a.h /\ a.dec \in Decoders
  BY DEF Token, Acks
<1>7. \A t \in G : /\ t \in H /\ t \in Tokens
                   /\ ~(t.dec = a.dec /\ t.h = a.h) /\ <<t.gen, t.h>> # k
  <2> SUFFICES ASSUME NEW t \in H, t # Token(a)
               PROVE  ~(t.dec = a.dec /\ t.h = a.h) /\ ~(t.gen = a.gen /\ t.h = a.h)
    OBVIOUS
  <2> QED
    BY <1>6 DEF TokensOK
<1>8. \A t \in Tokens : t.gen \in Generations /\ t.dec \in Decoders /\ t.h \in Handles
  BY DEF Tokens
<1>9. \A t \in H : t \in G \/ t = Token(a)
  OBVIOUS
<1>10. Token(a) \notin G
  OBVIOUS
<1> HIDE DEF k, G
<1>11. \A d \in Decoders : q.pool[d] \subseteq p.pool[d]
  <2> SUFFICES ASSUME NEW d \in Decoders PROVE q.pool[d] \subseteq p.pool[d]
    OBVIOUS
  <2>1. CASE d = a.dec
    BY <1>4, <2>1
  <2> QED
    BY <1>4, <2>1
<1>12. \A d \in Decoders : \A h \in p.pool[d] : ~(d = a.dec /\ h = a.h) => h \in q.pool[d]
  <2> SUFFICES ASSUME NEW d \in Decoders, NEW h \in p.pool[d], ~(d = a.dec /\ h = a.h)
               PROVE  h \in q.pool[d]
    OBVIOUS
  <2>1. CASE d = a.dec
    BY <1>4, <2>1
  <2> QED
    BY <1>4, <2>1
<1>13. HeldOK(q, G)
  <2> SUFFICES ASSUME NEW t \in G
               PROVE  /\ t.h \in q.pool[t.dec] /\ t.gen <= q.gen
                      /\ t.gen = q.gen => t.dec = q.dec
    BY DEF HeldOK
  <2>1. t.h \in p.pool[t.dec] /\ t.gen <= p.gen /\ (t.gen = p.gen => t.dec = p.dec)
    BY <1>1, <1>7 DEF HeldOK
  <2> QED
    BY <1>2, <1>7, <1>8, <1>12, <2>1
<1>14. \A h : Owned(q, h) <=> Owned(p, h)
  BY <1>2 DEF Owned
<1>15. \A h : Owned(p, h) /\ p.dec # 0 /\ h \in p.pool[p.dec] => h \in q.pool[p.dec]
  <2> SUFFICES ASSUME NEW h, Owned(p, h), p.dec # 0, h \in p.pool[p.dec]
               PROVE  h \in q.pool[p.dec]
    OBVIOUS
  <2>1. p.dec \in Decoders
    BY <1>1, Fields DEF Decoders
  <2>2. CASE p.dec = a.dec /\ h = a.h
    <3>1. k \notin p.deferred
      BY <1>1, <1>6, <2>2 DEF DeferOK, k
    <3> QED
      BY <1>4, <2>2, <3>1
  <2> QED
    BY <1>12, <2>1, <2>2
<1>16. OwnOK(q)
  <2>1. \A i \in DOMAIN p.queue : Owned(p, p.queue[i].h)
    BY DEF Owned
  <2>2. p.present # NoLease => Owned(p, p.present.h)
    BY DEF Owned
  <2> QED
    BY <1>1, <1>2, <1>15, <2>1, <2>2 DEF OwnOK
<1>17. TableOK(q, G)
  <2>1. ASSUME NEW x \in DOMAIN q.leased PROVE \E t \in G : x = <<t.gen, t.h>>
    <3>1. PICK t \in H : x = <<t.gen, t.h>>
      BY <1>1, <1>3 DEF TableOK
    <3>2. t # Token(a)
      BY <1>3, <1>6, <3>1 DEF k
    <3> QED
      BY <1>9, <3>1, <3>2
  <2>2. \A t \in G : <<t.gen, t.h>> \in DOMAIN q.leased
    BY <1>1, <1>3, <1>7 DEF TableOK
  <2>3. \A x \in DOMAIN q.leased : q.leased[x] = 1
    BY <1>1, <1>3 DEF TableOK
  <2>4. q.deferred \subseteq DOMAIN q.leased
    BY <1>1, <1>3 DEF TableOK
  <2> QED
    BY <2>1, <2>2, <2>3, <2>4 DEF TableOK
<1>18. DeferOK(q, G)
  BY <1>1, <1>2, <1>3, <1>7, <1>14 DEF DeferOK
<1>19. SlotsOK(q, G)
  <2> SUFFICES ASSUME q.dec # 0, NEW h \in q.pool[q.dec], ~Owned(q, h)
               PROVE  \/ \E t \in G : t.dec = q.dec /\ t.h = h /\ <<t.gen, t.h>> \in q.deferred
                      \/ \E f \in q.lost : f.dec = q.dec /\ f.h = h
    BY DEF SlotsOK
  <2>1. q.dec \in Decoders /\ h \in p.pool[p.dec] /\ p.lost \subseteq q.lost
    BY <1>2, <1>4, <1>11, Fields DEF Decoders
  <2>2. \/ \E t \in H : t.dec = p.dec /\ t.h = h /\ <<t.gen, t.h>> \in p.deferred
        \/ \E f \in p.lost : f.dec = p.dec /\ f.h = h
    BY <1>1, <1>2, <1>14, <2>1 DEF SlotsOK
  <2>3. CASE \E f \in p.lost : f.dec = p.dec /\ f.h = h
    BY <1>2, <2>1, <2>3
  <2>4. ASSUME NEW t \in H, t.dec = p.dec, t.h = h, <<t.gen, t.h>> \in p.deferred
        PROVE  \/ \E s \in G : s.dec = q.dec /\ s.h = h /\ <<s.gen, s.h>> \in q.deferred
               \/ \E f \in q.lost : f.dec = q.dec /\ f.h = h
    <3>1. CASE t \in G
      BY <1>2, <1>3, <1>7, <2>4, <3>1
    <3>2. CASE t = Token(a)
      <4>1. k \in p.deferred /\ a.dec = q.dec /\ a.h = h
        BY <1>2, <1>6, <2>4, <3>2 DEF k
      <4>2. Token(a) \in q.lost
        BY <1>4, <4>1
      <4> QED
        BY <1>6, <4>1, <4>2
    <3> QED
      BY <1>9, <3>1, <3>2
  <2> QED
    BY <2>2, <2>3, <2>4
<1>20. RetiredOK(q, G)
  <2>1. \A x \in DOMAIN q.retired : x \in DOMAIN p.retired /\ q.retired[x] = p.retired[x]
    BY <1>5
  <2> QED
    BY <1>1, <1>7, <2>1 DEF RetiredOK
<1>21. OldOK(q)
  <2>1. ASSUME NEW x \in DOMAIN q.leased, x[1] # q.gen
        PROVE  /\ x \in q.deferred /\ x[1] \in DOMAIN q.endedBy
               /\ q.endedBy[x[1]] = "install" => x[1] \in DOMAIN q.retired
    <3>1. /\ x \in DOMAIN p.leased /\ x # k
      BY <1>3
    <3>2. /\ x \in p.deferred /\ x[1] \in DOMAIN p.endedBy
          /\ p.endedBy[x[1]] = "install" => x[1] \in DOMAIN p.retired
      BY <1>1, <1>2, <2>1, <3>1 DEF OldOK
    <3>3. HasLeasesForGeneration(q, x[1])
      BY DEF HasLeasesForGeneration
    <3>4. x[1] \in DOMAIN p.retired => x[1] \in DOMAIN q.retired
      <4>1. CASE x[1] = a.gen
        BY <1>5, <3>3, <4>1
      <4> QED
        BY <1>5, <4>1
    <3> QED
      BY <1>2, <1>3, <3>1, <3>2, <3>4
  <2>2. ASSUME NEW g \in DOMAIN q.retired PROVE g < q.gen /\ HasLeasesForGeneration(q, g)
    <3>1. g \in DOMAIN p.retired
      BY <1>5
    <3>2. g < p.gen /\ HasLeasesForGeneration(p, g)
      BY <1>1, <3>1 DEF OldOK
    <3>3. CASE g = a.gen
      BY <1>2, <1>5, <3>1, <3>2, <3>3
    <3>4. CASE g # a.gen
      <4>1. k[1] = a.gen
        BY DEF k
      <4>2. PICK x \in DOMAIN p.leased : x[1] = g
        BY <3>2 DEF HasLeasesForGeneration
      <4>3. x \in DOMAIN q.leased
        BY <1>3, <3>4, <4>1, <4>2
      <4> QED
        BY <1>2, <3>2, <4>2, <4>3 DEF HasLeasesForGeneration
    <3> QED
      BY <3>3, <3>4
  <2>3. ~q.twice
    BY <1>1, <1>3 DEF OldOK
  <2> QED
    BY <2>1, <2>2, <2>3 DEF OldOK
<1> QED
  BY <1>11, <1>13, <1>16, <1>17, <1>18, <1>19, <1>20, <1>21 DEF Exact, Accounting, G

-----------------------------------------------------------------------------
(* The operations that open a generation *)

Stopped(p) ==
    [AdvanceRenderGeneration(WithoutFrames(p), "stop") EXCEPT !.dgen = 0, !.stale = FALSE]
NextMedium(p, d) ==
    [AdvanceRenderGeneration(WithoutFrames(p), "install")
       EXCEPT !.dec = d, !.dgen = 0, !.stale = FALSE]
Installed(p, d) == RetainRetired(NextMedium(p, d), p.gen, p.dec)
Swapped(p, d) == [AdvanceRenderGeneration(WithoutFrames(p), "backend") EXCEPT !.dec = d]

WithDecoder(p, d) == [p EXCEPT !.dec = d]

\* What advance_render_generation changes.
LEMMA AdvanceEffect ==
  ASSUME NEW w \in Pipelines, w.gen + 1 \in Generations,
         NEW why \in {"stop", "install", "backend"},
         NEW q, q = AdvanceRenderGeneration(w, why)
  PROVE  /\ q \in Pipelines
         /\ q.gen = w.gen + 1 /\ q.dec = w.dec /\ q.dgen = w.dgen
         /\ q.queue = w.queue /\ q.present = w.present /\ q.stale = w.stale
         /\ q.leased = w.leased /\ q.deferred = w.deferred /\ q.pool = w.pool
         /\ q.lost = w.lost /\ q.twice = w.twice /\ q.retired = w.retired
         /\ DOMAIN q.endedBy = DOMAIN w.endedBy \cup {w.gen} /\ q.endedBy[w.gen] = why
         /\ \A x \in DOMAIN w.endedBy : x # w.gen => q.endedBy[x] = w.endedBy[x]
<1> DEFINE ends == Insert(w.endedBy, w.gen, why)
<1>1. /\ ends \in Maps(Generations, {"stop", "install", "backend"})
      /\ DOMAIN ends = DOMAIN w.endedBy \cup {w.gen} /\ ends[w.gen] = why
      /\ \A x \in DOMAIN w.endedBy : x # w.gen => ends[x] = w.endedBy[x]
  BY EndFacts
<1>2. q = [w EXCEPT !.gen = w.gen + 1, !.endedBy = ends]
  BY DEF AdvanceRenderGeneration, Pipelines
<1> HIDE DEF ends
<1>3. q \in Pipelines
  BY <1>1, <1>2 DEF Pipelines
<1>4. /\ q.gen = w.gen + 1 /\ q.dec = w.dec /\ q.dgen = w.dgen
      /\ q.queue = w.queue /\ q.present = w.present /\ q.stale = w.stale
      /\ q.leased = w.leased /\ q.deferred = w.deferred /\ q.pool = w.pool
      /\ q.lost = w.lost /\ q.twice = w.twice /\ q.retired = w.retired /\ q.endedBy = ends
  BY <1>2 DEF Pipelines
<1> QED
  BY <1>1, <1>3, <1>4

\* What an operation that opens a generation establishes.
Opened(p, q, H) ==
    /\ Exact(q, H) /\ q.gen = p.gen + 1 /\ q.queue = << >> /\ q.present = NoLease
    /\ \A d \in Decoders : q.pool[d] \subseteq p.pool[d]

\* reset_media_state.
LEMMA StopKeeps ==
  ASSUME NEW H \in SUBSET Tokens, NEW p, TokensOK(H), Exact(p, H), p.gen + 1 \in Generations,
         NEW q, q = Stopped(p)
  PROVE  Opened(p, q, H) /\ q.dec = p.dec /\ q.dgen = 0
<1> DEFINE w == WithoutFrames(p)
           r == AdvanceRenderGeneration(w, "stop")
<1>1. /\ Exact(w, H) /\ w.dec = p.dec /\ w.gen = p.gen /\ w.queue = << >>
      /\ w.present = NoLease /\ \A d \in Decoders : w.pool[d] \subseteq p.pool[d]
  BY WithoutFramesKeeps
<1> HIDE DEF w
<1>2. w \in Pipelines /\ w.gen + 1 \in Generations
  BY <1>1 DEF Exact
<1>3. /\ r \in Pipelines
      /\ r.gen = w.gen + 1 /\ r.dec = w.dec
      /\ r.queue = w.queue /\ r.present = w.present
      /\ r.leased = w.leased /\ r.deferred = w.deferred /\ r.pool = w.pool
      /\ r.lost = w.lost /\ r.twice = w.twice /\ r.retired = w.retired
      /\ DOMAIN r.endedBy = DOMAIN w.endedBy \cup {w.gen} /\ r.endedBy[w.gen] = "stop"
      /\ \A x \in DOMAIN w.endedBy : x # w.gen => r.endedBy[x] = w.endedBy[x]
  BY <1>2, AdvanceEffect
<1>4. q = [r EXCEPT !.dgen = 0, !.stale = FALSE]
  BY DEF Stopped, w
<1> HIDE DEF r
<1>5. 0 \in Generations /\ FALSE \in BOOLEAN
  BY Bounds
<1>6. /\ q \in Pipelines /\ q.gen = r.gen /\ q.dec = r.dec /\ q.dgen = 0
      /\ q.queue = r.queue /\ q.present = r.present
      /\ q.leased = r.leased /\ q.deferred = r.deferred /\ q.pool = r.pool
      /\ q.lost = r.lost /\ q.twice = r.twice /\ q.retired = r.retired
      /\ q.endedBy = r.endedBy
  BY <1>3, <1>4, <1>5 DEF Pipelines
<1>7. Advanced(w, q, "stop")
  BY <1>1, <1>3, <1>6 DEF Advanced
<1>8. Exact(q, H)
  BY <1>1, <1>6, <1>7, AdvanceKeeps
<1> QED
  BY <1>1, <1>3, <1>6, <1>8 DEF Opened

\* commit_staged_media, with no decoder or one that has made no frame.
LEMMA InstallKeeps ==
  ASSUME NEW H \in SUBSET Tokens, NEW p, TokensOK(H), Exact(p, H), p.gen + 1 \in Generations,
         NEW d \in 0 .. MaxDecoders, d # 0 => p.pool[d] = {},
         NEW q, q = Installed(p, d)
  PROVE  Opened(p, q, H) /\ q.dec = d /\ q.dgen = 0
<1> DEFINE w == WithoutFrames(p)
           r == AdvanceRenderGeneration(w, "install")
           s == [r EXCEPT !.dec = d, !.dgen = 0, !.stale = FALSE]
<1>1. /\ Exact(w, H) /\ w.dec = p.dec /\ w.gen = p.gen /\ w.queue = << >>
      /\ w.present = NoLease /\ \A e \in Decoders : w.pool[e] \subseteq p.pool[e]
  BY WithoutFramesKeeps
<1> HIDE DEF w
<1>2. w \in Pipelines /\ w.gen + 1 \in Generations
  BY <1>1 DEF Exact
<1>3. /\ r \in Pipelines
      /\ r.gen = w.gen + 1 /\ r.dec = w.dec
      /\ r.queue = w.queue /\ r.present = w.present
      /\ r.leased = w.leased /\ r.deferred = w.deferred /\ r.pool = w.pool
      /\ r.lost = w.lost /\ r.twice = w.twice /\ r.retired = w.retired
      /\ DOMAIN r.endedBy = DOMAIN w.endedBy \cup {w.gen} /\ r.endedBy[w.gen] = "install"
      /\ \A x \in DOMAIN w.endedBy : x # w.gen => r.endedBy[x] = w.endedBy[x]
  BY <1>2, AdvanceEffect
<1>4. q = RetainRetired(s, w.gen, w.dec)
  BY <1>1 DEF Installed, NextMedium, w
<1> HIDE DEF r
<1>5. 0 \in Generations /\ FALSE \in BOOLEAN
  BY Bounds
<1>6. /\ s \in Pipelines /\ s.gen = r.gen /\ s.dec = d /\ s.dgen = 0
      /\ s.queue = r.queue /\ s.present = r.present
      /\ s.leased = r.leased /\ s.deferred = r.deferred /\ s.pool = r.pool
      /\ s.lost = r.lost /\ s.twice = r.twice /\ s.retired = r.retired
      /\ s.endedBy = r.endedBy
  BY <1>3, <1>5 DEF Pipelines
<1> HIDE DEF s
<1>7. d \in {0, w.dec} \/ w.pool[d] = {}
  <2>1. d # 0 => d \in Decoders
    BY DEF Decoders
  <2> QED
    BY <1>1, <2>1
<1>8. HasLeasesForGeneration(s, w.gen) <=> HasLeasesForGeneration(w, w.gen)
  BY <1>3, <1>6 DEF HasLeasesForGeneration
<1>9. q \in Pipelines /\ Advanced(w, q, "install") /\ q.dec = d /\ q.dgen = 0 /\ q.pool = w.pool
  <2>1. CASE w.dec = 0 \/ ~HasLeasesForGeneration(w, w.gen)
    <3>1. q = s
      BY <1>4, <1>8, <2>1 DEF RetainRetired
    <3> QED
      BY <1>1, <1>3, <1>6, <1>7, <2>1, <3>1 DEF Advanced
  <2>2. CASE w.dec # 0 /\ HasLeasesForGeneration(w, w.gen)
    <3> DEFINE kept == Insert(s.retired, w.gen, w.dec)
    <3>1. w.dec \in Decoders /\ w.gen \in Generations
      BY <1>2, <2>2, Fields DEF Decoders
    <3>5. /\ s.retired \in Maps(Generations, Decoders)
          /\ kept = [x \in DOMAIN s.retired \cup {w.gen} |->
                       IF x = w.gen THEN w.dec ELSE s.retired[x]]
      BY <1>6, Fields DEF Insert
    <3>6. q = [s EXCEPT !.retired = kept]
      BY <1>4, <1>6, <1>8, <2>2 DEF RetainRetired, Pipelines
    <3> HIDE DEF kept
    <3>2. /\ kept \in Maps(Generations, Decoders)
          /\ DOMAIN kept = DOMAIN s.retired \cup {w.gen} /\ kept[w.gen] = w.dec
          /\ \A x \in DOMAIN s.retired : x # w.gen => kept[x] = s.retired[x]
      <4> DEFINE old == s.retired
      <4>1. old \in Maps(Generations, Decoders)
        BY <3>5
      <4>2. kept = [x \in DOMAIN old \cup {w.gen} |-> IF x = w.gen THEN w.dec ELSE old[x]]
        BY <3>5
      <4> HIDE DEF old
      <4>3. /\ kept \in Maps(Generations, Decoders)
            /\ DOMAIN kept = DOMAIN old \cup {w.gen} /\ kept[w.gen] = w.dec
            /\ \A x \in DOMAIN old : x # w.gen => kept[x] = old[x]
        <5>1. DOMAIN old \subseteq Generations /\ \A x \in DOMAIN old : old[x] \in Decoders
          BY <4>1, MapFacts
        <5>2. kept \in [DOMAIN old \cup {w.gen} -> Decoders]
          BY <3>1, <4>2, <5>1
        <5>3. DOMAIN old \cup {w.gen} \in SUBSET Generations
          BY <3>1, <5>1
        <5>4. kept \in Maps(Generations, Decoders)
          BY <5>2, <5>3 DEF Maps
        <5> QED
          BY <4>2, <5>4
      <4> QED
        BY <4>3 DEF old
    <3>4. /\ q \in Pipelines /\ q.gen = s.gen /\ q.dec = s.dec /\ q.dgen = s.dgen
          /\ q.queue = s.queue /\ q.present = s.present
          /\ q.leased = s.leased /\ q.deferred = s.deferred /\ q.pool = s.pool
          /\ q.lost = s.lost /\ q.twice = s.twice /\ q.retired = kept
          /\ q.endedBy = s.endedBy
      BY <1>6, <3>2, <3>6 DEF Pipelines
    <3> QED
      BY <1>1, <1>3, <1>6, <1>7, <2>2, <3>2, <3>4 DEF Advanced
  <2> QED
    BY <2>1, <2>2
<1>10. Exact(q, H)
  BY <1>1, <1>9, AdvanceKeeps
<1>11. q.gen = w.gen + 1 /\ q.queue = << >> /\ q.present = NoLease
  BY <1>9 DEF Advanced
<1> QED
  BY <1>1, <1>9, <1>10, <1>11 DEF Opened

\* install_video_backend_with_intent, with the new decoder or the old one.
LEMMA SwapKeeps ==
  ASSUME NEW H \in SUBSET Tokens, NEW p, TokensOK(H), Exact(p, H), p.gen + 1 \in Generations,
         NEW d \in 0 .. MaxDecoders, d # p.dec => d # 0 /\ p.pool[d] = {},
         NEW q, q = Swapped(p, d)
  PROVE  Opened(p, q, H) /\ q.dec = d /\ q.dgen = p.dgen
<1> DEFINE w == WithoutFrames(p)
           r == AdvanceRenderGeneration(w, "backend")
<1>1. /\ Exact(w, H) /\ w.dec = p.dec /\ w.gen = p.gen /\ w.queue = << >>
      /\ w.dgen = p.dgen
      /\ w.present = NoLease /\ \A e \in Decoders : w.pool[e] \subseteq p.pool[e]
  BY WithoutFramesKeeps
<1> HIDE DEF w
<1>2. w \in Pipelines /\ w.gen + 1 \in Generations
  BY <1>1 DEF Exact
<1>3. /\ r \in Pipelines
      /\ r.gen = w.gen + 1 /\ r.dec = w.dec /\ r.dgen = w.dgen
      /\ r.queue = w.queue /\ r.present = w.present
      /\ r.leased = w.leased /\ r.deferred = w.deferred /\ r.pool = w.pool
      /\ r.lost = w.lost /\ r.twice = w.twice /\ r.retired = w.retired
      /\ DOMAIN r.endedBy = DOMAIN w.endedBy \cup {w.gen} /\ r.endedBy[w.gen] = "backend"
      /\ \A x \in DOMAIN w.endedBy : x # w.gen => r.endedBy[x] = w.endedBy[x]
  BY <1>2, AdvanceEffect
<1>4. q = [r EXCEPT !.dec = d]
  BY DEF Swapped, w
<1> HIDE DEF r
<1>6. /\ q \in Pipelines /\ q.gen = r.gen /\ q.dec = d /\ q.dgen = r.dgen
      /\ q.queue = r.queue /\ q.present = r.present
      /\ q.leased = r.leased /\ q.deferred = r.deferred /\ q.pool = r.pool
      /\ q.lost = r.lost /\ q.twice = r.twice /\ q.retired = r.retired
      /\ q.endedBy = r.endedBy
  BY <1>3, <1>4 DEF Pipelines
<1>7. d \in {0, w.dec} \/ w.pool[d] = {}
  <2>1. d # 0 => d \in Decoders
    BY DEF Decoders
  <2> QED
    BY <1>1, <2>1
<1>8. Advanced(w, q, "backend")
  BY <1>1, <1>3, <1>6, <1>7 DEF Advanced
<1>9. Exact(q, H)
  BY <1>1, <1>6, <1>8, AdvanceKeeps
<1> QED
  BY <1>1, <1>3, <1>6, <1>9 DEF Opened

\* install_video_backend_with_intent where there was no decoder.
LEMMA FirstBackendKeeps ==
  ASSUME NEW H \in SUBSET Tokens, NEW p, Exact(p, H), p.dec = 0,
         NEW d \in Decoders, p.pool[d] = {}, NEW q, q = WithDecoder(p, d)
  PROVE  /\ Exact(q, H) /\ q.dec = d /\ q.gen = p.gen /\ q.dgen = p.dgen
         /\ q.queue = p.queue /\ q.present = NoLease /\ q.pool = p.pool
<1>1. p \in Pipelines /\ HeldOK(p, H) /\ OldOK(p) /\ OwnOK(p)
      /\ TableOK(p, H) /\ DeferOK(p, H) /\ SlotsOK(p, H) /\ RetiredOK(p, H)
  BY DEF Exact, Accounting
<1>2. d \in 0 .. MaxDecoders
  BY Bounds DEF Decoders
<1>3. /\ q \in Pipelines /\ q.gen = p.gen /\ q.dec = d /\ q.dgen = p.dgen
      /\ q.queue = p.queue /\ q.present = p.present
      /\ q.leased = p.leased /\ q.deferred = p.deferred /\ q.pool = p.pool
      /\ q.lost = p.lost /\ q.twice = p.twice /\ q.retired = p.retired
      /\ q.endedBy = p.endedBy
  BY <1>1, <1>2 DEF Pipelines, WithDecoder
<1>4. p.queue = << >> /\ p.present = NoLease
  BY <1>1 DEF OwnOK
<1>5. HeldOK(q, H)
  <2>1. \A t \in H : t.dec # 0
    BY Bounds DEF Tokens
  <2> QED
    BY <1>1, <1>3, <2>1 DEF HeldOK
<1>6. OldOK(q)
  BY <1>1, <1>3 DEF OldOK, HasLeasesForGeneration
<1>7. OwnOK(q)
  BY <1>3, <1>4 DEF OwnOK
<1>8. TableOK(q, H) /\ RetiredOK(q, H)
  BY <1>1, <1>3 DEF TableOK, RetiredOK
<1>9. DeferOK(q, H)
  <2>1. \A h : ~Owned(q, h)
    BY <1>3, <1>4 DEF Owned
  <2>2. \A t \in H : <<t.gen, t.h>> \in q.deferred
    BY <1>1, <1>3, <1>4 DEF DeferOK
  <2> QED
    BY <2>1, <2>2 DEF DeferOK
<1>10. SlotsOK(q, H)
  BY <1>3 DEF SlotsOK
<1> QED
  BY <1>3, <1>4, <1>5, <1>6, <1>7, <1>8, <1>9, <1>10 DEF Exact, Accounting

-----------------------------------------------------------------------------
(* Seeking, decoding and leasing *)

Sought(p) == [ClearQueued(p) EXCEPT !.dgen = @ + 1, !.stale = p.present # NoLease]

\* A seek keeps the picture and opens a decoded generation.
LEMMA SeekKeeps ==
  ASSUME NEW H \in SUBSET Tokens, NEW p, TokensOK(H), Exact(p, H), p.dgen + 1 \in Generations,
         NEW q, q = Sought(p)
  PROVE  /\ Exact(q, H) /\ q.dec = p.dec /\ q.gen = p.gen /\ q.dgen = p.dgen + 1
         /\ q.queue = << >> /\ q.present = p.present
         /\ \A d \in Decoders : q.pool[d] \subseteq p.pool[d]
<1> DEFINE w == ClearQueued(p)
<1>1. /\ Exact(w, H) /\ w.dec = p.dec /\ w.gen = p.gen /\ w.endedBy = p.endedBy
      /\ w.dgen = p.dgen /\ w.queue = << >> /\ w.present = p.present
      /\ \A d \in Decoders : w.pool[d] \subseteq p.pool[d]
  BY ClearQueuedKeeps
<1>2. q = [w EXCEPT !.dgen = @ + 1, !.stale = p.present # NoLease]
  BY DEF Sought
<1> HIDE DEF w
<1>3. w \in Pipelines /\ HeldOK(w, H) /\ OldOK(w) /\ OwnOK(w)
      /\ TableOK(w, H) /\ DeferOK(w, H) /\ SlotsOK(w, H) /\ RetiredOK(w, H)
  BY <1>1 DEF Exact, Accounting
<1>4. w.dgen + 1 \in Generations /\ (p.present # NoLease) \in BOOLEAN
  BY <1>1
<1>5. /\ q \in Pipelines /\ q.gen = w.gen /\ q.dec = w.dec /\ q.dgen = w.dgen + 1
      /\ q.queue = w.queue /\ q.present = w.present
      /\ q.leased = w.leased /\ q.deferred = w.deferred /\ q.pool = w.pool
      /\ q.lost = w.lost /\ q.twice = w.twice /\ q.retired = w.retired
      /\ q.endedBy = w.endedBy
  BY <1>2, <1>3, <1>4 DEF Pipelines
<1>6. HeldOK(q, H)
  BY <1>3, <1>5 DEF HeldOK
<1>7. OldOK(q)
  BY <1>3, <1>5 DEF OldOK, HasLeasesForGeneration
<1>8. OwnOK(q)
  <2>1. w.present # NoLease => w.present.dgen <= w.dgen + 1
    <3>1. w.present # NoLease => w.present.dgen <= w.dgen /\ w.present.dgen \in Nat
      BY <1>3, FrameFacts, Bounds DEF OwnOK
    <3>2. w.dgen \in Nat
      BY <1>3, Fields, Bounds
    <3> QED
      BY <3>1, <3>2
  <2>2. DOMAIN q.queue = {}
    BY <1>1, <1>5
  <2> QED
    BY <1>1, <1>3, <1>5, <2>1, <2>2 DEF OwnOK
<1>9. TableOK(q, H) /\ RetiredOK(q, H)
  BY <1>3, <1>5 DEF TableOK, RetiredOK
<1>10. \A h : Owned(q, h) <=> Owned(w, h)
  BY <1>5 DEF Owned
<1>11. DeferOK(q, H)
  BY <1>3, <1>5, <1>10 DEF DeferOK
<1>12. SlotsOK(q, H)
  BY <1>3, <1>5, <1>10 DEF SlotsOK
<1> QED
  BY <1>1, <1>5, <1>6, <1>7, <1>8, <1>9, <1>11, <1>12 DEF Exact, Accounting

Decoded(p, d, h) ==
    [p EXCEPT !.pool[d] = @ \cup {h},
              !.queue = Append(@, [dec |-> d, h |-> h, dgen |-> p.dgen])]

\* q is p with the frame h of the decoder d at the end of its queue.
Received(p, q, d, h) ==
    /\ q.dec = p.dec /\ q.gen = p.gen /\ q.dgen = p.dgen
    /\ q.present = p.present
    /\ DOMAIN q.queue = 1 .. Len(p.queue) + 1
    /\ \A i \in 1 .. Len(p.queue) : q.queue[i] = p.queue[i]
    /\ q.queue[Len(p.queue) + 1].h = h
    /\ q.pool[d] = p.pool[d] \cup {h}
    /\ \A e \in Decoders : e # d => q.pool[e] = p.pool[e]

\* A new frame of the active decoder.
LEMMA DecodeKeeps ==
  ASSUME NEW H \in SUBSET Tokens, NEW p, Exact(p, H), NEW d \in Decoders, d = p.dec,
         NEW h \in Handles, \A x \in p.pool[d] : x < h,
         NEW q, q = Decoded(p, d, h)
  PROVE  Exact(q, H) /\ Received(p, q, d, h)
<1> USE DEF Received
<1> DEFINE f == [dec |-> d, h |-> h, dgen |-> p.dgen]
           n == Len(p.queue) + 1
<1>1. p \in Pipelines /\ HeldOK(p, H) /\ OldOK(p) /\ OwnOK(p)
      /\ TableOK(p, H) /\ DeferOK(p, H) /\ SlotsOK(p, H) /\ RetiredOK(p, H)
  BY DEF Exact, Accounting
<1>2. f \in Frames /\ f.dec = d /\ f.h = h /\ f.dgen = p.dgen /\ p.dgen \in Generations
  BY <1>1, Fields DEF Frames
<1>3. p.pool \in [Decoders -> SUBSET Handles] /\ p.queue \in Seq(Frames) /\ p.gen \in Generations
  BY <1>1, Fields
<1>4. q = [p EXCEPT !.pool = [p.pool EXCEPT ![d] = @ \cup {h}], !.queue = Append(p.queue, f)]
  BY <1>1 DEF Decoded, Pipelines
<1> HIDE DEF f
<1>5. /\ Append(p.queue, f) \in Seq(Frames) /\ Len(p.queue) \in Nat
      /\ DOMAIN Append(p.queue, f) = 1 .. n /\ DOMAIN p.queue = 1 .. Len(p.queue)
      /\ \A i \in 1 .. Len(p.queue) : Append(p.queue, f)[i] = p.queue[i]
      /\ Append(p.queue, f)[n] = f
  BY <1>2, <1>3
<1>6. [p.pool EXCEPT ![d] = @ \cup {h}] \in [Decoders -> SUBSET Handles]
  BY <1>3
<1>7. /\ q \in Pipelines /\ q.gen = p.gen /\ q.dec = p.dec /\ q.dgen = p.dgen
      /\ q.queue = Append(p.queue, f) /\ q.present = p.present
      /\ q.leased = p.leased /\ q.deferred = p.deferred
      /\ q.pool = [p.pool EXCEPT ![d] = @ \cup {h}]
      /\ q.lost = p.lost /\ q.twice = p.twice /\ q.retired = p.retired
      /\ q.endedBy = p.endedBy
  BY <1>1, <1>4, <1>5, <1>6 DEF Pipelines
<1>8. /\ q.pool[d] = p.pool[d] \cup {h} /\ \A e \in Decoders : e # d => q.pool[e] = p.pool[e]
  BY <1>3, <1>7
<1>9. /\ DOMAIN q.queue = 1 .. n /\ \A i \in 1 .. Len(p.queue) : q.queue[i] = p.queue[i]
      /\ q.queue[n] = f
  BY <1>5, <1>7
<1>10. \A e \in Decoders : p.pool[e] \subseteq q.pool[e]
  <2> SUFFICES ASSUME NEW e \in Decoders PROVE p.pool[e] \subseteq q.pool[e]
    OBVIOUS
  <2>1. CASE e = d
    BY <1>8, <2>1
  <2> QED
    BY <1>8, <2>1
<1>11. h \notin p.pool[d]
  BY Bounds
<1>12. \A x : Owned(q, x) <=> Owned(p, x) \/ x = h
  <2>1. \A x : (\E i \in DOMAIN q.queue : x = q.queue[i].h) <=>
                  (\E i \in DOMAIN p.queue : x = p.queue[i].h) \/ x = h
    <3>1. \A i \in 1 .. n : i \in 1 .. Len(p.queue) \/ i = n
      BY <1>5
    <3>2. 1 .. Len(p.queue) \subseteq 1 .. n /\ n \in 1 .. n
      BY <1>5
    <3>3. DOMAIN q.queue = 1 .. n /\ DOMAIN p.queue = 1 .. Len(p.queue) /\ q.queue[n].h = h
      BY <1>2, <1>5, <1>9
    <3>4. \A i \in DOMAIN p.queue : q.queue[i].h = p.queue[i].h /\ i \in DOMAIN q.queue
      BY <1>9, <3>2, <3>3
    <3>5. \A i \in DOMAIN q.queue : i \in DOMAIN p.queue \/ i = n
      BY <3>1, <3>3
    <3>6. n \in DOMAIN q.queue
      BY <3>2, <3>3
    <3> HIDE DEF n
    <3> QED
      BY <3>3, <3>4, <3>5, <3>6
  <2>2. q.present = p.present
    BY <1>7
  <2> QED
    BY <2>1, <2>2 DEF Owned
<1>13. HeldOK(q, H)
  <2>1. \A t \in H : t.dec \in Decoders
    BY DEF Tokens
  <2> QED
    BY <1>1, <1>7, <1>10, <2>1 DEF HeldOK
<1>14. OldOK(q)
  BY <1>1, <1>7 DEF OldOK, HasLeasesForGeneration
<1>15. OwnOK(q)
  <2>1. \A i \in DOMAIN p.queue : p.queue[i].h < h /\ p.queue[i].h \in q.pool[d]
    BY <1>1, <1>10 DEF OwnOK
  <2>2. \A i \in DOMAIN q.queue :
           /\ q.queue[i].dec = q.dec /\ q.queue[i].dgen = q.dgen /\ q.queue[i].h \in q.pool[q.dec]
    <3> SUFFICES ASSUME NEW i \in DOMAIN q.queue
                 PROVE  /\ q.queue[i].dec = q.dec /\ q.queue[i].dgen = q.dgen
                        /\ q.queue[i].h \in q.pool[q.dec]
      OBVIOUS
    <3>1. CASE i \in 1 .. Len(p.queue)
      BY <1>1, <1>5, <1>7, <1>9, <2>1, <3>1 DEF OwnOK
    <3>2. CASE i = n
      BY <1>2, <1>7, <1>8, <1>9, <3>2
    <3> QED
      BY <1>5, <1>9, <3>1, <3>2
  <2>3. \A i, j \in DOMAIN q.queue : i < j => q.queue[i].h < q.queue[j].h
    <3> SUFFICES ASSUME NEW i \in DOMAIN q.queue, NEW j \in DOMAIN q.queue, i < j
                 PROVE  q.queue[i].h < q.queue[j].h
      OBVIOUS
    <3>1. i \in 1 .. Len(p.queue) /\ (j \in 1 .. Len(p.queue) \/ j = n)
      BY <1>5, <1>9
    <3>2. CASE j = n
      BY <1>2, <1>5, <1>9, <2>1, <3>1, <3>2
    <3>3. CASE j \in 1 .. Len(p.queue)
      BY <1>1, <1>5, <1>9, <3>1, <3>3 DEF OwnOK
    <3> QED
      BY <3>1, <3>2, <3>3
  <2>4. p.present # NoLease => \A i \in DOMAIN q.queue : p.present.h < q.queue[i].h
    <3> SUFFICES ASSUME p.present # NoLease, NEW i \in DOMAIN q.queue
                 PROVE  p.present.h < q.queue[i].h
      OBVIOUS
    <3>1. CASE i \in 1 .. Len(p.queue)
      BY <1>1, <1>5, <1>9, <3>1 DEF OwnOK
    <3>2. CASE i = n
      BY <1>1, <1>2, <1>9, <3>2 DEF OwnOK
    <3> QED
      BY <1>5, <1>9, <3>1, <3>2
  <2>5. p.present # NoLease => /\ p.present.dec = p.dec /\ p.present.dgen <= p.dgen
                               /\ p.present.h \in q.pool[d]
    BY <1>1, <1>10 DEF OwnOK
  <2>6. q.dec # 0 /\ q.dec = d
    BY <1>7, Bounds
  <2> QED
    BY <1>7, <2>2, <2>3, <2>4, <2>5, <2>6 DEF OwnOK
<1>16. TableOK(q, H) /\ RetiredOK(q, H)
  BY <1>1, <1>7 DEF TableOK, RetiredOK
<1>17. DeferOK(q, H)
  <2>1. \A t \in H : t.dec = d => t.h # h
    BY <1>1, <1>11 DEF HeldOK
  <2> QED
    BY <1>1, <1>7, <1>12, <2>1 DEF DeferOK
<1>18. SlotsOK(q, H)
  <2> SUFFICES ASSUME NEW x \in q.pool[d], ~Owned(q, x)
               PROVE  \/ \E t \in H : t.dec = d /\ t.h = x /\ <<t.gen, t.h>> \in p.deferred
                      \/ \E g \in p.lost : g.dec = d /\ g.h = x
    <3>1. q.dec = d /\ q.deferred = p.deferred /\ q.lost = p.lost
      BY <1>7
    <3> QED
      BY <3>1 DEF SlotsOK
  <2>1. x \in p.pool[d] /\ ~Owned(p, x)
    BY <1>8, <1>12
  <2> QED
    BY <1>1, <2>1, Bounds DEF SlotsOK
<1> QED
  BY <1>2, <1>7, <1>8, <1>9, <1>13, <1>14, <1>15, <1>16, <1>17, <1>18 DEF Exact, Accounting

Registered(p) == TryRegisterRenderLease(p, <<p.gen, p.present.h>>)

\* The present frame, which no token has yet, is leased.
LEMMA RegisterKeeps ==
  ASSUME NEW H \in SUBSET Tokens, NEW p, TokensOK(H), Exact(p, H), p.present # NoLease,
         PresentToken(p) \notin H, NEW q, q = Registered(p)
  PROVE  /\ Exact(q, H \cup {PresentToken(p)}) /\ TokensOK(H \cup {PresentToken(p)})
         /\ SameSession(p, q) /\ q.pool = p.pool
<1> DEFINE T == PresentToken(p)
           G == H \cup {T}
           k == <<p.gen, p.present.h>>
           more == [x \in DOMAIN p.leased \cup {k} |-> IF x = k THEN 1 ELSE p.leased[x]]
<1>1. p \in Pipelines /\ HeldOK(p, H) /\ OldOK(p) /\ OwnOK(p)
      /\ TableOK(p, H) /\ DeferOK(p, H) /\ SlotsOK(p, H) /\ RetiredOK(p, H)
  BY DEF Exact, Accounting
<1>2. /\ p.gen \in Generations /\ p.present.h \in Handles /\ p.present.dec \in Decoders
      /\ p.present.dec = p.dec /\ p.present.h \in p.pool[p.dec]
  BY <1>1, Fields, FrameFacts DEF OwnOK
<1>3. /\ T \in Tokens /\ T.gen = p.gen /\ T.dec = p.dec /\ T.h = p.present.h
      /\ <<T.gen, T.h>> = k /\ k[1] = p.gen
  BY <1>2 DEF PresentToken, Tokens
<1>4. \A t \in H : /\ t \in Tokens /\ t.gen \in Generations /\ t.dec \in Decoders
                   /\ t.h \in Handles
  BY DEF Tokens
<1>5. \A s \in Tokens : s.gen = T.gen /\ s.dec = T.dec /\ s.h = T.h => s = T
  <2> HIDE DEF T
  <2> QED
    BY <1>3 DEF Tokens
<1>6. \A s \in H : ~(s.dec = T.dec /\ s.h = T.h) /\ ~(s.gen = T.gen /\ s.h = T.h)
  <2> SUFFICES ASSUME NEW s \in H, s.h = T.h, s.dec = T.dec \/ s.gen = T.gen PROVE FALSE
    OBVIOUS
  <2>1. s.dec = p.dec
    BY <1>1, <1>3 DEF HeldOK
  <2>2. Owned(p, s.h)
    BY <1>3 DEF Owned
  <2>3. s.gen = p.gen
    BY <1>1, <2>1, <2>2 DEF DeferOK
  <2>4. s = T
    BY <1>3, <1>4, <1>5, <2>1, <2>3
  <2> QED
    BY <2>4
<1>7. \A t \in G : t \in H \/ t = T
  OBVIOUS
<1>8. H \subseteq G /\ T \in G
  OBVIOUS
<1>9. k \notin DOMAIN p.leased
  <2> SUFFICES ASSUME k \in DOMAIN p.leased PROVE FALSE
    OBVIOUS
  <2>1. PICK t \in H : k = <<t.gen, t.h>>
    BY <1>1 DEF TableOK
  <2> QED
    BY <1>3, <1>6, <2>1
<1>10. q = [p EXCEPT !.leased = more]
  BY <1>1, <1>9 DEF Registered, TryRegisterRenderLease, Insert, Pipelines
<1>11. more \in Maps(Keys, Nat)
  <2>1. p.leased \in Maps(Keys, Nat)
    BY <1>1, Fields
  <2>2. DOMAIN p.leased \subseteq Keys /\ \A x \in DOMAIN p.leased : p.leased[x] \in Nat
    BY <2>1, MapFacts
  <2>3. k \in Keys
    BY <1>2 DEF Keys
  <2> HIDE DEF k
  <2>4. more \in [DOMAIN p.leased \cup {k} -> Nat]
    BY <2>2
  <2>5. DOMAIN p.leased \cup {k} \in SUBSET Keys
    BY <2>2, <2>3
  <2> QED
    BY <2>4, <2>5 DEF Maps
<1>12. /\ DOMAIN more = DOMAIN p.leased \cup {k} /\ more[k] = 1
       /\ \A x \in DOMAIN p.leased : more[x] = p.leased[x]
  <2> HIDE DEF k
  <2> QED
    BY <1>9
<1> HIDE DEF more
<1>13. /\ q \in Pipelines /\ SameSession(p, q) /\ q.leased = more
       /\ q.deferred = p.deferred /\ q.pool = p.pool
       /\ q.lost = p.lost /\ q.twice = p.twice /\ q.retired = p.retired
  BY <1>1, <1>10, <1>11 DEF Pipelines, SameSession
<1>14. /\ q.dec = p.dec /\ q.gen = p.gen /\ q.dgen = p.dgen /\ q.queue = p.queue
       /\ q.present = p.present /\ q.endedBy = p.endedBy
  BY <1>13 DEF SameSession
<1> HIDE DEF k, T, G
<1>15. TokensOK(G)
  BY <1>1, <1>3, <1>6, <1>7 DEF TokensOK, HeldOK
<1>16. HeldOK(q, G)
  <2> SUFFICES ASSUME NEW t \in G
               PROVE  t.h \in p.pool[t.dec] /\ t.gen <= p.gen /\ (t.gen = p.gen => t.dec = p.dec)
    BY <1>13, <1>14 DEF HeldOK
  <2>1. CASE t = T
    BY <1>2, <1>3, <2>1, Bounds
  <2>2. CASE t \in H
    BY <1>1, <2>2 DEF HeldOK
  <2> QED
    BY <1>7, <2>1, <2>2
<1>17. OldOK(q)
  <2>1. \A x \in DOMAIN q.leased : x[1] # p.gen => x \in DOMAIN p.leased
    BY <1>3, <1>12, <1>13
  <2>2. DOMAIN p.leased \subseteq DOMAIN q.leased
    BY <1>12, <1>13
  <2> QED
    BY <1>1, <1>13, <1>14, <2>1, <2>2 DEF OldOK, HasLeasesForGeneration
<1>18. OwnOK(q)
  BY <1>1, <1>13, <1>14 DEF OwnOK
<1>19. TableOK(q, G)
  <2>1. \A x \in DOMAIN q.leased : x \in DOMAIN p.leased \/ x = k
    BY <1>12, <1>13
  <2>2. \A x \in DOMAIN q.leased : \E t \in G : x = <<t.gen, t.h>>
    BY <1>1, <1>3, <1>8, <2>1 DEF TableOK
  <2>3. \A t \in G : <<t.gen, t.h>> \in DOMAIN q.leased
    BY <1>1, <1>3, <1>7, <1>12, <1>13 DEF TableOK
  <2>4. \A x \in DOMAIN q.leased : q.leased[x] = 1
    BY <1>1, <1>12, <1>13, <2>1 DEF TableOK
  <2>5. q.deferred \subseteq DOMAIN q.leased
    BY <1>1, <1>12, <1>13 DEF TableOK
  <2> QED
    BY <2>2, <2>3, <2>4, <2>5 DEF TableOK
<1>20. \A h : Owned(q, h) <=> Owned(p, h)
  BY <1>14 DEF Owned
<1>21. DeferOK(q, G)
  <2> SUFFICES ASSUME NEW t \in G
               PROVE  /\ \/ <<t.gen, t.h>> \in p.deferred
                         \/ t.gen = p.gen /\ p.present # NoLease /\ p.present.h = t.h
                      /\ <<t.gen, t.h>> \in p.deferred /\ t.dec = p.dec => ~Owned(p, t.h)
    BY <1>13, <1>14, <1>20 DEF DeferOK
  <2>1. CASE t = T
    <3>1. k \notin p.deferred
      BY <1>1, <1>9 DEF TableOK
    <3> QED
      BY <1>3, <2>1, <3>1
  <2>2. CASE t \in H
    BY <1>1, <2>2 DEF DeferOK
  <2> QED
    BY <1>7, <2>1, <2>2
<1>22. SlotsOK(q, G)
  BY <1>1, <1>8, <1>13, <1>14, <1>20 DEF SlotsOK
<1>23. RetiredOK(q, G)
  <2>1. T.gen \notin DOMAIN p.retired
    <3>1. \A g \in DOMAIN p.retired : g < p.gen /\ g \in Nat
      BY <1>1, TableKeys, Bounds DEF OldOK
    <3> QED
      BY <1>3, <3>1
  <2> QED
    BY <1>1, <1>7, <1>13, <2>1 DEF RetiredOK
<1> QED
  BY <1>13, <1>15, <1>16, <1>17, <1>18, <1>19, <1>21, <1>22, <1>23 DEF Exact, Accounting, G, T

-----------------------------------------------------------------------------
(* Dropping leases *)

Room(w, q) == IF w = "ended" THEN 0 ELSE RENDER_RELEASE_CHANNEL_CAPACITY - Len(q)
Sent(dead, w, q) == Min({Room(w, q), Cardinality(dead)})

\* What the drops of the leases dead do to the channel q and the pipeline p.
DropsTo(dead, w, q, r, p, pn, sub) ==
    \E order \in Bijection(1 .. Cardinality(dead), dead) :
        /\ r = q \o [i \in 1 .. Sent(dead, w, q) |-> Ack(order[i], sub)]
        /\ pn = ReleaseWithoutWorker(p, {order[i] : i \in Sent(dead, w, q) + 1 .. Cardinality(dead)})

\* A set with one element more.
LEMMA OneMore ==
  ASSUME NEW S, NEW x, NEW n \in Nat, IsFiniteSet(S), Cardinality(S) <= n
  PROVE  IsFiniteSet(S \cup {x}) /\ Cardinality(S \cup {x}) \in Nat /\ Cardinality(S \cup {x}) <= n + 1
<1>1. Cardinality(S) \in Nat
  BY FS_CardinalityType
<1>2. /\ IsFiniteSet(S \cup {x})
      /\ Cardinality(S \cup {x}) = IF x \in S THEN Cardinality(S) ELSE Cardinality(S) + 1
  BY FS_AddElement
<1> QED
  BY <1>1, <1>2

\* Five leases at most are alive.
LEMMA LiveIsSmall ==
  ASSUME Types
  PROVE  /\ Live \subseteq Leases /\ IsFiniteSet(Live) /\ Cardinality(Live) \in Nat
         /\ Cardinality(Live) <= 5
         /\ \A i \in DOMAIN ho.untaken : ho.untaken[i] \in Live
         /\ ho.taken # NoLease => ho.taken \in Live
         /\ ui.hand # NoLease => ui.hand \in Live
         /\ cached # NoLease => cached \in Live
         /\ \A l \in Live : \/ \E i \in DOMAIN ho.untaken : l = ho.untaken[i]
                            \/ l = ho.taken \/ l = ui.hand \/ l = cached
<1>1. /\ ho.taken \in MaybeLease /\ ho.untaken \in Seq(Leases) /\ Len(ho.untaken) <= 2
      /\ ui.hand \in MaybeLease /\ cached \in MaybeLease
  BY DEF Types, UNTAKEN_PRESENT_FRAME_CAPACITY
<1>2. /\ DOMAIN ho.untaken = 1 .. Len(ho.untaken) /\ Len(ho.untaken) \in Nat
      /\ \A i \in DOMAIN ho.untaken : ho.untaken[i] \in Leases
  BY <1>1
<1>3. \A i \in DOMAIN ho.untaken : i = 1 \/ i = 2
  BY <1>1, <1>2
<1>4. NoLease \notin Leases
  BY NoLeaseAssumption
<1>5. \A l : l \in Live <=> /\ l # NoLease
                            /\ \/ \E i \in DOMAIN ho.untaken : l = ho.untaken[i]
                               \/ l = ho.taken \/ l = ui.hand \/ l = cached
  BY DEF Live, HandoffLeases, Range
<1>6. Live \subseteq Leases
  BY <1>1, <1>2, <1>5 DEF MaybeLease
<1> DEFINE A1 == {ho.untaken[1]}
           A2 == A1 \cup {ho.untaken[2]}
           A3 == A2 \cup {ho.taken}
           A4 == A3 \cup {ui.hand}
           A5 == A4 \cup {cached}
<1>7. Live \subseteq A5
  BY <1>3, <1>5
<1>8. IsFiniteSet(A1) /\ Cardinality(A1) = 1
  BY FS_Singleton
<1> HIDE DEF A1
<1>9. IsFiniteSet(A2) /\ Cardinality(A2) \in Nat /\ Cardinality(A2) <= 2
  <2>1. Cardinality(A1) <= 1 /\ 1 \in Nat /\ 1 + 1 = 2
    BY <1>8
  <2> QED
    BY <1>8, <2>1, OneMore
<1> HIDE DEF A2
<1>10. IsFiniteSet(A3) /\ Cardinality(A3) \in Nat /\ Cardinality(A3) <= 3
  <2>1. Cardinality(A2) <= 2 /\ 2 \in Nat /\ 2 + 1 = 3
    BY <1>9
  <2> QED
    BY <1>9, <2>1, OneMore
<1> HIDE DEF A3
<1>11. IsFiniteSet(A4) /\ Cardinality(A4) \in Nat /\ Cardinality(A4) <= 4
  <2>1. Cardinality(A3) <= 3 /\ 3 \in Nat /\ 3 + 1 = 4
    BY <1>10
  <2> QED
    BY <1>10, <2>1, OneMore
<1> HIDE DEF A4
<1>12. IsFiniteSet(A5) /\ Cardinality(A5) \in Nat /\ Cardinality(A5) <= 5
  <2>1. Cardinality(A4) <= 4 /\ 4 \in Nat /\ 4 + 1 = 5
    BY <1>11
  <2> QED
    BY <1>11, <2>1, OneMore
<1> HIDE DEF A5
<1>13. IsFiniteSet(Live) /\ Cardinality(Live) <= Cardinality(A5)
  BY <1>7, <1>12, FS_Subset
<1>14. Cardinality(Live) \in Nat
  BY <1>13, FS_CardinalityType
<1> QED
  BY <1>2, <1>4, <1>5, <1>6, <1>12, <1>13, <1>14

\* How many acks are sent: all of them, or none when the worker has ended.
LEMMA SentFacts ==
  ASSUME NEW dead, IsFiniteSet(dead), NEW w, NEW q \in Seq(Acks)
  PROVE  /\ w # "ended" /\ Len(q) + Cardinality(dead) <= RENDER_RELEASE_CHANNEL_CAPACITY =>
              Sent(dead, w, q) = Cardinality(dead)
         /\ w = "ended" => Sent(dead, w, q) = 0
<1> DEFINE n == Cardinality(dead)
           a == Room(w, q)
<1>1. n \in Nat /\ Len(q) \in Nat
  BY FS_CardinalityType
<1>2. a \in Int
  BY <1>1 DEF Room, RENDER_RELEASE_CHANNEL_CAPACITY
<1>3. Sent(dead, w, q) = CHOOSE x \in {a, n} : \A y \in {a, n} : x <= y
  BY DEF Sent, Min
<1> HIDE DEF n, a
<1>4. \E x \in {a, n} : \A y \in {a, n} : x <= y
  BY <1>1, <1>2
<1>5. Sent(dead, w, q) \in {a, n} /\ Sent(dead, w, q) <= a /\ Sent(dead, w, q) <= n
  BY <1>3, <1>4
<1>6. n <= a => Sent(dead, w, q) = n
  BY <1>1, <1>2, <1>5
<1>7. a <= n => Sent(dead, w, q) = a
  BY <1>1, <1>2, <1>5
<1>8. w # "ended" /\ Len(q) + n <= RENDER_RELEASE_CHANNEL_CAPACITY => n <= a
  BY <1>1 DEF a, Room, RENDER_RELEASE_CHANNEL_CAPACITY
<1>9. w = "ended" => a = 0
  BY DEF a, Room
<1> QED
  BY <1>1, <1>6, <1>7, <1>8, <1>9 DEF n

\* release_without_worker takes the slots of the leases ls.
LEMMA WithoutWorkerEffect ==
  ASSUME NEW p \in Pipelines, NEW ls \in SUBSET Leases, NEW q, q = ReleaseWithoutWorker(p, ls)
  PROVE  /\ q \in Pipelines /\ SameSession(p, q)
         /\ q.leased = p.leased /\ q.deferred = p.deferred /\ q.retired = p.retired
         /\ q.lost = p.lost
         /\ \A d \in Decoders : q.pool[d] \subseteq p.pool[d]
         /\ \A d \in Decoders : \A h \in p.pool[d] :
               h \in q.pool[d] \/ \E l \in ls : l.dec = d /\ l.h = h
         /\ /\ ~p.twice
            /\ \A l \in ls : l.h \in p.pool[l.dec]
            /\ \A l, m \in ls : l.dec = m.dec /\ l.h = m.h => l = m
            => ~q.twice
<1> DEFINE left == [d \in Decoders |-> p.pool[d] \ {l.h : l \in {x \in ls : x.dec = d}}]
           again == \/ p.twice
                    \/ \E l \in ls : \/ l.h \notin p.pool[l.dec]
                                     \/ \E m \in ls \ {l} : m.dec = l.dec /\ m.h = l.h
<1>1. p.pool \in [Decoders -> SUBSET Handles] /\ p.twice \in BOOLEAN
  BY Fields
<1>2. left \in [Decoders -> SUBSET Handles]
  BY <1>1
<1>3. \A d \in Decoders : left[d] \subseteq p.pool[d]
  OBVIOUS
<1>4. \A d \in Decoders : \A h \in p.pool[d] :
         h \in left[d] \/ \E l \in ls : l.dec = d /\ l.h = h
  OBVIOUS
<1>5. /\ ~p.twice
      /\ \A l \in ls : l.h \in p.pool[l.dec]
      /\ \A l, m \in ls : l.dec = m.dec /\ l.h = m.h => l = m
      => ~again
  OBVIOUS
<1>8. again \in BOOLEAN
  OBVIOUS
<1>9. q = [p EXCEPT !.pool = left, !.twice = again]
  BY DEF ReleaseWithoutWorker, Pipelines
<1> HIDE DEF left, again
<1>10. /\ q \in Pipelines /\ SameSession(p, q)
       /\ q.leased = p.leased /\ q.deferred = p.deferred /\ q.retired = p.retired
       /\ q.lost = p.lost /\ q.pool = left /\ q.twice = again
  BY <1>2, <1>8, <1>9 DEF Pipelines, SameSession
<1> QED
  BY <1>3, <1>4, <1>5, <1>10

\* An ack stands for its lease.
LEMMA AckFacts ==
  ASSUME NEW l \in Leases, NEW sub
  PROVE  Ack(l, sub) \in Acks /\ Token(Ack(l, sub)) = Token(l) /\ Token(l) \in Tokens
<1>1. l.gen \in Generations /\ l.dec \in Decoders /\ l.h \in Handles
  BY DEF Leases
<1>2. (l \in sub) \in BOOLEAN
  OBVIOUS
<1>3. Ack(l, sub) \in Acks
  BY <1>1, <1>2 DEF Ack, Acks
<1>4. Token(Ack(l, sub)) = Token(l)
  BY DEF Ack, Token
<1>5. Token(l) \in Tokens
  BY <1>1 DEF Token, Tokens
<1> QED
  BY <1>3, <1>4, <1>5

\* While the worker runs, the acks of the dropped leases all fit into the
\* channel: no token is lost, and none is in two places.
LEMMA SendDead ==
  ASSUME NEW L \in SUBSET Leases, IsFiniteSet(L), NEW M \in SUBSET L, NEW q \in Seq(Acks),
         Len(q) + Cardinality(L) <= 6, NEW w, w # "ended", NEW p \in Pipelines,
         NEW r, NEW pn, NEW sub, PlacesOK(L, q, w, p), DropsTo(L \ M, w, q, r, p, pn, sub)
  PROVE  /\ pn = p /\ r \in Seq(Acks)
         /\ Len(r) + Cardinality(M) = Len(q) + Cardinality(L)
         /\ PlacesOK(M, r, w, p)
         /\ HeldBy(M, r, w, p) = HeldBy(L, q, w, p)
<1> DEFINE dead == L \ M
           n == Cardinality(dead)
<1>1. /\ IsFiniteSet(dead) /\ n \in Nat /\ n = Cardinality(L) - Cardinality(M)
      /\ Cardinality(M) \in Nat /\ Cardinality(L) \in Nat /\ Len(q) \in Nat
  <2>1. L \cap M = M /\ IsFiniteSet(M)
    BY FS_Subset
  <2>2. IsFiniteSet(dead) /\ n = Cardinality(L) - Cardinality(M)
    BY <2>1, FS_Difference
  <2> QED
    BY <2>1, <2>2, FS_CardinalityType
<1>2. Sent(dead, w, q) = n
  <2>1. Len(q) + n <= RENDER_RELEASE_CHANNEL_CAPACITY
    BY <1>1 DEF RENDER_RELEASE_CHANNEL_CAPACITY
  <2> HIDE DEF dead
  <2> QED
    BY <1>1, <2>1, SentFacts
<1>3. PICK order \in Bijection(1 .. n, dead) :
         /\ r = q \o [i \in 1 .. n |-> Ack(order[i], sub)]
         /\ pn = ReleaseWithoutWorker(p, {order[i] : i \in n + 1 .. n})
  BY <1>2 DEF DropsTo
<1> DEFINE s == [i \in 1 .. n |-> Ack(order[i], sub)]
           m == Len(q)
<1>4. \A l \in dead : l \in L /\ l \notin M
  OBVIOUS
<1>5. \A l \in L : l \in M \/ l \in dead
  OBVIOUS
<1> HIDE DEF dead, n
<1>6. /\ order \in [1 .. n -> dead]
      /\ \A i, j \in 1 .. n : order[i] = order[j] => i = j
      /\ \A l \in dead : \E i \in 1 .. n : order[i] = l
  BY DEF Bijection, Injection, Surjection, IsInjective
<1>7. pn = p
  <2>1. {order[i] : i \in n + 1 .. n} = {}
    BY <1>1
  <2>2. pn = ReleaseWithoutWorker(p, {})
    BY <1>3, <2>1
  <2>3. p.pool \in [Decoders -> SUBSET Handles] /\ p.twice \in BOOLEAN
    BY Fields
  <2>4. ReleaseWithoutWorker(p, {}) = [p EXCEPT !.pool = p.pool, !.twice = p.twice]
    BY <2>3 DEF ReleaseWithoutWorker, Pipelines
  <2> QED
    BY <2>2, <2>4 DEF Pipelines
<1>8. \A i \in 1 .. n : order[i] \in Leases /\ order[i] \in dead
  BY <1>4, <1>6
<1>9. \A i \in 1 .. n : s[i] \in Acks /\ Token(s[i]) = Token(order[i])
  BY <1>8, AckFacts
<1>10. s \in Seq(Acks) /\ Len(s) = n
  <2>1. s \in [1 .. n -> Acks]
    BY <1>9
  <2> HIDE DEF s
  <2> QED
    BY <1>1, <2>1
<1>11. r = q \o s
  BY <1>3
<1> HIDE DEF s
<1>12. /\ r \in Seq(Acks) /\ Len(r) = m + n
       /\ \A i \in 1 .. m + n : r[i] = IF i <= m THEN q[i] ELSE s[i - m]
  BY <1>10, <1>11, ConcatProperties
<1>13. /\ DOMAIN r = 1 .. m + n /\ DOMAIN q = 1 .. m
  BY <1>12
<1>14. \A i \in DOMAIN q : i \in DOMAIN r /\ r[i] = q[i]
  BY <1>1, <1>12, <1>13
<1>15. \A i \in 1 .. n : m + i \in DOMAIN r /\ m + i \notin DOMAIN q /\ Token(r[m + i]) = Token(order[i])
  <2> SUFFICES ASSUME NEW i \in 1 .. n
               PROVE  /\ m + i \in 1 .. m + n /\ m + i \notin 1 .. m
                      /\ Token(r[m + i]) = Token(order[i])
    BY <1>13
  <2>1. m + i \in 1 .. m + n /\ m + i \notin 1 .. m /\ ~(m + i <= m) /\ (m + i) - m = i
    BY <1>1
  <2>2. r[m + i] = s[i]
    BY <1>12, <2>1
  <2> QED
    BY <1>9, <2>1, <2>2
<1>16. \A j \in DOMAIN r : j \in DOMAIN q \/ \E i \in 1 .. n : j = m + i
  <2> SUFFICES ASSUME NEW j \in 1 .. m + n, j \notin 1 .. m PROVE \E i \in 1 .. n : j = m + i
    BY <1>13
  <2>1. j - m \in 1 .. n /\ j = m + (j - m)
    BY <1>1
  <2> QED
    BY <2>1
<1> HIDE DEF m
<1>17. /\ \A l, k \in L : Token(l) = Token(k) => l = k
       /\ \A i, j \in DOMAIN q : Token(q[i]) = Token(q[j]) => i = j
       /\ \A l \in L, i \in DOMAIN q : Token(l) # Token(q[i])
  BY DEF PlacesOK
<1>18. w = "push" => /\ \A l \in L : Token(l) # PresentToken(p)
                     /\ \A i \in DOMAIN q : Token(q[i]) # PresentToken(p)
  BY DEF PlacesOK
\* Where a token of the new channel comes from.
<1>19. \A j \in DOMAIN r : \/ j \in DOMAIN q /\ Token(r[j]) = Token(q[j])
                           \/ \E i \in 1 .. n : /\ j = m + i /\ Token(r[j]) = Token(order[i])
                                                /\ order[i] \in L /\ order[i] \notin M
  BY <1>4, <1>8, <1>14, <1>15, <1>16
<1>20. PlacesOK(M, r, w, p)
  <2>1. \A l, k \in M : Token(l) = Token(k) => l = k
    BY <1>17
  <2>2. \A i, j \in DOMAIN r : Token(r[i]) = Token(r[j]) => i = j
    <3> SUFFICES ASSUME NEW i \in DOMAIN r, NEW j \in DOMAIN r, Token(r[i]) = Token(r[j])
                 PROVE  i = j
      OBVIOUS
    <3>1. CASE i \in DOMAIN q /\ j \in DOMAIN q
      BY <1>14, <1>17, <3>1
    <3>2. CASE i \notin DOMAIN q /\ j \notin DOMAIN q
      <4>1. PICK a \in 1 .. n : i = m + a /\ Token(r[i]) = Token(order[a]) /\ order[a] \in L
        BY <1>19, <3>2
      <4>2. PICK b \in 1 .. n : j = m + b /\ Token(r[j]) = Token(order[b]) /\ order[b] \in L
        BY <1>19, <3>2
      <4>3. order[a] = order[b]
        BY <1>17, <4>1, <4>2
      <4> QED
        BY <1>6, <4>1, <4>2, <4>3
    <3>3. CASE i \in DOMAIN q /\ j \notin DOMAIN q
      BY <1>14, <1>17, <1>19, <3>3
    <3>4. CASE i \notin DOMAIN q /\ j \in DOMAIN q
      BY <1>14, <1>17, <1>19, <3>4
    <3> QED
      BY <3>1, <3>2, <3>3, <3>4
  <2>3. \A l \in M, i \in DOMAIN r : Token(l) # Token(r[i])
    BY <1>17, <1>19
  <2>4. w = "push" => /\ \A l \in M : Token(l) # PresentToken(p)
                      /\ \A i \in DOMAIN r : Token(r[i]) # PresentToken(p)
    BY <1>18, <1>19
  <2> QED
    BY <2>1, <2>2, <2>3, <2>4 DEF PlacesOK
<1>21. HeldBy(M, r, w, p) = HeldBy(L, q, w, p)
  <2> DEFINE X == {Token(l) : l \in M} \cup {Token(r[i]) : i \in DOMAIN r}
             Y == {Token(l) : l \in L} \cup {Token(q[i]) : i \in DOMAIN q}
  <2>1. X \subseteq Y
    BY <1>19
  <2>2. Y \subseteq X
    <3>1. \A l \in L : Token(l) \in X
      <4> SUFFICES ASSUME NEW l \in L PROVE Token(l) \in X
        OBVIOUS
      <4>1. CASE l \in M
        BY <4>1
      <4>2. CASE l \in dead
        <5>1. PICK i \in 1 .. n : order[i] = l
          BY <1>6, <4>2
        <5> QED
          BY <1>15, <5>1
      <4> QED
        BY <1>5, <4>1, <4>2
    <3>2. \A i \in DOMAIN q : Token(q[i]) \in X
      BY <1>14
    <3> QED
      BY <3>1, <3>2
  <2> QED
    BY <2>1, <2>2 DEF HeldBy
<1> QED
  BY <1>1, <1>7, <1>12, <1>20, <1>21 DEF m

\* Once the worker has ended, the drops of the leases L \ M return their slots,
\* each one once.
LEMMA DropEnded ==
  ASSUME NEW L \in SUBSET Leases, IsFiniteSet(L), NEW M \in SUBSET L,
         NEW p \in Pipelines, NEW r, NEW pn, NEW sub,
         NEW H, H = HeldBy(L, << >>, "ended", p), TokensOK(H), HeldOK(p, H), OldOK(p),
         PlacesOK(L, << >>, "ended", p),
         DropsTo(L \ M, "ended", << >>, r, p, pn, sub)
  PROVE  /\ r = << >> /\ pn \in Pipelines /\ SameSession(p, pn) /\ OldOK(pn)
         /\ TokensOK(HeldBy(M, << >>, "ended", pn)) /\ HeldOK(pn, HeldBy(M, << >>, "ended", pn))
         /\ PlacesOK(M, << >>, "ended", pn)
         /\ \A d \in Decoders : pn.pool[d] \subseteq p.pool[d]
<1> DEFINE dead == L \ M
           n == Cardinality(dead)
           G == HeldBy(M, << >>, "ended", pn)
<1>1. IsFiniteSet(dead) /\ n \in Nat
  <2>1. IsFiniteSet(dead)
    BY FS_Difference
  <2> QED
    BY <2>1, FS_CardinalityType
<1>2. << >> \in Seq(Acks) /\ DOMAIN << >> = {}
  OBVIOUS
<1>3. Sent(dead, "ended", << >>) = 0
  <2> HIDE DEF dead
  <2> QED
    BY <1>1, <1>2, SentFacts
<1>4. PICK order \in Bijection(1 .. n, dead) :
         /\ r = << >> \o [i \in 1 .. 0 |-> Ack(order[i], sub)]
         /\ pn = ReleaseWithoutWorker(p, {order[i] : i \in 0 + 1 .. n})
  BY <1>3 DEF DropsTo
<1>5. \A l \in dead : l \in L /\ l \notin M
  OBVIOUS
<1>6. \A l \in Leases : l.gen \in Generations /\ l.dec \in Decoders /\ l.h \in Handles
  BY DEF Leases
<1>7. \A l : /\ Token(l).gen = l.gen /\ Token(l).dec = l.dec /\ Token(l).h = l.h
  BY DEF Token
<1>8. \A t \in H : \E l \in L : t = Token(l)
  BY <1>2 DEF HeldBy
<1>9. \A l \in L : Token(l) \in H
  BY DEF HeldBy
<1>10. \A t \in G : \E l \in M : t = Token(l)
  BY <1>2 DEF HeldBy
<1> HIDE DEF n, dead, G
<1>11. {order[i] : i \in 0 + 1 .. n} = dead
  <2>1. order \in [1 .. n -> dead] /\ \A l \in dead : \E i \in 1 .. n : order[i] = l
    BY DEF Bijection, Injection, Surjection
  <2>2. 0 + 1 .. n = 1 .. n
    BY <1>1
  <2> QED
    BY <2>1, <2>2
<1>12. pn = ReleaseWithoutWorker(p, dead)
  BY <1>4, <1>11
<1>13. r = << >>
  <2>1. [i \in 1 .. 0 |-> Ack(order[i], sub)] = << >>
    OBVIOUS
  <2>2. << >> \o << >> = << >>
    OBVIOUS
  <2> QED
    BY <1>4, <2>1, <2>2
<1>14. dead \in SUBSET Leases
  BY <1>5
<1>15. /\ \A l \in dead : l.h \in p.pool[l.dec]
       /\ \A l, m \in dead : l.dec = m.dec /\ l.h = m.h => l = m
  <2>1. \A l \in dead : l.h \in p.pool[l.dec]
    BY <1>5, <1>7, <1>9 DEF HeldOK
  <2>2. \A l, m \in dead : l.dec = m.dec /\ l.h = m.h => Token(l) = Token(m)
    BY <1>5, <1>7, <1>9 DEF TokensOK
  <2>3. \A l, m \in L : Token(l) = Token(m) => l = m
    BY DEF PlacesOK
  <2> QED
    BY <1>5, <2>1, <2>2, <2>3
<1>16. /\ pn \in Pipelines /\ SameSession(p, pn)
       /\ pn.leased = p.leased /\ pn.deferred = p.deferred /\ pn.retired = p.retired
       /\ \A d \in Decoders : pn.pool[d] \subseteq p.pool[d]
       /\ \A d \in Decoders : \A h \in p.pool[d] :
             h \in pn.pool[d] \/ \E l \in dead : l.dec = d /\ l.h = h
  BY <1>12, <1>14, WithoutWorkerEffect
<1>17. ~pn.twice
  <2>1. ~p.twice
    BY DEF OldOK
  <2> QED
    BY <1>12, <1>14, <1>15, <2>1, WithoutWorkerEffect
<1>18. pn.gen = p.gen /\ pn.dec = p.dec /\ pn.endedBy = p.endedBy
  BY <1>16 DEF SameSession
<1>19. OldOK(pn)
  BY <1>16, <1>17, <1>18 DEF OldOK, HasLeasesForGeneration
<1>20. G \subseteq H
  BY <1>9, <1>10
<1>21. TokensOK(G)
  BY <1>20 DEF TokensOK
<1>22. HeldOK(pn, G)
  <2> SUFFICES ASSUME NEW t \in G
               PROVE  /\ t.h \in pn.pool[t.dec] /\ t.gen <= pn.gen
                      /\ t.gen = pn.gen => t.dec = pn.dec
    BY DEF HeldOK
  <2>1. t \in H /\ t.h \in p.pool[t.dec] /\ t.gen <= p.gen /\ (t.gen = p.gen => t.dec = p.dec)
    BY <1>20 DEF HeldOK
  <2>2. PICK l \in M : t = Token(l)
    BY <1>10
  <2>3. t.dec = l.dec /\ t.h = l.h /\ t.dec \in Decoders
    BY <1>6, <1>7, <2>2
  <2>4. ASSUME NEW m \in dead, m.dec = t.dec, m.h = t.h PROVE FALSE
    <3>1. Token(m) = Token(l)
      BY <1>5, <1>7, <1>9, <2>1, <2>2, <2>4 DEF TokensOK
    <3>2. m = l
      BY <1>5, <3>1 DEF PlacesOK
    <3> QED
      BY <1>5, <2>4, <3>2
  <2>5. t.h \in pn.pool[t.dec]
    BY <1>16, <2>1, <2>3, <2>4
  <2> QED
    BY <1>18, <2>1, <2>5
<1>23. PlacesOK(M, << >>, "ended", pn)
  BY <1>2 DEF PlacesOK
<1> QED
  BY <1>13, <1>16, <1>19, <1>21, <1>22, <1>23 DEF G

\* Whatever leases are dropped, the accounting stays exact.
LEMMA DropsKeep ==
  ASSUME NEW L \in SUBSET Leases, IsFiniteSet(L), NEW M \in SUBSET L, NEW q \in Seq(Acks),
         Len(q) + Cardinality(L) <= 6, NEW w, NEW p \in Pipelines, Accounted(p, L, q, w),
         NEW r, NEW pn, NEW sub, DropsTo(L \ M, w, q, r, p, pn, sub)
  PROVE  /\ pn \in Pipelines /\ SameSession(p, pn) /\ r \in Seq(Acks)
         /\ Len(r) + Cardinality(M) <= Len(q) + Cardinality(L)
         /\ Accounted(pn, M, r, w)
         /\ HeldBy(M, r, w, pn) \subseteq HeldBy(L, q, w, p)
         /\ \A d \in Decoders : pn.pool[d] \subseteq p.pool[d]
<1>1. /\ TokensOK(HeldBy(L, q, w, p)) /\ HeldOK(p, HeldBy(L, q, w, p)) /\ OldOK(p)
      /\ w # "ended" => Accounting(p, HeldBy(L, q, w, p))
      /\ PlacesOK(L, q, w, p)
      /\ w = "ended" => q = << >>
  BY DEF Accounted
<1>2. CASE w # "ended"
  <2>1. /\ pn = p /\ r \in Seq(Acks)
        /\ Len(r) + Cardinality(M) = Len(q) + Cardinality(L)
        /\ PlacesOK(M, r, w, p)
        /\ HeldBy(M, r, w, p) = HeldBy(L, q, w, p)
    BY <1>1, <1>2, SendDead
  <2>2. Len(r) + Cardinality(M) <= Len(q) + Cardinality(L)
    <3>1. Len(q) \in Nat /\ Cardinality(L) \in Nat
      BY FS_CardinalityType
    <3> QED
      BY <2>1, <3>1
  <2>3. Accounted(pn, M, r, w)
    BY <1>1, <1>2, <2>1 DEF Accounted
  <2> QED
    BY <2>1, <2>2, <2>3 DEF SameSession
<1>3. CASE w = "ended"
  <2>1. q = << >> /\ IsFiniteSet(L)
    BY <1>1, <1>3
  <2> DEFINE H == HeldBy(L, << >>, "ended", p)
  <2>2. TokensOK(H) /\ HeldOK(p, H) /\ PlacesOK(L, << >>, "ended", p) /\ H = HeldBy(L, << >>, "ended", p)
    BY <1>1, <1>3, <2>1
  <2>3. DropsTo(L \ M, "ended", << >>, r, p, pn, sub)
    BY <1>3, <2>1
  <2> HIDE DEF H
  <2>4. /\ r = << >> /\ pn \in Pipelines /\ SameSession(p, pn) /\ OldOK(pn)
        /\ TokensOK(HeldBy(M, << >>, "ended", pn)) /\ HeldOK(pn, HeldBy(M, << >>, "ended", pn))
        /\ PlacesOK(M, << >>, "ended", pn)
        /\ \A d \in Decoders : pn.pool[d] \subseteq p.pool[d]
    BY <1>1, <2>1, <2>2, <2>3, DropEnded
  <2>5. Cardinality(M) <= Cardinality(L)
    BY FS_Subset
  <2>6. HeldBy(M, << >>, "ended", pn) \subseteq HeldBy(L, << >>, "ended", p)
    BY DEF HeldBy
  <2>7. Accounted(pn, M, r, w)
    BY <1>3, <2>4 DEF Accounted
  <2>8. Len(r) + Cardinality(M) <= Len(q) + Cardinality(L)
    <3>1. Cardinality(M) \in Nat /\ Cardinality(L) \in Nat
      <4>1. IsFiniteSet(M)
        BY FS_Subset
      <4> QED
        BY <4>1, FS_CardinalityType
    <3>2. Len(r) = 0 /\ Len(q) = 0
      BY <2>1, <2>4
    <3> QED
      BY <2>5, <3>1, <3>2
  <2> QED
    BY <1>3, <2>1, <2>4, <2>6, <2>7, <2>8
<1> QED
  BY <1>2, <1>3

\* No pool grows, and generations and decoders keep their bounds.
LEMMA NumbersKeep ==
  ASSUME NEW p, NEW q, NEW mk, NEW us \in Nat, NEW vs \in Nat, us <= vs, NEW ct, NEW cu,
         NumbersOK(p, mk, us, ct), q.dec <= vs,
         q.gen <= cu.operations, q.dgen <= cu.operations, cu.frames = ct.frames,
         \A d \in Decoders : q.pool[d] \subseteq p.pool[d]
  PROVE  NumbersOK(q, mk, vs, cu)
<1> SUFFICES ASSUME NEW d \in Decoders
             PROVE  /\ mk[d] <= cu.frames /\ (d > vs => mk[d] = 0)
                    /\ \A h \in q.pool[d] : h <= mk[d]
  BY DEF NumbersOK
<1>1. mk[d] <= ct.frames /\ (d > us => mk[d] = 0) /\ \A h \in p.pool[d] : h <= mk[d]
  BY DEF NumbersOK
<1>2. d > vs => d > us
  BY Bounds
<1> QED
  BY <1>1, <1>2

-----------------------------------------------------------------------------
(* The steps that drop leases *)

\* DropDead, with the live leases as arguments.
LEMMA DropDeadDrops ==
  ASSUME NEW sub, DropDead(sub)
  PROVE  /\ DropsTo(Live \ Live', wpc', acks, acks', pl, pl', sub)
         /\ submitted' = sub \cap Live'
  BY DEF DropDead, DropsTo, Sent, Room

\* A step of the UI that drops leases.
LEMMA UiDropsKeep ==
  ASSUME Types, LeasesOK, NEW sub, DropDead(sub), Live' \subseteq Live,
         wpc' = wpc, made' = made, used' = used,
         count'.frames = count.frames, count'.operations = count.operations
  PROVE  /\ LeasesOK' /\ pl' \in Pipelines /\ SameSession(pl, pl') /\ acks' \in Seq(Acks)
         /\ submitted' = sub \cap Live' /\ Held' \subseteq Held
<1> DEFINE L == Live
           M == Live'
<1>1. /\ DropsTo(L \ M, wpc, acks, acks', pl, pl', sub)
      /\ submitted' = sub \cap M
  BY DropDeadDrops
<1>2. L \in SUBSET Leases /\ IsFiniteSet(L) /\ M \in SUBSET L /\ Cardinality(L) \in Nat
  BY LiveIsSmall
<1>3. /\ NumbersOK(pl, made, used, count) /\ Accounted(pl, L, acks, wpc)
      /\ RoomOK(L, acks, wpc)
  BY DEF LeasesOK
<1>4. /\ pl \in Pipelines /\ acks \in Seq(Acks) /\ used \in Nat
      /\ Len(acks) + Cardinality(L) <= 6
  BY <1>3, Bounds DEF Types, RoomOK
<1>5. Held = HeldBy(L, acks, wpc, pl) /\ Held' = HeldBy(M, acks', wpc, pl')
  BY DEF Held
<1>6. LeasesOK' <=> /\ NumbersOK(pl', made, used, count') /\ Accounted(pl', M, acks', wpc)
                    /\ RoomOK(M, acks', wpc)
  BY DEF LeasesOK
<1> HIDE DEF L, M
<1>7. /\ pl' \in Pipelines /\ SameSession(pl, pl') /\ acks' \in Seq(Acks)
      /\ Len(acks') + Cardinality(M) <= Len(acks) + Cardinality(L)
      /\ Accounted(pl', M, acks', wpc)
      /\ HeldBy(M, acks', wpc, pl') \subseteq HeldBy(L, acks, wpc, pl)
      /\ \A d \in Decoders : pl'.pool[d] \subseteq pl.pool[d]
  BY <1>1, <1>2, <1>3, <1>4, DropsKeep
<1>8. RoomOK(M, acks', wpc)
  <2>1. Len(acks') \in Nat /\ Len(acks) \in Nat /\ Cardinality(M) \in Nat
    <3>1. IsFiniteSet(M)
      BY <1>2, FS_Subset
    <3> QED
      BY <1>4, <1>7, <3>1, FS_CardinalityType
  <2> QED
    BY <1>2, <1>3, <1>7, <2>1 DEF RoomOK
<1>9. NumbersOK(pl', made, used, count')
  <2>1. pl'.dec <= used /\ pl'.gen <= count'.operations /\ pl'.dgen <= count'.operations
    BY <1>3, <1>7 DEF NumbersOK, SameSession
  <2>2. used <= used
    BY <1>4
  <2> QED
    BY <1>3, <1>4, <1>7, <2>1, <2>2, NumbersKeep
<1> QED
  BY <1>1, <1>5, <1>6, <1>7, <1>8, <1>9 DEF M

-----------------------------------------------------------------------------
(* The handoff *)

Handoffs == [taken : MaybeLease, untaken : Seq(Leases)]

\* What the UI reads and takes.
LEMMA HandoffFacts ==
  ASSUME NEW g \in Handoffs, NEW t, t = TakenNext(g)
  PROVE  /\ NewestPublished(g) \in MaybeLease /\ NextForRender(g) \in MaybeLease
         /\ g.untaken = << >> => NewestPublished(g) = g.taken /\ t = g
         /\ g.untaken # << >> =>
               /\ Len(g.untaken) \in DOMAIN g.untaken
               /\ NewestPublished(g) = g.untaken[Len(g.untaken)]
               /\ NewestPublished(g) \in Leases
               /\ 1 \in DOMAIN g.untaken /\ t.taken = g.untaken[1]
               /\ t.untaken = Tail(g.untaken)
               /\ Len(t.untaken) = Len(g.untaken) - 1
         /\ \A i \in DOMAIN t.untaken : t.untaken[i] = g.untaken[i] \/
                                        (i + 1 \in DOMAIN g.untaken /\ t.untaken[i] = g.untaken[i + 1])
         /\ t \in Handoffs /\ Len(t.untaken) <= Len(g.untaken)
         /\ NewestPublished(t) = NewestPublished(g)
<1> DEFINE u == g.untaken
           n == Len(u)
<1>1. u \in Seq(Leases) /\ g.taken \in MaybeLease /\ n \in Nat /\ DOMAIN u = 1 .. n
  BY DEF Handoffs
<1>2. \A i \in DOMAIN u : u[i] \in Leases
  BY <1>1
<1>3. CASE u = << >>
  <2>1. NewestPublished(g) = g.taken /\ NextForRender(g) = g.taken /\ t = g
    BY <1>3 DEF NewestPublished, NextForRender, TakenNext
  <2>2. n = 0 /\ DOMAIN u = {}
    BY <1>3
  <2> QED
    BY <1>1, <1>3, <2>1, <2>2
<1>4. CASE u # << >>
  <2>1. /\ n \in DOMAIN u /\ 1 \in DOMAIN u /\ Head(u) = u[1] /\ Tail(u) \in Seq(Leases)
        /\ Len(Tail(u)) = n - 1 /\ DOMAIN Tail(u) = 1 .. n - 1
        /\ \A i \in 1 .. n - 1 : Tail(u)[i] = u[i + 1] /\ i + 1 \in DOMAIN u
    BY <1>1, <1>4
  <2>2. NewestPublished(g) = u[n] /\ NextForRender(g) = u[1]
    BY <1>4, <2>1 DEF NewestPublished, NextForRender, Last
  <2>3. t = [taken |-> Head(u), untaken |-> Tail(u)]
    BY <1>4 DEF TakenNext
  <2>4. t.taken = u[1] /\ t.untaken = Tail(u)
    BY <2>1, <2>3
  <2>5. t \in Handoffs
    BY <1>2, <2>1, <2>3 DEF Handoffs, MaybeLease
  <2>6. NewestPublished(t) = u[n]
    <3>1. CASE n = 1
      <4>1. Tail(u) = << >>
        BY <2>1, <3>1
      <4> QED
        BY <2>4, <3>1, <4>1 DEF NewestPublished
    <3>2. CASE n # 1
      <4>5. n \in Nat /\ n \in 1 .. n /\ Len(Tail(u)) = n - 1
        BY <1>1, <2>1
      <4> HIDE DEF u, n
      <4>3. n \in 1 .. n /\ n - 1 \in 1 .. n - 1 /\ (n - 1) + 1 = n
        BY <3>2, <4>5
      <4>4. Tail(u) # << >>
        <5> DEFINE v == Tail(u)
        <5>1. Len(v) # 0
          BY <3>2, <4>5
        <5> HIDE DEF v
        <5>2. v # << >>
          BY <5>1
        <5> QED
          BY <5>2 DEF v
      <4>1. Tail(u) # << >> /\ n - 1 \in 1 .. n - 1 /\ (n - 1) + 1 = n
        BY <4>3, <4>4
      <4>2. Last(Tail(u)) = u[n]
        BY <2>1, <4>1, <4>5 DEF Last
      <4> QED
        BY <2>4, <4>1, <4>2 DEF NewestPublished, u, n
    <3> QED
      BY <3>1, <3>2
  <2>7. u[n] \in Leases /\ u[1] \in Leases
    BY <1>2, <2>1
  <2>8. \A i \in DOMAIN Tail(u) : i + 1 \in DOMAIN u /\ Tail(u)[i] = u[i + 1]
    BY <2>1
  <2>9. Len(t.untaken) = n - 1 /\ Len(t.untaken) <= n
    BY <1>1, <2>1, <2>4
  <2> QED
    BY <1>4, <2>1, <2>2, <2>4, <2>5, <2>6, <2>7, <2>8, <2>9 DEF MaybeLease
<1> QED
  BY <1>3, <1>4

\* Steps that leave the session and the newest published frame as they are keep
\* what the publication has reached.
LEMMA SameStage ==
  ASSUME StageOK, WakeOK, wpc' = wpc, SameSession(pl, pl'), Held' \subseteq Held,
         NewestPublished(ho') = NewestPublished(ho), wakes' = wakes, snap' = snap,
         Fresh => Fresh'
  PROVE  StageOK' /\ WakeOK'
<1>1. /\ pl'.gen = pl.gen /\ pl'.present = pl.present
  BY DEF SameSession
<1>2. LeaseOf(pl') = LeaseOf(pl) /\ PresentToken(pl') = PresentToken(pl)
  BY <1>1 DEF LeaseOf, PresentToken
<1>3. Current' = Current
  BY <1>1 DEF Current
<1>4. StageOK'
  BY <1>1, <1>2 DEF StageOK
<1>5. WakeOK'
  BY <1>1, <1>3 DEF WakeOK
<1> QED
  BY <1>4, <1>5

\* The leases that stay are no further ahead.
LEMMA BehindKeeps ==
  ASSUME NEW L, NEW M \in SUBSET L, NEW p, NEW q, SameSession(p, q), BehindOK(L, p)
  PROVE  BehindOK(M, q)
<1>1. q.gen = p.gen /\ q.dgen = p.dgen /\ q.queue = p.queue /\ q.present = p.present
  BY DEF SameSession
<1> QED
  BY <1>1 DEF BehindOK

\* No picture is before itself, and one that continues a sequence is not before
\* its predecessor.
LEMMA OrderFacts ==
  /\ \A l \in MaybeLease : NotBefore(l, l) /\ NotBefore(NoLease, l) /\ NotBefore(l, NoLease)
  /\ \A l, m \in Leases : ContinuesSequence(l, m) => NotBefore(m, l)
<1>1. \A l \in Leases : l.gen \in Nat /\ l.dgen \in Nat /\ l.h \in Nat
  BY Bounds DEF Leases
<1>2. \A l \in MaybeLease : NotBefore(l, l)
  BY <1>1 DEF NotBefore, Before, MaybeLease
<1>3. \A l : NotBefore(NoLease, l) /\ NotBefore(l, NoLease)
  BY DEF NotBefore
<1>4. \A l, m \in Leases : ContinuesSequence(l, m) => NotBefore(m, l)
  BY <1>1 DEF ContinuesSequence, NotBefore, Before
<1> QED
  BY <1>2, <1>3, <1>4

-----------------------------------------------------------------------------
(* The UI *)

UiStates == [pc : {"idle", "peek", "acquire", "show", "probe"},
             snap : [gen : Generations, has : BOOLEAN], hand : MaybeLease, seen : MaybeLease]

\* A step of the UI that drops leases keeps the invariant, given what it does to
\* the handoff and to the picture.
LEMMA UiDropStep ==
  ASSUME IInv, NEW sub, DropDead(sub), Live' \subseteq Live, UiKeeps,
         count' \in [frames : 0 .. MaxFrames, operations : 0 .. MaxOperations,
                     refusals : 0 .. MaxRefusals],
         count'.frames = count.frames, count'.operations = count.operations,
         ui' \in UiStates, ui'.snap = ui.snap, ui'.seen = ui.seen,
         cached' \in MaybeLease, redraw' \in BOOLEAN, claimed' \in MaybeLease,
         ho' \in Handoffs, Len(ho'.untaken) <= Len(ho.untaken),
         NewestPublished(ho') = NewestPublished(ho), OneSequence', ShownOK'
  PROVE  IInv'
<1>1. Types /\ LeasesOK /\ StageOK /\ WakeOK /\ BehindOK(Live, pl)
  BY DEF IInv
<1>2. /\ made' = made /\ used' = used /\ wpc' = wpc /\ wakes' = wakes /\ ending' = ending
      /\ snap' = snap /\ wake' = wake
  BY DEF UiKeeps
<1>3. /\ LeasesOK' /\ pl' \in Pipelines /\ SameSession(pl, pl') /\ acks' \in Seq(Acks)
      /\ submitted' = sub \cap Live' /\ Held' \subseteq Held
  BY <1>1, <1>2, UiDropsKeep
<1>4. StageOK' /\ WakeOK'
  <2>1. Fresh => Fresh'
    BY <1>2 DEF Fresh
  <2> QED
    BY <1>1, <1>2, <1>3, <2>1, SameStage
<1>5. BehindOK(Live', pl')
  BY <1>1, <1>3, BehindKeeps
<1>6. Types'
  <2>1. /\ made' \in [Decoders -> 0 .. MaxFrames] /\ used' \in Decoders
        /\ wpc' \in {"idle", "drain", "probe", "push", "clear", "snapshot", "wake", "ended"}
        /\ snap' \in [gen : Generations, has : BOOLEAN]
    BY <1>1, <1>2 DEF Types
  <2>2. wakes' \in BOOLEAN /\ ending' \in BOOLEAN /\ wake' \in BOOLEAN
    BY <1>1, <1>2 DEF Types
  <2>3. Len(ho'.untaken) <= UNTAKEN_PRESENT_FRAME_CAPACITY
    <3>1. /\ Len(ho'.untaken) \in Nat /\ Len(ho.untaken) \in Nat
          /\ Len(ho.untaken) <= 2
      BY <1>1 DEF Types, Handoffs, UNTAKEN_PRESENT_FRAME_CAPACITY
    <3> QED
      BY <3>1 DEF UNTAKEN_PRESENT_FRAME_CAPACITY
  <2>4. submitted' \subseteq Live'
    BY <1>3
  <2> QED
    BY <1>3, <2>1, <2>2, <2>3, <2>4 DEF Types, UiStates, Handoffs
<1> QED
  BY <1>3, <1>4, <1>5, <1>6 DEF IInv

\* What a step of the UI starts from.
LEMMA UiFacts ==
  ASSUME IInv
  PROVE  /\ ui \in UiStates /\ ho \in Handoffs /\ cached \in MaybeLease /\ claimed \in MaybeLease
         /\ ui.hand \in MaybeLease /\ redraw \in BOOLEAN /\ NoLease \in MaybeLease
         /\ count \in [frames : 0 .. MaxFrames, operations : 0 .. MaxOperations,
                       refusals : 0 .. MaxRefusals]
         /\ Len(ho.untaken) <= Len(ho.untaken)
<1>1. /\ ui \in UiStates /\ ho \in Handoffs /\ cached \in MaybeLease /\ claimed \in MaybeLease
      /\ redraw \in BOOLEAN /\ NoLease \in MaybeLease
  BY DEF IInv, Types, UiStates, Handoffs, MaybeLease
<1>2. count \in [frames : 0 .. MaxFrames, operations : 0 .. MaxOperations,
                 refusals : 0 .. MaxRefusals]
  BY DEF IInv, Types
<1>3. ui.hand \in MaybeLease /\ Len(ho.untaken) \in Nat
  BY <1>1 DEF UiStates, Handoffs
<1> QED
  BY <1>1, <1>2, <1>3

\* A refusal is counted.
LEMMA RefusedFacts ==
  ASSUME Refused, count \in [frames : 0 .. MaxFrames, operations : 0 .. MaxOperations,
                             refusals : 0 .. MaxRefusals]
  PROVE  /\ count' \in [frames : 0 .. MaxFrames, operations : 0 .. MaxOperations,
                        refusals : 0 .. MaxRefusals]
         /\ count'.frames = count.frames /\ count'.operations = count.operations
<1>1. count.refusals + 1 \in 0 .. MaxRefusals
  BY Bounds DEF Refused
<1> QED
  BY <1>1 DEF Refused

\* The surface gives no buffer.
LEMMA UiNoSurfaceKeeps ==
  ASSUME IInv, UiNoSurface
  PROVE  IInv'
<1>1. /\ ui \in UiStates /\ ho \in Handoffs /\ cached \in MaybeLease /\ claimed \in MaybeLease
      /\ ui.hand \in MaybeLease /\ redraw \in BOOLEAN /\ NoLease \in MaybeLease
      /\ count \in [frames : 0 .. MaxFrames, operations : 0 .. MaxOperations,
                    refusals : 0 .. MaxRefusals]
      /\ Len(ho.untaken) <= Len(ho.untaken)
  BY UiFacts
<1>2. /\ Refused /\ cached' \in {cached, NoLease} /\ ui' = [ui EXCEPT !.pc = "idle"]
      /\ ho' = ho /\ UiKeeps /\ DropDead(submitted) /\ redraw' = redraw /\ claimed' = claimed
  BY DEF UiNoSurface
<1>3. /\ ui' \in UiStates /\ ui'.snap = ui.snap /\ ui'.seen = ui.seen /\ ui'.hand = ui.hand
  BY <1>1, <1>2 DEF UiStates
<1>4. /\ count' \in [frames : 0 .. MaxFrames, operations : 0 .. MaxOperations,
                     refusals : 0 .. MaxRefusals]
      /\ count'.frames = count.frames /\ count'.operations = count.operations
  BY <1>1, <1>2, RefusedFacts
<1>5. Live' \subseteq Live
  BY <1>2, <1>3 DEF Live
<1>6. OneSequence'
  BY <1>2 DEF IInv, OneSequence
<1>7. ShownOK'
  BY <1>2, <1>3 DEF IInv, ShownOK, NotBefore
<1>8. cached' \in MaybeLease /\ redraw' \in BOOLEAN
  BY <1>1, <1>2
<1> QED
  BY <1>1, <1>2, <1>3, <1>4, <1>5, <1>6, <1>7, <1>8, UiDropStep

\* What the renderer did with the frame in hand.
LEMMA UiShowKeeps ==
  ASSUME IInv, NEW o \in {"presented", "busy", "error", "dropped", "interface"}, UiShow(o)
  PROVE  IInv' /\ cached' \in {cached, ui.hand, NoLease}
<1>1. /\ ui \in UiStates /\ ho \in Handoffs /\ cached \in MaybeLease /\ claimed \in MaybeLease
      /\ ui.hand \in MaybeLease /\ redraw \in BOOLEAN /\ NoLease \in MaybeLease
      /\ count \in [frames : 0 .. MaxFrames, operations : 0 .. MaxOperations,
                    refusals : 0 .. MaxRefusals]
      /\ Len(ho.untaken) <= Len(ho.untaken)
  BY UiFacts
<1>2. /\ ui' = [ui EXCEPT !.pc = IF o \in {"dropped", "interface"} THEN "idle" ELSE "probe",
                          !.hand = NoLease]
      /\ redraw' = (redraw \/ o = "interface")
      /\ ho' = ho /\ UiKeeps /\ claimed' = claimed
      /\ DropDead(submitted \cup IF o = "presented" THEN {ui.hand} \ {NoLease} ELSE {})
  BY DEF UiShow
<1>3. cached' \in {cached, ui.hand, NoLease} /\ (count' = count \/ Refused)
  BY DEF UiShow
<1>4. /\ ui' \in UiStates /\ ui'.snap = ui.snap /\ ui'.seen = ui.seen /\ ui'.hand = NoLease
  <2>1. (IF o \in {"dropped", "interface"} THEN "idle" ELSE "probe") \in {"idle", "probe"}
    OBVIOUS
  <2> QED
    BY <1>1, <1>2, <2>1 DEF UiStates
<1>5. /\ count' \in [frames : 0 .. MaxFrames, operations : 0 .. MaxOperations,
                     refusals : 0 .. MaxRefusals]
      /\ count'.frames = count.frames /\ count'.operations = count.operations
  BY <1>1, <1>3, RefusedFacts
<1>6. Live' \subseteq Live
  BY <1>2, <1>3, <1>4 DEF Live
<1>7. OneSequence'
  BY <1>2 DEF IInv, OneSequence
<1>8. ShownOK'
  BY <1>2, <1>3, <1>4 DEF IInv, ShownOK, NotBefore
<1>9. cached' \in MaybeLease
  BY <1>1, <1>3
<1>10. redraw' \in BOOLEAN
  BY <1>2
<1>11. /\ ho' \in Handoffs /\ Len(ho'.untaken) <= Len(ho.untaken)
       /\ NewestPublished(ho') = NewestPublished(ho) /\ UiKeeps /\ claimed' \in MaybeLease
  BY <1>1, <1>2
<1>12. IInv'
  BY <1>2, <1>4, <1>5, <1>6, <1>7, <1>8, <1>9, <1>10, <1>11, UiDropStep
<1> QED
  BY <1>3, <1>12

\* acquire_present_frame_for_render.
LEMMA UiAcquireKeeps ==
  ASSUME IInv, UiAcquire
  PROVE  IInv' /\ cached' \in {cached, NoLease}
<1> DEFINE kept == IF CachedIsValid THEN cached ELSE NoLease
           next == TakenNext(ho)
<1>1. /\ ui \in UiStates /\ ho \in Handoffs /\ cached \in MaybeLease /\ claimed \in MaybeLease
      /\ ui.hand \in MaybeLease /\ redraw \in BOOLEAN /\ NoLease \in MaybeLease
      /\ count \in [frames : 0 .. MaxFrames, operations : 0 .. MaxOperations,
                    refusals : 0 .. MaxRefusals]
      /\ Len(ho.untaken) <= Len(ho.untaken)
  BY UiFacts
<1>2. /\ ho' = IF Busy THEN ho ELSE next
      /\ cached' \in {kept, NoLease}
      /\ \E hd : ui' = [ui EXCEPT !.pc = "show", !.hand = hd]
      /\ UiKeeps /\ DropDead(submitted)
      /\ redraw' = redraw /\ claimed' = claimed /\ count' = count
  BY DEF UiAcquire
<1>3. /\ ui'.snap = ui.snap /\ ui'.seen = ui.seen
      /\ \/ ui'.hand = NoLease
         \/ ui'.hand = kept /\ cached' = kept /\ (Busy \/ next.taken = NoLease)
         \/ ui'.hand = next.taken /\ ~Busy
  BY <1>1 DEF UiAcquire, UiStates
<1>4. kept \in {cached, NoLease} /\ cached' \in {cached, NoLease}
  BY <1>2
<1> DEFINE g == ho
<1>5. /\ NewestPublished(g) \in MaybeLease
      /\ g.untaken = << >> => next = g
      /\ g.untaken # << >> =>
            /\ 1 \in DOMAIN g.untaken /\ next.taken = g.untaken[1]
            /\ next.untaken = Tail(g.untaken)
      /\ next \in Handoffs /\ Len(next.untaken) <= Len(g.untaken)
      /\ NewestPublished(next) = NewestPublished(g)
  BY <1>1, HandoffFacts
<1>6. /\ ho' \in Handoffs /\ Len(ho'.untaken) <= Len(ho.untaken)
      /\ NewestPublished(ho') = NewestPublished(ho)
  BY <1>1, <1>2, <1>5
<1>7. \/ ho' = ho
      \/ /\ ho' = next /\ ~Busy /\ 1 \in DOMAIN ho.untaken /\ ho'.taken = ho.untaken[1]
         /\ DOMAIN ho'.untaken = 1 .. Len(ho.untaken) - 1 /\ Len(ho.untaken) \in Nat
         /\ DOMAIN ho.untaken = 1 .. Len(ho.untaken)
         /\ \A i \in DOMAIN ho'.untaken :
               i + 1 \in DOMAIN ho.untaken /\ ho'.untaken[i] = ho.untaken[i + 1]
  <2>1. CASE Busy \/ ho.untaken = << >>
    BY <1>2, <1>5, <2>1
  <2>2. CASE ~Busy /\ ho.untaken # << >>
    <3> DEFINE u == ho.untaken
    <3>1. u \in Seq(Leases) /\ u # << >>
      BY <1>1, <2>2 DEF Handoffs
    <3>2. ho' = next /\ ho'.taken = u[1] /\ ho'.untaken = Tail(u) /\ 1 \in DOMAIN u
      BY <1>2, <1>5, <2>2
    <3> HIDE DEF u
    <3>3. /\ DOMAIN Tail(u) = 1 .. Len(u) - 1 /\ Len(u) \in Nat /\ DOMAIN u = 1 .. Len(u)
          /\ \A i \in 1 .. Len(u) - 1 : i + 1 \in 1 .. Len(u) /\ Tail(u)[i] = u[i + 1]
      BY <3>1
    <3> QED
      BY <2>2, <3>2, <3>3 DEF u
  <2> QED
    BY <2>1, <2>2
<1>8. \A i \in DOMAIN ho.untaken : ho.untaken[i] \in Leases
  BY <1>1 DEF Handoffs
<1>9. next.taken = ho'.taken \/ Busy
  BY <1>2
<1>10. next.taken \in MaybeLease
  BY <1>5 DEF Handoffs
<1> HIDE DEF kept, next
<1>11. \A l \in Live' : l \in Live
  <2>1. \A l : l \in Live <=> /\ l # NoLease
                              /\ \/ \E i \in DOMAIN ho.untaken : l = ho.untaken[i]
                                 \/ l = ho.taken \/ l = ui.hand \/ l = cached
    BY DEF Live, HandoffLeases, Range
  <2>2. \A l \in Live' : /\ l # NoLease
                         /\ \/ \E i \in DOMAIN ho'.untaken : l = ho'.untaken[i]
                            \/ l = ho'.taken \/ l = ui'.hand \/ l = cached'
    BY DEF Live, HandoffLeases, Range
  <2>3. \A i \in DOMAIN ho'.untaken : ho'.untaken[i] \in Live \/ ho'.untaken[i] = NoLease
    BY <1>7, <2>1
  <2>4. ho'.taken \in Live \/ ho'.taken = NoLease
    BY <1>7, <2>1
  <2>5. ui'.hand \in Live \/ ui'.hand = NoLease
    BY <1>3, <1>4, <1>9, <2>1, <2>4
  <2>6. cached' \in Live \/ cached' = NoLease
    BY <1>4, <2>1
  <2> QED
    BY <2>2, <2>3, <2>4, <2>5, <2>6
<1>12. OneSequence'
  <2>1. \A i, j \in DOMAIN ho.untaken :
           i < j => ContinuesSequence(ho.untaken[i], ho.untaken[j])
    BY DEF IInv, OneSequence
  <2>2. CASE ho' = ho
    BY <2>1, <2>2 DEF OneSequence
  <2>3. CASE ho' # ho
    <3>1. /\ DOMAIN ho'.untaken = 1 .. Len(ho.untaken) - 1 /\ Len(ho.untaken) \in Nat
          /\ \A i \in DOMAIN ho'.untaken :
               i + 1 \in DOMAIN ho.untaken /\ ho'.untaken[i] = ho.untaken[i + 1]
      BY <1>7, <2>3
    <3> SUFFICES ASSUME NEW i \in DOMAIN ho'.untaken, NEW j \in DOMAIN ho'.untaken, i < j
                 PROVE  ContinuesSequence(ho'.untaken[i], ho'.untaken[j])
      BY DEF OneSequence
    <3>2. i + 1 < j + 1
      BY <3>1
    <3> QED
      BY <2>1, <3>1, <3>2
  <2> QED
    BY <2>2, <2>3
<1>13. ui'.hand \in MaybeLease /\ cached' \in MaybeLease
  BY <1>1, <1>3, <1>4, <1>10
<1>14. ui' \in UiStates
  BY <1>1, <1>2, <1>13 DEF UiStates
<1>15. /\ NotBefore(ho.taken, cached) /\ NotBefore(ho.taken, ui.hand)
       /\ \A i \in DOMAIN ho.untaken :
             /\ NotBefore(ho.untaken[i], cached) /\ NotBefore(ho.untaken[i], ui.hand)
             /\ NotBefore(ho.untaken[i], ho.taken)
  BY DEF IInv, ShownOK
<1>16. ShownOK'
  <2>1. NotBefore(ho'.taken, cached)
    BY <1>7, <1>15
  <2>2. \A i \in DOMAIN ho'.untaken : NotBefore(ho'.untaken[i], cached)
    BY <1>7, <1>15
  <2>3. \A l : NotBefore(l, NoLease) /\ NotBefore(NoLease, l)
    BY DEF NotBefore
  <2>4. NotBefore(ho'.taken, cached') /\ \A i \in DOMAIN ho'.untaken : NotBefore(ho'.untaken[i], cached')
    BY <1>4, <2>1, <2>2, <2>3
  <2>5. \A i \in DOMAIN ho'.untaken : NotBefore(ho'.untaken[i], ho'.taken)
    <3>1. CASE ho' = ho
      BY <1>15, <3>1
    <3>2. CASE ho' # ho
      <4>1. /\ 1 \in DOMAIN ho.untaken /\ ho'.taken = ho.untaken[1]
            /\ DOMAIN ho'.untaken = 1 .. Len(ho.untaken) - 1 /\ Len(ho.untaken) \in Nat
            /\ \A i \in DOMAIN ho'.untaken :
                 i + 1 \in DOMAIN ho.untaken /\ ho'.untaken[i] = ho.untaken[i + 1]
        BY <1>7, <3>2
      <4> SUFFICES ASSUME NEW i \in DOMAIN ho'.untaken
                   PROVE  NotBefore(ho'.untaken[i], ho'.taken)
        OBVIOUS
      <4>2. 1 < i + 1 /\ i + 1 \in DOMAIN ho.untaken
        BY <4>1
      <4>3. ContinuesSequence(ho.untaken[1], ho.untaken[i + 1])
        BY <4>1, <4>2 DEF IInv, OneSequence
      <4>4. NotBefore(ho.untaken[i + 1], ho.untaken[1])
        BY <1>8, <4>1, <4>2, <4>3, OrderFacts
      <4> QED
        BY <4>1, <4>4
    <3> QED
      BY <3>1, <3>2
  <2>6. ho'.taken \in MaybeLease
    BY <1>6 DEF Handoffs
  <2>7. /\ NotBefore(ui'.hand, cached') /\ NotBefore(ho'.taken, ui'.hand)
        /\ \A i \in DOMAIN ho'.untaken : NotBefore(ho'.untaken[i], ui'.hand)
    <3>1. CASE ui'.hand = NoLease
      BY <2>3, <3>1
    <3>2. CASE ui'.hand = cached'
      BY <1>13, <2>4, <3>2, OrderFacts
    <3>3. CASE ui'.hand = ho'.taken
      BY <2>4, <2>5, <2>6, <3>3, OrderFacts
    <3> QED
      BY <1>3, <1>9, <3>1, <3>2, <3>3
  <2> QED
    BY <2>4, <2>5, <2>7 DEF ShownOK
<1>17. /\ count' \in [frames : 0 .. MaxFrames, operations : 0 .. MaxOperations,
                      refusals : 0 .. MaxRefusals]
       /\ count'.frames = count.frames /\ count'.operations = count.operations
       /\ redraw' \in BOOLEAN /\ claimed' \in MaybeLease /\ Live' \subseteq Live
  BY <1>1, <1>2, <1>11
<1>18. IInv'
  BY <1>2, <1>3, <1>6, <1>12, <1>13, <1>14, <1>16, <1>17, UiDropStep
<1> QED
  BY <1>4, <1>18

\* The steps of the UI that touch no lease.
LEMMA UiQuietKeeps ==
  ASSUME IInv, UiBegin \/ UiTimer \/ UiPeek \/ UiProbe
  PROVE  IInv' /\ cached' = cached
<1>1. /\ ui \in UiStates /\ ho \in Handoffs /\ cached \in MaybeLease /\ claimed \in MaybeLease
      /\ ui.hand \in MaybeLease /\ redraw \in BOOLEAN
  BY UiFacts
<1>2. /\ pl' = pl /\ made' = made /\ used' = used /\ ho' = ho /\ acks' = acks
      /\ submitted' = submitted /\ wpc' = wpc /\ wakes' = wakes /\ ending' = ending
      /\ snap' = snap /\ cached' = cached /\ count' = count
  BY DEF UiBegin, UiTimer, UiPeek, UiProbe, BeginFrame, UiKeeps
<1>3. NewestPublished(ho) \in MaybeLease /\ NextForRender(ho) \in MaybeLease
  BY <1>1, HandoffFacts
<1>4. snap \in [gen : Generations, has : BOOLEAN]
  BY DEF IInv, Types
<1>5. ui' \in UiStates /\ ui'.hand = ui.hand
  <2>1. CASE BeginFrame
    BY <1>1, <1>3, <1>4, <2>1 DEF BeginFrame, UiStates
  <2>2. CASE UiPeek
    <3>1. \E pc \in {"acquire", "idle"} : ui' = [ui EXCEPT !.pc = pc]
      BY <2>2 DEF UiPeek
    <3> QED
      BY <1>1, <3>1 DEF UiStates
  <2>3. CASE UiProbe
    BY <1>1, <2>3 DEF UiProbe, UiStates
  <2> QED
    BY <2>1, <2>2, <2>3 DEF UiBegin, UiTimer
<1>6. wake' \in BOOLEAN
  <2>1. wake \in BOOLEAN
    BY DEF IInv, Types
  <2> QED
    BY <2>1 DEF UiBegin, UiTimer, UiPeek, UiProbe, BeginFrame, UiKeeps
<1>7. redraw' \in BOOLEAN
  BY <1>1 DEF UiBegin, UiTimer, UiPeek, UiProbe, BeginFrame
<1>8. claimed' \in MaybeLease
  BY <1>1, <1>3 DEF UiBegin, UiTimer, UiPeek, UiProbe, BeginFrame
<1>9. Live' = Live
  BY <1>2, <1>5 DEF Live
<1>10. Held' = Held
  BY <1>2, <1>9 DEF Held
<1>11. Fresh => Fresh'
  <2>1. CASE BeginFrame
    <3>1. ui'.snap = snap /\ ui'.seen = NewestPublished(ho)
      BY <1>1, <2>1 DEF BeginFrame, UiStates
    <3> QED
      BY <1>2, <3>1 DEF Fresh
  <2>2. CASE UiPeek \/ UiProbe
    <3>1. ui'.snap = ui.snap /\ ui'.seen = ui.seen /\ wake' = wake
      BY <1>1, <2>2 DEF UiPeek, UiProbe, UiStates, UiKeeps
    <3> QED
      BY <1>2, <3>1 DEF Fresh
  <2> QED
    BY <2>1, <2>2 DEF UiBegin, UiTimer
<1>12. StageOK' /\ WakeOK'
  <2>1. SameSession(pl, pl')
    BY <1>2 DEF SameSession
  <2>2. StageOK /\ WakeOK
    BY DEF IInv
  <2> QED
    BY <1>2, <1>10, <1>11, <2>1, <2>2, SameStage
<1>13. LeasesOK'
  BY <1>2, <1>9 DEF IInv, LeasesOK
<1>14. OneSequence' /\ ShownOK' /\ BehindOK(Live', pl')
  BY <1>2, <1>5, <1>9 DEF IInv, OneSequence, ShownOK
<1>15. Types'
  BY <1>2, <1>5, <1>6, <1>7, <1>8, <1>9 DEF IInv, Types, UiStates
<1> QED
  BY <1>2, <1>12, <1>13, <1>14, <1>15 DEF IInv

-----------------------------------------------------------------------------
(* The session *)

Counts == [frames : 0 .. MaxFrames, operations : 0 .. MaxOperations, refusals : 0 .. MaxRefusals]

\* The lease of the present frame.
LEMMA LeaseOfFacts ==
  ASSUME NEW p \in Pipelines, p.present # NoLease
  PROVE  /\ LeaseOf(p) \in Leases /\ LeaseOf(p) # NoLease /\ Token(LeaseOf(p)) = PresentToken(p)
         /\ LeaseOf(p).gen = p.gen /\ LeaseOf(p).dgen = p.present.dgen
         /\ LeaseOf(p).h = p.present.h
<1>1. /\ p.gen \in Generations /\ p.present.dec \in Decoders /\ p.present.h \in Handles
      /\ p.present.dgen \in Generations
  BY Fields, FrameFacts
<1>2. LeaseOf(p) \in Leases
  BY <1>1 DEF LeaseOf, Leases
<1>3. Token(LeaseOf(p)) = PresentToken(p)
  BY DEF Token, LeaseOf, PresentToken
<1>4. /\ LeaseOf(p).gen = p.gen /\ LeaseOf(p).dgen = p.present.dgen
      /\ LeaseOf(p).h = p.present.h
  BY DEF LeaseOf
<1> QED
  BY <1>2, <1>3, <1>4, NoLeaseAssumption

\* A frame that is leased already is still the published one.
Continues(p, q, H) ==
    q.present # NoLease /\ PresentToken(q) \in H =>
        /\ p.present # NoLease
        /\ LeaseOf(q) = LeaseOf(p) /\ PresentToken(q) = PresentToken(p)

\* What holds when the worker rests.
LEMMA IdleFacts ==
  ASSUME IInv, wpc # "ended"
  PROVE  /\ pl \in Pipelines /\ Held \in SUBSET Tokens /\ TokensOK(Held) /\ Exact(pl, Held)
         /\ NumbersOK(pl, made, used, count) /\ BehindOK(Live, pl) /\ used \in Decoders
         /\ count \in Counts /\ made \in [Decoders -> 0 .. MaxFrames] /\ Live \subseteq Leases
         /\ acks \in Seq(Acks)
<1>1. /\ pl \in Pipelines /\ used \in Decoders /\ made \in [Decoders -> 0 .. MaxFrames]
      /\ acks \in Seq(Acks)
  BY DEF IInv, Types
<1>2. count \in Counts
  BY DEF IInv, Types, Counts
<1>3. Live \subseteq Leases
  BY LiveIsSmall DEF IInv
<1>4. NumbersOK(pl, made, used, count) /\ BehindOK(Live, pl) /\ Accounted(pl, Live, acks, wpc)
  BY DEF IInv, LeasesOK
<1>5. TokensOK(Held) /\ Exact(pl, Held)
  BY <1>1, <1>4 DEF Accounted, Held, Exact
<1>6. Held \in SUBSET Tokens
  <2>1. \A l \in Live : Token(l) \in Tokens
    BY <1>3, AckFacts
  <2>2. \A i \in DOMAIN acks : Token(acks[i]) \in Tokens
    <3>1. \A i \in DOMAIN acks : acks[i] \in Acks
      BY <1>1
    <3> QED
      BY <3>1 DEF Acks, Token, Tokens
  <2>3. wpc = "push" => PresentToken(pl) \in Tokens
    <3>1. wpc = "push" => pl.present # NoLease
      BY DEF IInv, StageOK
    <3> QED
      BY <1>1, <3>1, Fields, FrameFacts DEF PresentToken, Tokens
  <2> QED
    BY <2>1, <2>2, <2>3 DEF Held, HeldBy
<1> QED
  BY <1>1, <1>2, <1>3, <1>4, <1>5, <1>6

\* An operation that leaves the session as q and begins a publication.
LEMMA OperationKeeps ==
  ASSUME IInv, NEW q, NEW e \in BOOLEAN, wpc = "idle", ThenPublish(q, e),
         Exact(q, Held), NumbersOK(q, made', used', count'), made' = made, used' \in Decoders,
         count' \in Counts, ending' \in BOOLEAN, BehindOK(Live, q), Continues(pl, q, Held),
         e \/ q.gen = pl.gen
  PROVE  IInv' /\ cached' = cached
<1>1. /\ pl' = q /\ wpc' = "drain" /\ wakes' = e
      /\ ho' = ho /\ acks' = acks /\ snap' = snap /\ wake' = wake /\ ui' = ui
      /\ cached' = cached /\ redraw' = redraw /\ claimed' = claimed /\ submitted' = submitted
  BY DEF ThenPublish, uiVars
<1>2. Live' = Live
  BY <1>1 DEF Live
<1>3. Held' = Held
  BY <1>1, <1>2 DEF Held, HeldBy
<1>4. Accounted(q, Live, acks, "drain")
  <2>1. HeldBy(Live, acks, "drain", q) = Held
    BY DEF Held, HeldBy
  <2>2. Accounted(pl, Live, acks, wpc) /\ TokensOK(Held)
    BY DEF IInv, LeasesOK, Accounted, Held
  <2>3. PlacesOK(Live, acks, "drain", q)
    BY <2>2 DEF Accounted, PlacesOK
  <2> QED
    BY <2>1, <2>2, <2>3 DEF Accounted, Exact
<1>5. RoomOK(Live, acks, "drain")
  BY DEF IInv, LeasesOK, RoomOK
<1>6. LeasesOK'
  BY <1>1, <1>2, <1>4, <1>5 DEF LeasesOK
<1>7. pl \in Pipelines
  BY DEF IInv, Types
<1>8. StageOK'
  <2>1. q.present # NoLease /\ PresentToken(q) \in Held => NewestPublished(ho) = LeaseOf(q)
    BY DEF Continues, IInv, StageOK
  <2> QED
    BY <1>1, <1>3, <2>1 DEF StageOK
<1>9. WakeOK'
  <2> SUFFICES ASSUME ~e
               PROVE  /\ Fresh' /\ snap'.gen = pl'.gen
                      /\ snap'.has <=> NewestPublished(ho') # NoLease
    BY <1>1 DEF WakeOK
  <2>1. Fresh /\ snap = Current
    BY DEF IInv, WakeOK
  <2>2. Fresh'
    BY <1>1, <2>1 DEF Fresh
  <2>3. snap.gen = pl.gen /\ (snap.has <=> pl.present # NoLease)
    BY <2>1 DEF Current
  <2>4. NewestPublished(ho) # NoLease <=> pl.present # NoLease
    BY <1>7, LeaseOfFacts DEF IInv, StageOK
  <2> QED
    BY <1>1, <2>2, <2>3, <2>4
<1>10. OneSequence' /\ ShownOK' /\ BehindOK(Live', pl')
  BY <1>1, <1>2 DEF IInv, OneSequence, ShownOK
<1>11. Types'
  <2>1. q \in Pipelines
    BY DEF Exact
  <2> QED
    BY <1>1, <1>2, <2>1 DEF IInv, Types, Counts
<1> QED
  BY <1>1, <1>6, <1>8, <1>9, <1>10, <1>11 DEF IInv

\* A counted operation.
LEMMA OperationFacts ==
  ASSUME IInv, Operation
  PROVE  /\ wpc = "idle" /\ count' \in Counts /\ count'.frames = count.frames
         /\ count'.operations = count.operations + 1
         /\ count.operations \in Nat /\ count.operations + 1 <= MaxOperations
<1>1. count \in Counts
  BY DEF IInv, Types, Counts
<1>2. /\ wpc = "idle" /\ count.operations < MaxOperations
      /\ count' = [count EXCEPT !.operations = @ + 1]
  BY DEF Operation, Ready
<1>3. count.operations \in Nat /\ count.operations + 1 \in 0 .. MaxOperations
  BY <1>1, <1>2, Bounds DEF Counts
<1> QED
  BY <1>1, <1>2, <1>3, Bounds DEF Counts

\* After an operation that opens a generation every lease is of a past one.
LEMMA OpenedFacts ==
  ASSUME NEW p \in Pipelines, NEW L \in SUBSET Leases, NEW H, HeldOK(p, H), NEW q,
         \A l \in L : Token(l) \in H, Opened(p, q, H)
  PROVE  BehindOK(L, q) /\ Continues(p, q, H)
<1>1. q.gen = p.gen + 1 /\ q.present = NoLease
  BY DEF Opened
<1>2. \A l \in L : l.gen \in Nat /\ l.gen <= p.gen
  <2>1. \A l \in L : l.gen \in Generations /\ Token(l).gen = l.gen
    BY DEF Leases, Token
  <2> QED
    BY <2>1, Bounds DEF HeldOK
<1>3. p.gen \in Nat
  BY Fields, Bounds
<1>4. \A l \in L : l.gen < q.gen
  BY <1>1, <1>2, <1>3
<1> QED
  BY <1>1, <1>4 DEF BehindOK, Continues

\* A lease that is alive is held.
LEMMA LiveIsHeld ==
  ASSUME NEW l \in Live
  PROVE  Token(l) \in Held
  BY DEF Held, HeldBy

\* The next generation exists, and a decoder not yet started has made no frame.
LEMMA NewNumbers ==
  ASSUME IInv, Operation
  PROVE  /\ pl.gen + 1 \in Generations /\ pl.dgen + 1 \in Generations
         /\ pl.gen \in Nat /\ pl.dgen \in Nat /\ used \in Nat /\ pl.dec \in Nat
         /\ pl.gen <= count.operations /\ pl.dgen <= count.operations /\ pl.dec <= used
         /\ used < MaxDecoders =>
               /\ used + 1 \in Decoders /\ used + 1 \in 0 .. MaxDecoders
               /\ pl.pool[used + 1] = {} /\ used + 1 # pl.dec /\ used + 1 # 0
<1>1. /\ wpc = "idle" /\ count.operations \in Nat /\ count.operations + 1 <= MaxOperations
  BY OperationFacts
<1>2. /\ pl \in Pipelines /\ NumbersOK(pl, made, used, count) /\ used \in Decoders
  BY <1>1, IdleFacts
<1>3. /\ pl.gen \in Nat /\ pl.dgen \in Nat /\ used \in Nat /\ pl.dec \in Nat /\ used # 0
      /\ pl.gen <= count.operations /\ pl.dgen <= count.operations /\ pl.dec <= used
  BY <1>2, Fields, Bounds DEF NumbersOK
<1>4. pl.gen + 1 \in Generations /\ pl.dgen + 1 \in Generations
  BY <1>1, <1>3, Bounds DEF Generations
<1>5. ASSUME used < MaxDecoders
      PROVE  /\ used + 1 \in Decoders /\ used + 1 \in 0 .. MaxDecoders
             /\ pl.pool[used + 1] = {} /\ used + 1 # pl.dec /\ used + 1 # 0
  <2>1. used + 1 \in Decoders /\ used + 1 \in 0 .. MaxDecoders /\ used + 1 > used
    BY <1>3, <1>5, Bounds DEF Decoders
  <2>2. made[used + 1] = 0 /\ \A h \in pl.pool[used + 1] : h <= made[used + 1]
    BY <1>2, <2>1 DEF NumbersOK
  <2>3. pl.pool[used + 1] \subseteq Handles
    BY <1>2, <2>1, Fields
  <2>4. pl.pool[used + 1] = {}
    <3>1. \A h \in pl.pool[used + 1] : h <= 0 /\ h \in Nat /\ 1 <= h
      BY <2>2, <2>3, Bounds
    <3> QED
      BY <3>1
  <2> QED
    BY <1>3, <2>1, <2>4
<1> QED
  BY <1>3, <1>4, <1>5

\* The operations that open a generation.
LEMMA OpenStep ==
  ASSUME IInv, Operation, NEW q, ThenPublish(q, TRUE), Opened(pl, q, Held), q.dec <= used',
         q.dgen <= count.operations + 1, made' = made, used' \in Decoders, used <= used',
         ending' \in BOOLEAN
  PROVE  IInv' /\ cached' = cached
<1>1. /\ wpc = "idle" /\ count' \in Counts /\ count'.frames = count.frames
      /\ count'.operations = count.operations + 1 /\ count.operations \in Nat
  BY OperationFacts
<1>2. /\ pl \in Pipelines /\ NumbersOK(pl, made, used, count) /\ used \in Nat /\ used' \in Nat
      /\ Live \in SUBSET Leases /\ HeldOK(pl, Held)
  BY <1>1, IdleFacts, Bounds DEF Exact
<1>3. /\ Exact(q, Held) /\ q.gen = pl.gen + 1
      /\ \A d \in Decoders : q.pool[d] \subseteq pl.pool[d]
  BY DEF Opened
<1>4. q.gen <= count'.operations /\ q.dgen <= count'.operations
  <2>1. pl.gen \in Nat /\ pl.gen <= count.operations
    BY NewNumbers
  <2> QED
    BY <1>1, <1>3, <2>1
<1>5. NumbersOK(q, made', used', count')
  BY <1>1, <1>2, <1>3, <1>4, NumbersKeep
<1>6. BehindOK(Live, q) /\ Continues(pl, q, Held)
  BY <1>2, LiveIsHeld, OpenedFacts
<1>7. TRUE \in BOOLEAN
  OBVIOUS
<1> QED
  BY <1>1, <1>3, <1>5, <1>6, <1>7, OperationKeeps

\* Stop.
LEMMA StopStepKeeps ==
  ASSUME IInv, Stop
  PROVE  IInv' /\ cached' = cached
<1>1. /\ Operation /\ ThenPublish(Stopped(pl), TRUE)
      /\ made' = made /\ used' = used /\ ending' = ending
  BY DEF Stop, Stopped
<1>2. /\ wpc = "idle" /\ count.operations \in Nat
  BY <1>1, OperationFacts
<1>3. /\ pl \in Pipelines /\ Held \in SUBSET Tokens /\ TokensOK(Held) /\ Exact(pl, Held)
      /\ used \in Decoders
  BY <1>2, IdleFacts
<1>4. pl.gen + 1 \in Generations /\ pl.dec <= used /\ used \in Nat
  BY <1>1, NewNumbers
<1>5. PICK q : q = Stopped(pl)
  OBVIOUS
<1>6. Opened(pl, q, Held) /\ q.dec = pl.dec /\ q.dgen = 0
  BY <1>3, <1>4, <1>5, StopKeeps
<1>7. q.dec <= used' /\ q.dgen <= count.operations + 1 /\ used <= used' /\ used' \in Decoders
  BY <1>1, <1>2, <1>3, <1>4, <1>6
<1>8. ending' \in BOOLEAN
  BY <1>1 DEF IInv, Types
<1>9. ThenPublish(q, TRUE)
  BY <1>1, <1>5
<1> QED
  BY <1>1, <1>6, <1>7, <1>8, <1>9, OpenStep

\* The install of the next medium.
LEMMA InstallMediaKeeps ==
  ASSUME IInv, InstallMedia
  PROVE  IInv' /\ cached' = cached
<1>1. Operation /\ made' = made /\ ending' = ending
  BY DEF InstallMedia
<1>2. PICK d \in {0} \cup (IF used < MaxDecoders THEN {used + 1} ELSE {}) :
         /\ ThenPublish(Installed(pl, d), TRUE)
         /\ used' = IF d = 0 THEN used ELSE d
  BY DEF InstallMedia, Installed, NextMedium, NewDecoder
<1>3. /\ wpc = "idle" /\ count.operations \in Nat
  BY <1>1, OperationFacts
<1>4. /\ pl \in Pipelines /\ Held \in SUBSET Tokens /\ TokensOK(Held) /\ Exact(pl, Held)
      /\ used \in Decoders
  BY <1>3, IdleFacts
<1>5. /\ pl.gen + 1 \in Generations /\ pl.dec <= used /\ used \in Nat
      /\ used < MaxDecoders => /\ used + 1 \in Decoders /\ used + 1 \in 0 .. MaxDecoders
                               /\ pl.pool[used + 1] = {} /\ used + 1 # 0
  BY <1>1, NewNumbers
<1>6. d = 0 \/ (d = used + 1 /\ used < MaxDecoders)
  BY <1>2
<1>7. d \in 0 .. MaxDecoders /\ (d # 0 => pl.pool[d] = {})
  BY <1>5, <1>6, Bounds
<1>8. PICK q : q = Installed(pl, d)
  OBVIOUS
<1>9. Opened(pl, q, Held) /\ q.dec = d /\ q.dgen = 0
  BY <1>4, <1>5, <1>7, <1>8, InstallKeeps
<1>10. q.dec <= used' /\ q.dgen <= count.operations + 1 /\ used <= used' /\ used' \in Decoders
  BY <1>2, <1>3, <1>4, <1>5, <1>6, <1>9
<1>11. ending' \in BOOLEAN
  BY <1>1 DEF IInv, Types
<1>12. ThenPublish(q, TRUE)
  BY <1>2, <1>8
<1> QED
  BY <1>1, <1>9, <1>10, <1>11, <1>12, OpenStep

\* The install of a video backend.
LEMMA InstallVideoBackendKeeps ==
  ASSUME IInv, InstallVideoBackend
  PROVE  IInv' /\ cached' = cached
<1>1. Operation /\ used < MaxDecoders /\ used' = used + 1 /\ made' = made /\ ending' = ending
  BY DEF InstallVideoBackend, NewDecoder
<1>2. /\ wpc = "idle" /\ count.operations \in Nat /\ count' \in Counts
      /\ count'.frames = count.frames /\ count'.operations = count.operations + 1
  BY <1>1, OperationFacts
<1>3. /\ pl \in Pipelines /\ Held \in SUBSET Tokens /\ TokensOK(Held) /\ Exact(pl, Held)
      /\ used \in Decoders /\ NumbersOK(pl, made, used, count) /\ BehindOK(Live, pl)
  BY <1>2, IdleFacts
<1>4. /\ pl.gen + 1 \in Generations /\ pl.dec <= used /\ used \in Nat /\ pl.dec \in Nat
      /\ pl.gen \in Nat /\ pl.dgen \in Nat
      /\ pl.gen <= count.operations /\ pl.dgen <= count.operations
      /\ used + 1 \in Decoders /\ used + 1 \in 0 .. MaxDecoders
      /\ pl.pool[used + 1] = {} /\ used + 1 # 0
  BY <1>1, NewNumbers
<1>5. ending' \in BOOLEAN
  BY <1>1 DEF IInv, Types
<1>6. CASE pl.dec = 0
  <2>3. PICK d \in Decoders : d = used + 1
    BY <1>4
  <2>1. PICK q : q = WithDecoder(pl, d)
    OBVIOUS
  <2>2. ThenPublish(q, TRUE)
    BY <1>6, <2>1, <2>3 DEF InstallVideoBackend, NewDecoder, WithDecoder
  <2>10. pl.pool[d] = {}
    BY <1>4, <2>3
  <2>4. /\ Exact(q, Held) /\ q.dec = d /\ q.gen = pl.gen /\ q.dgen = pl.dgen
        /\ q.queue = pl.queue /\ q.present = NoLease /\ q.pool = pl.pool
    BY <1>3, <1>6, <2>1, <2>10, FirstBackendKeeps
  <2>5. pl.present = NoLease
    BY <1>3, <1>6 DEF Exact, Accounting, OwnOK
  <2>6. BehindOK(Live, q) /\ Continues(pl, q, Held)
    BY <1>3, <2>4, <2>5 DEF BehindOK, Continues
  <2>7. /\ q.dec <= used' /\ q.gen <= count'.operations /\ q.dgen <= count'.operations
        /\ used <= used' /\ used' \in Nat /\ used' \in Decoders
    BY <1>1, <1>2, <1>4, <2>3, <2>4
  <2>8. NumbersOK(q, made', used', count')
    <3>1. \A e \in Decoders : q.pool[e] \subseteq pl.pool[e]
      BY <2>4
    <3> QED
      BY <1>1, <1>2, <1>3, <1>4, <2>7, <3>1, NumbersKeep
  <2>9. TRUE \in BOOLEAN
    OBVIOUS
  <2> QED
    BY <1>1, <1>2, <1>5, <2>2, <2>4, <2>6, <2>7, <2>8, <2>9, OperationKeeps
<1>7. CASE pl.dec # 0
  <2> DEFINE w == WithoutFrames(pl)
             r == AdvanceRenderGeneration(w, "backend")
  <2>1. PICK ok \in BOOLEAN :
           ThenPublish([r EXCEPT !.dec = IF ok THEN used + 1 ELSE r.dec], TRUE)
    BY <1>7 DEF InstallVideoBackend, NewDecoder
  <2>2. Exact(w, Held) /\ w.dec = pl.dec /\ w.gen = pl.gen
    BY <1>3, WithoutFramesKeeps
  <2>3. r.dec = pl.dec
    <3>1. w \in Pipelines /\ w.gen + 1 \in Generations
      BY <1>4, <2>2 DEF Exact
    <3> HIDE DEF w
    <3> QED
      BY <2>2, <3>1, AdvanceEffect
  <2>4. PICK d : d = IF ok THEN used + 1 ELSE pl.dec
    OBVIOUS
  <2>5. PICK q : q = Swapped(pl, d)
    OBVIOUS
  <2>6. ThenPublish(q, TRUE)
    BY <2>1, <2>3, <2>4, <2>5 DEF Swapped
  <2>7. d \in 0 .. MaxDecoders /\ (d # pl.dec => d # 0 /\ pl.pool[d] = {}) /\ d <= used + 1
    <3>1. CASE ok
      BY <1>4, <2>4, <3>1
    <3>2. CASE ~ok
      BY <1>3, <1>4, <2>4, <3>2, Fields
    <3> QED
      BY <3>1, <3>2
  <2>8. Opened(pl, q, Held) /\ q.dec = d /\ q.dgen = pl.dgen
    BY <1>3, <1>4, <2>5, <2>7, SwapKeeps
  <2>9. q.dec <= used' /\ q.dgen <= count.operations + 1 /\ used <= used' /\ used' \in Decoders
    BY <1>1, <1>2, <1>4, <2>7, <2>8
  <2> QED
    BY <1>1, <1>5, <2>6, <2>8, <2>9, OpenStep
<1> QED
  BY <1>6, <1>7

\* A seek.
LEMMA SeekStepKeeps ==
  ASSUME IInv, Seek
  PROVE  IInv' /\ cached' = cached
<1>1. PICK q : q = Sought(pl)
  OBVIOUS
<1>2. Operation /\ ThenPublish(q, TRUE) /\ used' = used /\ made' = made /\ ending' = ending
  BY <1>1 DEF Seek, Sought
<1>3. /\ wpc = "idle" /\ count.operations \in Nat /\ count' \in Counts
      /\ count'.frames = count.frames /\ count'.operations = count.operations + 1
  BY <1>2, OperationFacts
<1>4. /\ pl \in Pipelines /\ Held \in SUBSET Tokens /\ TokensOK(Held) /\ Exact(pl, Held)
      /\ used \in Decoders /\ NumbersOK(pl, made, used, count) /\ BehindOK(Live, pl)
      /\ Live \subseteq Leases
  BY <1>3, IdleFacts
<1>5. /\ pl.dgen + 1 \in Generations /\ pl.dec <= used /\ used \in Nat
      /\ pl.gen \in Nat /\ pl.dgen \in Nat
      /\ pl.gen <= count.operations /\ pl.dgen <= count.operations
  BY <1>2, NewNumbers
<1>6. /\ Exact(q, Held) /\ q.dec = pl.dec /\ q.gen = pl.gen /\ q.dgen = pl.dgen + 1
      /\ q.queue = << >> /\ q.present = pl.present
      /\ \A d \in Decoders : q.pool[d] \subseteq pl.pool[d]
  BY <1>1, <1>4, <1>5, SeekKeeps
<1>7. Continues(pl, q, Held)
  BY <1>6 DEF Continues, LeaseOf, PresentToken
<1>8. BehindOK(Live, q)
  <2>1. \A l \in Live : l.dgen \in Nat
    BY <1>4, Bounds DEF Leases
  <2>2. \A l \in Live : l.dgen <= pl.dgen => l.dgen <= q.dgen
    BY <1>5, <1>6, <2>1
  <2>3. DOMAIN q.queue = {}
    BY <1>6
  <2> QED
    BY <1>4, <1>6, <2>2, <2>3 DEF BehindOK
<1>9. /\ q.dec <= used' /\ q.gen <= count'.operations /\ q.dgen <= count'.operations
      /\ used <= used' /\ used' \in Nat /\ used' \in Decoders
  BY <1>2, <1>3, <1>4, <1>5, <1>6
<1>10. NumbersOK(q, made', used', count')
  BY <1>2, <1>3, <1>4, <1>5, <1>6, <1>9, NumbersKeep
<1>11. ending' \in BOOLEAN
  BY <1>2 DEF IInv, Types
<1>12. TRUE \in BOOLEAN
  OBVIOUS
<1> QED
  BY <1>2, <1>3, <1>6, <1>7, <1>8, <1>9, <1>10, <1>11, <1>12, OperationKeeps

\* A tick without a new frame, and the shutdown event.
LEMMA RepublishKeeps ==
  ASSUME IInv, Republish \/ Shutdown
  PROVE  IInv' /\ cached' = cached
<1>1. PICK e \in BOOLEAN : ThenPublish(pl, e)
  BY DEF Republish, Shutdown
<1>2. Operation /\ used' = used /\ made' = made /\ (ending' = ending \/ ending' = TRUE)
  BY DEF Republish, Shutdown
<1>3. /\ wpc = "idle" /\ count.operations \in Nat /\ count' \in Counts
      /\ count'.frames = count.frames /\ count'.operations = count.operations + 1
  BY <1>2, OperationFacts
<1>4. /\ pl \in Pipelines /\ Exact(pl, Held)
      /\ used \in Decoders /\ NumbersOK(pl, made, used, count) /\ BehindOK(Live, pl)
  BY <1>3, IdleFacts
<1>5. /\ pl.dec <= used /\ used \in Nat /\ pl.gen \in Nat /\ pl.dgen \in Nat
      /\ pl.gen <= count.operations /\ pl.dgen <= count.operations
  BY <1>2, NewNumbers
<1>6. Continues(pl, pl, Held)
  BY DEF Continues
<1>7. /\ pl.dec <= used' /\ pl.gen <= count'.operations /\ pl.dgen <= count'.operations
      /\ used <= used' /\ used' \in Nat /\ used' \in Decoders
  BY <1>2, <1>3, <1>4, <1>5
<1>8. NumbersOK(pl, made', used', count')
  <2>1. \A d \in Decoders : pl.pool[d] \subseteq pl.pool[d]
    OBVIOUS
  <2> QED
    BY <1>2, <1>3, <1>4, <1>5, <1>7, <2>1, NumbersKeep
<1>9. ending' \in BOOLEAN
  <2>1. ending \in BOOLEAN
    BY DEF IInv, Types
  <2> QED
    BY <1>2, <2>1
<1> QED
  BY <1>1, <1>2, <1>3, <1>4, <1>6, <1>7, <1>8, <1>9, OperationKeeps

\* What the operations that count nothing leave.
LEMMA UncountedFacts ==
  ASSUME IInv, wpc = "idle", NEW q, q.dec = pl.dec, q.gen = pl.gen, q.dgen = pl.dgen,
         \A d \in Decoders : q.pool[d] \subseteq pl.pool[d]
  PROVE  NumbersOK(q, made, used, count)
<1>1. NumbersOK(pl, made, used, count) /\ used \in Nat
  BY IdleFacts, Bounds
<1>2. /\ q.dec <= used /\ q.gen <= count.operations /\ q.dgen <= count.operations
      /\ used <= used
  BY <1>1 DEF NumbersOK
<1> QED
  BY <1>1, <1>2, NumbersKeep

\* The stale picture is given up.
LEMMA ReleaseStaleStepKeeps ==
  ASSUME IInv, ReleaseStalePresentFrame
  PROVE  IInv' /\ cached' = cached
<1>1. PICK q : q = StaleReleased(pl)
  OBVIOUS
<1>2. /\ wpc = "idle" /\ pl.present # NoLease /\ ThenPublish(q, FALSE)
      /\ used' = used /\ made' = made /\ ending' = ending /\ count' = count
  BY <1>1 DEF ReleaseStalePresentFrame, StaleReleased, WithoutPresent, Ready
<1>3. /\ pl \in Pipelines /\ Held \in SUBSET Tokens /\ TokensOK(Held) /\ Exact(pl, Held)
      /\ used \in Decoders /\ BehindOK(Live, pl) /\ count \in Counts
  BY <1>2, IdleFacts
<1>4. /\ Exact(q, Held) /\ q.dec = pl.dec /\ q.gen = pl.gen
      /\ q.dgen = pl.dgen /\ q.queue = pl.queue /\ q.present = NoLease
      /\ \A d \in Decoders : q.pool[d] \subseteq pl.pool[d]
  BY <1>1, <1>2, <1>3, StaleReleaseKeeps
<1>5. BehindOK(Live, q) /\ Continues(pl, q, Held)
  BY <1>3, <1>4 DEF BehindOK, Continues
<1>6. NumbersOK(q, made', used', count')
  BY <1>2, <1>4, UncountedFacts
<1>7. used' \in Decoders /\ count' \in Counts
  BY <1>2, <1>3
<1>8. ending' \in BOOLEAN
  BY <1>2 DEF IInv, Types
<1>9. FALSE \in BOOLEAN
  OBVIOUS
<1> QED
  BY <1>2, <1>4, <1>5, <1>6, <1>7, <1>8, <1>9, OperationKeeps

\* The next frame is presented.
LEMMA PresentNextStepKeeps ==
  ASSUME IInv, PresentNext
  PROVE  IInv' /\ cached' = cached
<1>1. PICK q : q = NextPresented(pl)
  OBVIOUS
<1>2. /\ wpc = "idle" /\ pl.queue # << >> /\ ThenPublish(q, FALSE)
      /\ used' = used /\ made' = made /\ ending' = ending /\ count' = count
  BY <1>1 DEF PresentNext, NextPresented, WithNext, Ready
<1>3. /\ pl \in Pipelines /\ Held \in SUBSET Tokens /\ TokensOK(Held) /\ Exact(pl, Held)
      /\ used \in Decoders /\ BehindOK(Live, pl) /\ count \in Counts /\ Live \subseteq Leases
  BY <1>2, IdleFacts
<1>4. /\ Exact(q, Held) /\ q.dec = pl.dec /\ q.gen = pl.gen
      /\ q.dgen = pl.dgen /\ q.queue = Tail(pl.queue) /\ q.present = pl.queue[1]
      /\ q.present # NoLease
      /\ \A d \in Decoders : q.pool[d] \subseteq pl.pool[d]
  BY <1>1, <1>2, <1>3, PresentNextKeeps
<1>5. /\ 1 \in DOMAIN pl.queue /\ Len(pl.queue) \in Nat
      /\ DOMAIN Tail(pl.queue) = 1 .. Len(pl.queue) - 1
      /\ \A i \in DOMAIN Tail(pl.queue) :
            i + 1 \in DOMAIN pl.queue /\ Tail(pl.queue)[i] = pl.queue[i + 1]
  <2>1. pl.queue \in Seq(Frames)
    BY <1>3, Fields
  <2> QED
    BY <1>2, <2>1
<1>6. /\ pl.queue[1].dec = pl.dec /\ pl.queue[1].dgen = pl.dgen
      /\ pl.present # NoLease => pl.present.h < pl.queue[1].h
      /\ DeferOK(pl, Held) /\ pl.queue[1].h \in Nat
  BY <1>3, <1>5, FrameFacts, Bounds DEF Exact, Accounting, OwnOK
<1>7. Continues(pl, q, Held)
  <2> SUFFICES ASSUME PresentToken(q) \in Held PROVE FALSE
    BY DEF Continues
  <2> DEFINE t == PresentToken(q)
  <2>1. t.dec = pl.dec /\ t.h = pl.queue[1].h
    BY <1>4, <1>6 DEF PresentToken
  <2>2. Owned(pl, t.h)
    BY <1>5, <2>1 DEF Owned
  <2> HIDE DEF t
  <2>3. pl.present # NoLease /\ pl.present.h = t.h
    BY <1>6, <2>1, <2>2 DEF DeferOK, t
  <2> QED
    BY <1>6, <2>1, <2>3
<1>8. BehindOK(Live, q)
  <2> SUFFICES ASSUME NEW l \in Live, l.gen = pl.gen
               PROVE  /\ l.dgen <= q.dgen
                      /\ l.dgen = q.dgen => \A i \in DOMAIN q.queue : l.h < q.queue[i].h
                      /\ \/ l.dgen < q.present.dgen
                         \/ l.dgen = q.present.dgen /\ l.h <= q.present.h
    BY <1>3, <1>4 DEF BehindOK
  <2>1. l.gen \in Nat /\ l.dgen \in Nat /\ l.h \in Nat /\ pl.dgen \in Nat
    BY <1>3, Fields, Bounds DEF Leases
  <2>2. /\ l.dgen <= pl.dgen
        /\ l.dgen = pl.dgen => \A i \in DOMAIN pl.queue : l.h < pl.queue[i].h
    BY <1>3, <2>1 DEF BehindOK
  <2>3. l.dgen = pl.dgen => l.h < pl.queue[1].h
    BY <1>5, <2>2
  <2>4. l.dgen = q.dgen => \A i \in DOMAIN q.queue : l.h < q.queue[i].h
    BY <1>4, <1>5, <2>2
  <2>5. \/ l.dgen < q.present.dgen
        \/ l.dgen = q.present.dgen /\ l.h <= q.present.h
    BY <1>4, <1>6, <2>1, <2>2, <2>3
  <2> QED
    BY <1>4, <2>2, <2>4, <2>5
<1>9. NumbersOK(q, made', used', count')
  BY <1>2, <1>4, UncountedFacts
<1>10. used' \in Decoders /\ count' \in Counts
  BY <1>2, <1>3
<1>11. ending' \in BOOLEAN
  BY <1>2 DEF IInv, Types
<1>12. FALSE \in BOOLEAN
  OBVIOUS
<1> QED
  BY <1>2, <1>4, <1>7, <1>8, <1>9, <1>10, <1>11, <1>12, OperationKeeps

\* A frame is decoded.
LEMMA DecodeStepKeeps ==
  ASSUME IInv, Decode
  PROVE  IInv' /\ cached' = cached
<1>1. PICK d, h : d = pl.dec /\ h = made[pl.dec] + 1
  OBVIOUS
<1>2. PICK q : q = Decoded(pl, d, h)
  OBVIOUS
<1>3. /\ wpc = "idle" /\ d # 0 /\ count.frames < MaxFrames
      /\ made' = [made EXCEPT ![d] = h] /\ pl' = q
      /\ count' = [count EXCEPT !.frames = @ + 1]
      /\ used' = used /\ ho' = ho /\ acks' = acks /\ wpc' = wpc /\ wakes' = wakes
      /\ ending' = ending /\ snap' = snap /\ wake' = wake
      /\ ui' = ui /\ cached' = cached /\ redraw' = redraw /\ claimed' = claimed
      /\ submitted' = submitted
  BY <1>1, <1>2 DEF Decode, Decoded, Ready, uiVars
<1>4. /\ pl \in Pipelines /\ Held \in SUBSET Tokens /\ TokensOK(Held) /\ Exact(pl, Held)
      /\ used \in Decoders /\ BehindOK(Live, pl) /\ count \in Counts /\ Live \subseteq Leases
      /\ made \in [Decoders -> 0 .. MaxFrames] /\ NumbersOK(pl, made, used, count)
  BY <1>3, IdleFacts
<1>5. d \in Decoders
  BY <1>1, <1>3, <1>4, Fields DEF Decoders
<1>6. /\ made[d] \in Nat /\ made[d] <= count.frames /\ h = made[d] + 1 /\ count.frames \in Nat
      /\ \A x \in pl.pool[d] : x <= made[d]
      /\ d > used => made[d] = 0
  BY <1>1, <1>4, <1>5, Bounds DEF NumbersOK, Counts
<1>7. h \in Handles /\ h \in Nat /\ h \in 0 .. MaxFrames
  BY <1>3, <1>6, Bounds DEF Handles
<1>8. \A x \in pl.pool[d] : x < h /\ x \in Nat
  <2>1. pl.pool[d] \subseteq Handles
    BY <1>4, <1>5, Fields
  <2>2. \A x \in pl.pool[d] : x \in Nat
    BY <2>1, Bounds
  <2> QED
    BY <1>6, <2>2
<1>9. /\ Exact(q, Held) /\ q.dec = pl.dec /\ q.gen = pl.gen /\ q.dgen = pl.dgen
      /\ q.present = pl.present
      /\ DOMAIN q.queue = 1 .. Len(pl.queue) + 1
      /\ \A i \in 1 .. Len(pl.queue) : q.queue[i] = pl.queue[i]
      /\ q.queue[Len(pl.queue) + 1].h = h
      /\ q.pool[d] = pl.pool[d] \cup {h}
      /\ \A e \in Decoders : e # d => q.pool[e] = pl.pool[e]
  <2>1. d = pl.dec
    BY <1>1
  <2>2. \A x \in pl.pool[d] : x < h
    BY <1>8
  <2>3. Held \in SUBSET Tokens /\ Exact(pl, Held) /\ h \in Handles
    BY <1>4, <1>7
  <2>4. Exact(q, Held) /\ Received(pl, q, d, h)
    BY <1>2, <1>5, <2>1, <2>2, <2>3, DecodeKeeps
  <2> QED
    BY <2>4 DEF Received
<1>10. Live' = Live
  BY <1>3 DEF Live
<1>11. Held' = Held
  BY <1>3, <1>10 DEF Held, HeldBy
<1>12. Accounted(q, Live, acks, wpc)
  <2>1. HeldBy(Live, acks, wpc, q) = Held
    BY <1>3 DEF Held, HeldBy
  <2>2. Accounted(pl, Live, acks, wpc)
    BY DEF IInv, LeasesOK
  <2>3. PlacesOK(Live, acks, wpc, q)
    BY <1>3, <2>2 DEF Accounted, PlacesOK
  <2> QED
    BY <1>3, <1>4, <1>9, <2>1, <2>2, <2>3 DEF Accounted, Exact
<1>13. count' \in Counts /\ count'.frames = count.frames + 1 /\ count'.operations = count.operations
  <2>1. count.frames + 1 \in 0 .. MaxFrames
    BY <1>3, <1>6, Bounds
  <2> QED
    BY <1>3, <1>4, <2>1 DEF Counts
<1>14. NumbersOK(q, made', used, count')
  <2>1. q.dec <= used /\ q.gen <= count'.operations /\ q.dgen <= count'.operations
    BY <1>4, <1>9, <1>13 DEF NumbersOK
  <2> SUFFICES ASSUME NEW e \in Decoders
               PROVE  /\ made'[e] <= count'.frames /\ (e > used => made'[e] = 0)
                      /\ \A x \in q.pool[e] : x <= made'[e]
    BY <2>1 DEF NumbersOK
  <2>2. CASE e = d
    <3>1. made'[e] = h
      BY <1>3, <1>4, <1>5, <2>2
    <3>2. ~(e > used)
      <4>1. pl.dec <= used /\ pl.dec \in Nat /\ used \in Nat
        BY <1>4, Fields, Bounds DEF NumbersOK
      <4> QED
        BY <1>1, <2>2, <4>1
    <3>3. \A x \in q.pool[e] : x <= h
      BY <1>7, <1>8, <1>9, <2>2
    <3>4. h <= count'.frames
      BY <1>6, <1>13
    <3> QED
      BY <3>1, <3>2, <3>3, <3>4
  <2>3. CASE e # d
    <3>1. made'[e] = made[e] /\ q.pool[e] = pl.pool[e]
      BY <1>3, <1>4, <1>9, <2>3
    <3>2. /\ made[e] <= count.frames /\ (e > used => made[e] = 0)
          /\ \A x \in pl.pool[e] : x <= made[e]
      BY <1>4 DEF NumbersOK
    <3>3. made[e] \in Nat
      BY <1>4, Bounds
    <3>4. made[e] <= count'.frames
      BY <1>6, <1>13, <3>2, <3>3
    <3> QED
      BY <3>1, <3>2, <3>4
  <2> QED
    BY <2>2, <2>3
<1>15. LeasesOK'
  BY <1>3, <1>10, <1>12, <1>14 DEF IInv, LeasesOK
<1>16. StageOK' /\ WakeOK'
  <2>1. LeaseOf(q) = LeaseOf(pl) /\ PresentToken(q) = PresentToken(pl)
    BY <1>9 DEF LeaseOf, PresentToken
  <2>2. Current' = Current /\ (Fresh => Fresh')
    BY <1>3, <1>9 DEF Current, Fresh
  <2>3. StageOK'
    BY <1>3, <1>9, <1>11, <2>1 DEF IInv, StageOK
  <2>4. WakeOK'
    BY <1>3, <1>9, <2>2 DEF IInv, WakeOK
  <2> QED
    BY <2>3, <2>4
<1>17. BehindOK(Live, q)
  <2> SUFFICES ASSUME NEW l \in Live, l.gen = pl.gen, l.dgen = pl.dgen, NEW i \in DOMAIN q.queue
               PROVE  l.h < q.queue[i].h
    <3>1. \A l \in Live : l.gen \in Nat
      BY <1>4, Bounds DEF Leases
    <3> QED
      BY <1>4, <1>9, <3>1 DEF BehindOK
  <2>1. l.gen \in Nat
    BY <1>4, Bounds DEF Leases
  <2>2. Len(pl.queue) \in Nat /\ DOMAIN pl.queue = 1 .. Len(pl.queue)
    BY <1>4, FrameFacts
  <2>3. CASE i \in 1 .. Len(pl.queue)
    BY <1>4, <1>9, <2>1, <2>2, <2>3 DEF BehindOK
  <2>4. CASE i = Len(pl.queue) + 1
    <3>1. Token(l) \in Held /\ Token(l).gen = l.gen /\ Token(l).dec = l.dec /\ Token(l).h = l.h
      BY LiveIsHeld DEF Token
    <3>2. l.h \in pl.pool[d]
      BY <1>1, <1>4, <3>1 DEF Exact, HeldOK
    <3> QED
      BY <1>8, <1>9, <2>4, <3>2
  <2> QED
    BY <1>9, <2>2, <2>3, <2>4
<1>18. OneSequence' /\ ShownOK'
  BY <1>3 DEF IInv, OneSequence, ShownOK
<1>19. Types'
  <2>1. q \in Pipelines
    BY <1>9 DEF Exact
  <2>2. made' \in [Decoders -> 0 .. MaxFrames]
    BY <1>3, <1>4, <1>7
  <2> QED
    BY <1>3, <1>10, <1>13, <2>1, <2>2 DEF IInv, Types, Counts
<1> QED
  BY <1>3, <1>10, <1>15, <1>16, <1>17, <1>18, <1>19 DEF IInv

-----------------------------------------------------------------------------
(* The receipt of an ack *)

\* The rest of the channel.
LEMMA TailFacts ==
  ASSUME NEW s \in Seq(Acks), s # << >>, NEW t, t = Tail(s)
  PROVE  /\ t \in Seq(Acks) /\ Len(s) \in Nat /\ Len(t) = Len(s) - 1
         /\ Head(s) = s[1] /\ 1 \in DOMAIN s /\ Head(s) \in Acks
         /\ \A i \in DOMAIN t : i + 1 \in DOMAIN s /\ i + 1 # 1 /\ i \in Nat /\ t[i] = s[i + 1]
         /\ \A i \in DOMAIN s : i = 1 \/ (i - 1 \in DOMAIN t /\ s[i] = t[i - 1])
  OBVIOUS

\* G are the tokens H without that of the ack a.
Less(G, H, a) == G = H \ {Token(a)} /\ Token(a) \in H

\* The token of the ack received is no longer held.
LEMMA HeldTail ==
  ASSUME NEW L, NEW s \in Seq(Acks), s # << >>, NEW t, t = Tail(s), NEW w, w # "push",
         NEW p, NEW q, PlacesOK(L, s, w, p)
  PROVE  /\ Less(HeldBy(L, t, w, q), HeldBy(L, s, w, p), Head(s))
         /\ PlacesOK(L, t, w, q)
<1>1. /\ Head(s) = s[1] /\ 1 \in DOMAIN s
      /\ \A i \in DOMAIN t : i + 1 \in DOMAIN s /\ i + 1 # 1 /\ i \in Nat /\ t[i] = s[i + 1]
      /\ \A i \in DOMAIN s : i = 1 \/ (i - 1 \in DOMAIN t /\ s[i] = t[i - 1])
  BY TailFacts
<1>2. /\ \A l, m \in L : Token(l) = Token(m) => l = m
      /\ \A i, j \in DOMAIN s : Token(s[i]) = Token(s[j]) => i = j
      /\ \A l \in L, i \in DOMAIN s : Token(l) # Token(s[i])
  BY DEF PlacesOK
<1>3. /\ HeldBy(L, t, w, q) = {Token(l) : l \in L} \cup {Token(t[i]) : i \in DOMAIN t}
      /\ HeldBy(L, s, w, p) = {Token(l) : l \in L} \cup {Token(s[i]) : i \in DOMAIN s}
  BY DEF HeldBy
<1>4. HeldBy(L, t, w, q) \subseteq HeldBy(L, s, w, p) \ {Token(Head(s))}
  <2> SUFFICES ASSUME NEW x \in HeldBy(L, t, w, q)
               PROVE  x \in HeldBy(L, s, w, p) /\ x # Token(Head(s))
    OBVIOUS
  <2>1. CASE \E l \in L : x = Token(l)
    BY <1>1, <1>2, <1>3, <2>1
  <2>2. CASE \E i \in DOMAIN t : x = Token(t[i])
    <3>1. PICK i \in DOMAIN t : x = Token(t[i])
      BY <2>2
    <3>2. i + 1 \in DOMAIN s /\ i + 1 # 1 /\ t[i] = s[i + 1]
      BY <1>1
    <3>3. x = Token(s[i + 1])
      BY <3>1, <3>2
    <3>4. x \in HeldBy(L, s, w, p)
      BY <1>3, <3>2, <3>3
    <3>5. Token(s[i + 1]) # Token(s[1])
      BY <1>1, <1>2, <3>2
    <3> QED
      BY <1>1, <3>3, <3>4, <3>5
  <2> QED
    BY <1>3, <2>1, <2>2
<1>5. HeldBy(L, s, w, p) \ {Token(Head(s))} \subseteq HeldBy(L, t, w, q)
  <2> SUFFICES ASSUME NEW x \in HeldBy(L, s, w, p), x # Token(Head(s))
               PROVE  x \in HeldBy(L, t, w, q)
    OBVIOUS
  <2>1. CASE \E l \in L : x = Token(l)
    BY <1>3, <2>1
  <2>2. CASE \E i \in DOMAIN s : x = Token(s[i])
    <3>1. PICK i \in DOMAIN s : x = Token(s[i])
      BY <2>2
    <3>2. i - 1 \in DOMAIN t /\ s[i] = t[i - 1]
      BY <1>1, <3>1
    <3> QED
      BY <1>3, <3>1, <3>2
  <2> QED
    BY <1>3, <2>1, <2>2
<1>6. Token(Head(s)) \in HeldBy(L, s, w, p)
  BY <1>1, <1>3
<1>7. \A i, j \in DOMAIN t : Token(t[i]) = Token(t[j]) => i = j
  <2> SUFFICES ASSUME NEW i \in DOMAIN t, NEW j \in DOMAIN t, Token(t[i]) = Token(t[j])
               PROVE  i = j
    OBVIOUS
  <2>1. i + 1 \in DOMAIN s /\ j + 1 \in DOMAIN s /\ t[i] = s[i + 1] /\ t[j] = s[j + 1]
    BY <1>1
  <2>2. i + 1 = j + 1
    BY <1>2, <2>1
  <2>3. i \in Nat /\ j \in Nat
    BY <1>1
  <2> QED
    BY <2>2, <2>3
<1>8. \A l \in L, i \in DOMAIN t : Token(l) # Token(t[i])
  BY <1>1, <1>2
<1>9. PlacesOK(L, t, w, q)
  BY <1>2, <1>7, <1>8 DEF PlacesOK
<1> QED
  BY <1>4, <1>5, <1>6, <1>9 DEF Less

\* The worker receives an ack, waiting or before a publication.
LEMMA ReceiveKeeps ==
  ASSUME IInv, AckWake \/ DrainReleases
  PROVE  IInv' /\ cached' = cached
<1>1. /\ wpc \in {"idle", "drain"} /\ acks # << >>
      /\ pl' = RecordRelease(pl, Head(acks)) /\ acks' = Tail(acks)
      /\ made' = made /\ used' = used /\ ho' = ho /\ wpc' = wpc /\ wakes' = wakes
      /\ ending' = ending /\ snap' = snap /\ wake' = wake /\ ui' = ui /\ cached' = cached
      /\ redraw' = redraw /\ claimed' = claimed /\ submitted' = submitted /\ count' = count
  BY DEF AckWake, DrainReleases, ReceiveRelease, Ready, uiVars
<1>2. /\ pl \in Pipelines /\ Held \in SUBSET Tokens /\ TokensOK(Held) /\ Exact(pl, Held)
      /\ NumbersOK(pl, made, used, count) /\ BehindOK(Live, pl) /\ used \in Decoders
      /\ acks \in Seq(Acks)
  BY <1>1, IdleFacts
<1>3. Types /\ LeasesOK /\ StageOK /\ WakeOK /\ OneSequence /\ ShownOK
  BY DEF IInv
<1>4. /\ acks' \in Seq(Acks) /\ Len(acks) \in Nat /\ Len(acks') = Len(acks) - 1
      /\ Head(acks) \in Acks
  BY <1>1, <1>2, TailFacts
<1>5. Accounted(pl, Live, acks, wpc) /\ RoomOK(Live, acks, wpc)
  BY <1>3 DEF LeasesOK
<1>6. wpc # "push" /\ PlacesOK(Live, acks, wpc, pl)
  BY <1>1, <1>5 DEF Accounted
<1>7. /\ HeldBy(Live, acks', wpc, pl') = HeldBy(Live, acks, wpc, pl) \ {Token(Head(acks))}
      /\ Token(Head(acks)) \in HeldBy(Live, acks, wpc, pl)
      /\ PlacesOK(Live, acks', wpc, pl')
  <2>1. acks # << >> /\ acks' = Tail(acks) /\ acks \in Seq(Acks) /\ wpc # "push"
    BY <1>1, <1>2
  <2>2. PlacesOK(Live, acks, wpc, pl)
    BY <1>6
  <2>3. Less(HeldBy(Live, acks', wpc, pl'), HeldBy(Live, acks, wpc, pl), Head(acks))
    BY <2>1, <2>2, HeldTail
  <2>4. PlacesOK(Live, acks', wpc, pl')
    BY <2>1, <2>2, HeldTail
  <2> QED
    BY <2>3, <2>4 DEF Less
<1>8. Token(Head(acks)) \in Held
  BY <1>7 DEF Held
<1>9. pl' \in Pipelines /\ Settled(pl, pl', Head(acks))
  BY <1>1, <1>2, <1>4, <1>8, RecordReleaseSettles
<1>10. /\ Exact(pl', Held \ {Token(Head(acks))})
       /\ \A d \in Decoders : pl'.pool[d] \subseteq pl.pool[d]
  BY <1>2, <1>4, <1>8, <1>9, SettledKeeps
<1>11. SameSession(pl, pl')
  BY <1>9 DEF Settled
<1>12. Live' = Live
  BY <1>1 DEF Live
<1>13. Held' = Held \ {Token(Head(acks))}
  <2>1. Held = HeldBy(Live, acks, wpc, pl) /\ Held' = HeldBy(Live', acks', wpc', pl')
    BY DEF Held
  <2> QED
    BY <1>1, <1>7, <1>12, <2>1
<1>14. Accounted(pl', Live, acks', wpc)
  <2>1. HeldBy(Live, acks', wpc, pl') = Held'
    BY <1>1, <1>12 DEF Held
  <2>2. TokensOK(Held')
    BY <1>2, <1>13 DEF TokensOK
  <2>3. Exact(pl', Held')
    BY <1>10, <1>13
  <2> QED
    BY <1>1, <1>7, <2>1, <2>2, <2>3 DEF Accounted, Exact
<1>15. RoomOK(Live, acks', wpc)
  <2>1. Cardinality(Live) \in Nat
    BY <1>3, LiveIsSmall
  <2> QED
    BY <1>1, <1>4, <1>5, <2>1 DEF RoomOK
<1>16. NumbersOK(pl', made, used, count)
  <2>1. used \in Nat /\ used <= used
    BY <1>2, Bounds
  <2>2. pl'.dec <= used /\ pl'.gen <= count.operations /\ pl'.dgen <= count.operations
    BY <1>2, <1>11 DEF NumbersOK, SameSession
  <2> QED
    BY <1>2, <1>10, <2>1, <2>2, NumbersKeep
<1>17. LeasesOK'
  BY <1>1, <1>12, <1>14, <1>15, <1>16 DEF LeasesOK
<1>18. StageOK' /\ WakeOK'
  <2>1. Fresh => Fresh'
    BY <1>1 DEF Fresh
  <2>2. Held' \subseteq Held
    BY <1>13
  <2> QED
    BY <1>1, <1>3, <1>11, <2>1, <2>2, SameStage
<1>19. BehindOK(Live', pl')
  BY <1>2, <1>11, <1>12, BehindKeeps
<1>20. OneSequence' /\ ShownOK'
  BY <1>1, <1>3 DEF OneSequence, ShownOK
<1>21. Types'
  BY <1>1, <1>3, <1>4, <1>9, <1>12 DEF Types
<1> QED
  BY <1>1, <1>17, <1>18, <1>19, <1>20, <1>21 DEF IInv

-----------------------------------------------------------------------------
(* The publication *)

\* The worker goes on, or leaves and takes the channel with it.
GoesOn(q, w, r, v) ==
    /\ w \notin {"push", "ended"} /\ v # "push"
    /\ v = "ended" => r = << >>
    /\ v # "ended" => r = q

\* Whatever the worker does next, the leases are accounted for.
LEMMA AccountedGoesOn ==
  ASSUME NEW p, NEW L, NEW q, NEW w, NEW r, NEW v, Accounted(p, L, q, w), GoesOn(q, w, r, v)
  PROVE  Accounted(p, L, r, v) /\ HeldBy(L, r, v, p) \subseteq HeldBy(L, q, w, p)
<1> DEFINE H == HeldBy(L, q, w, p)
           G == HeldBy(L, r, v, p)
<1>1. G \subseteq H
  BY DEF HeldBy, GoesOn
<1>2. v # "ended" => G = H
  BY DEF HeldBy, GoesOn
<1>3. /\ TokensOK(H) /\ HeldOK(p, H) /\ OldOK(p) /\ Accounting(p, H)
      /\ PlacesOK(L, q, w, p)
  BY DEF Accounted, GoesOn
<1> HIDE DEF G, H
<1>4. TokensOK(G) /\ HeldOK(p, G)
  BY <1>1, <1>3 DEF TokensOK, HeldOK
<1>5. v # "ended" => Accounting(p, G)
  BY <1>2, <1>3
<1>6. PlacesOK(L, r, v, p)
  BY <1>3 DEF PlacesOK, GoesOn
<1>7. v = "ended" => r = << >>
  BY DEF GoesOn
<1> QED
  BY <1>1, <1>3, <1>4, <1>5, <1>6, <1>7 DEF Accounted, G, H

Stages == {"idle", "drain", "probe", "push", "clear", "snapshot", "wake", "ended"}

\* A step of the publication that leaves the pipeline and the handoff alone.
LEMMA MoveKeeps ==
  ASSUME IInv, UNCHANGED <<pl, made, used, ho, wakes, ending, uiVars, count>>,
         GoesOn(acks, wpc, acks', wpc'), wpc' \in Stages,
         wpc' = "probe" => acks = << >>,
         snap' \in [gen : Generations, has : BOOLEAN], wake' \in BOOLEAN,
         Held' \subseteq Held => StageOK' /\ WakeOK'
  PROVE  IInv' /\ cached' = cached
<1>1. /\ pl' = pl /\ made' = made /\ used' = used /\ ho' = ho /\ wakes' = wakes
      /\ ending' = ending /\ ui' = ui /\ cached' = cached /\ redraw' = redraw
      /\ claimed' = claimed /\ submitted' = submitted /\ count' = count
  BY DEF uiVars
<1>2. Types /\ LeasesOK /\ OneSequence /\ ShownOK /\ BehindOK(Live, pl)
  BY DEF IInv
<1>3. Live' = Live
  BY <1>1 DEF Live
<1>4. Accounted(pl, Live, acks, wpc) /\ RoomOK(Live, acks, wpc)
  BY <1>2 DEF LeasesOK
<1>5. /\ Accounted(pl, Live, acks', wpc')
      /\ HeldBy(Live, acks', wpc', pl) \subseteq HeldBy(Live, acks, wpc, pl)
  BY <1>4, AccountedGoesOn
<1>6. Held' \subseteq Held
  <2>1. Held = HeldBy(Live, acks, wpc, pl) /\ Held' = HeldBy(Live', acks', wpc', pl')
    BY DEF Held
  <2> QED
    BY <1>1, <1>3, <1>5, <2>1
<1>7. RoomOK(Live, acks', wpc')
  <2>1. Cardinality(Live) \in Nat /\ Cardinality(Live) <= 5
    BY <1>2, LiveIsSmall
  <2>2. acks = << >> \/ acks' = << >> => RoomOK(Live, acks', wpc')
    BY <2>1 DEF RoomOK, GoesOn
  <2>3. Len(acks) + Cardinality(Live) <= 6
    BY <1>4 DEF RoomOK
  <2>4. wpc' # "push" /\ (wpc' # "ended" => acks' = acks) /\ (wpc' = "ended" => acks' = << >>)
    BY DEF GoesOn
  <2> QED
    BY <2>2, <2>3, <2>4 DEF RoomOK
<1>8. LeasesOK'
  BY <1>1, <1>2, <1>3, <1>5, <1>7 DEF LeasesOK
<1>9. acks' \in Seq(Acks)
  <2>1. acks \in Seq(Acks) /\ << >> \in Seq(Acks)
    BY <1>2 DEF Types
  <2>2. acks' = acks \/ acks' = << >>
    BY DEF GoesOn
  <2> QED
    BY <2>1, <2>2
<1>10. Types'
  BY <1>1, <1>2, <1>3, <1>9 DEF Types, Stages
<1>11. OneSequence' /\ ShownOK' /\ BehindOK(Live', pl')
  BY <1>1, <1>2, <1>3 DEF OneSequence, ShownOK
<1> QED
  BY <1>1, <1>6, <1>8, <1>10, <1>11 DEF IInv

\* The channel is empty, and the publication begins.
LEMMA PublishPresentFrameKeeps ==
  ASSUME IInv, PublishPresentFrame
  PROVE  IInv' /\ cached' = cached
<1>1. /\ wpc = "drain" /\ acks = << >> /\ acks' = acks
      /\ wpc' = IF pl.dec = 0 \/ pl.present = NoLease THEN "clear" ELSE "probe"
      /\ snap' = snap /\ wake' = wake /\ wakes' = wakes /\ pl' = pl /\ ho' = ho /\ ui' = ui
  BY DEF PublishPresentFrame, uiVars
<1>2. UNCHANGED <<pl, made, used, ho, wakes, ending, uiVars, count>>
  BY DEF PublishPresentFrame
<1>3. OwnOK(pl)
  <2>1. Exact(pl, Held)
    BY <1>1, IdleFacts
  <2> QED
    BY <2>1 DEF Exact, Accounting
<1>4. /\ wpc' \in {"clear", "probe"}
      /\ wpc' = "clear" => pl.present = NoLease
      /\ wpc' = "probe" => pl.present # NoLease
  BY <1>1, <1>3 DEF OwnOK
<1>5. StageOK /\ WakeOK /\ Types
  BY DEF IInv
<1>6. Held' \subseteq Held => StageOK' /\ WakeOK'
  <2>1. Held' \subseteq Held => StageOK'
    BY <1>1, <1>4, <1>5 DEF StageOK
  <2>2. Fresh => Fresh'
    BY <1>1 DEF Fresh
  <2>3. WakeOK'
    BY <1>1, <1>4, <1>5, <2>2 DEF WakeOK
  <2> QED
    BY <2>1, <2>3
<1>7. GoesOn(acks, wpc, acks', wpc')
  BY <1>1, <1>4 DEF GoesOn
<1>8. wpc' \in Stages
  BY <1>4 DEF Stages
<1>9. snap' \in [gen : Generations, has : BOOLEAN]
  BY <1>1, <1>5 DEF Types
<1>10. wake' \in BOOLEAN
  BY <1>1, <1>5 DEF Types
<1> QED
  BY <1>1, <1>2, <1>6, <1>7, <1>8, <1>9, <1>10, MoveKeeps

\* The present frame is published already.
LEMMA PublishProbeAgainKeeps ==
  ASSUME IInv, PublishProbe, AlreadyPublished
  PROVE  IInv' /\ cached' = cached
<1>1. /\ wpc = "probe" /\ acks' = acks /\ wpc' = "snapshot"
      /\ snap' = snap /\ wake' = wake /\ wakes' = wakes /\ pl' = pl /\ ho' = ho /\ ui' = ui
  BY DEF PublishProbe, uiVars
<1>2. UNCHANGED <<pl, made, used, ho, wakes, ending, uiVars, count>>
  BY DEF PublishProbe
<1>3. StageOK /\ WakeOK /\ Types
  BY DEF IInv
<1>4. pl.present # NoLease /\ NewestPublished(ho) = LeaseOf(pl) /\ pl \in Pipelines
  BY <1>1, <1>3 DEF StageOK, AlreadyPublished, Types
<1>5. LeaseOf(pl) # NoLease
  BY <1>4, LeaseOfFacts
<1>6. StageOK'
  BY <1>1, <1>4 DEF StageOK
<1>7. WakeOK'
  <2> SUFFICES ASSUME ~wakes PROVE Fresh' /\ snap' = Current'
    BY <1>1 DEF WakeOK
  <2>1. Fresh /\ snap.gen = pl.gen /\ (snap.has <=> NewestPublished(ho) # NoLease)
    BY <1>1, <1>3 DEF WakeOK
  <2>2. snap \in [gen : Generations, has : BOOLEAN]
    BY <1>3 DEF Types
  <2>3. snap.has = TRUE
    BY <1>4, <1>5, <2>1, <2>2
  <2>4. snap = [gen |-> pl.gen, has |-> TRUE]
    BY <2>1, <2>2, <2>3
  <2>5. snap = Current
    BY <1>4, <2>4 DEF Current
  <2>6. Current' = Current
    BY <1>1 DEF Current
  <2>7. Fresh'
    BY <1>1, <2>1 DEF Fresh
  <2> QED
    BY <1>1, <2>5, <2>6, <2>7
<1>8. GoesOn(acks, wpc, acks', wpc')
  BY <1>1 DEF GoesOn
<1>9. wpc' \in Stages /\ wpc' # "probe"
  BY <1>1 DEF Stages
<1>10. snap' \in [gen : Generations, has : BOOLEAN]
  BY <1>1, <1>3 DEF Types
<1>11. wake' \in BOOLEAN
  BY <1>1, <1>3 DEF Types
<1> QED
  BY <1>2, <1>6, <1>7, <1>8, <1>9, <1>10, <1>11, MoveKeeps

\* The snapshot is written.
LEMMA PublishSnapshotKeeps ==
  ASSUME IInv, PublishSnapshot
  PROVE  IInv' /\ cached' = cached
<1>1. /\ wpc = "snapshot" /\ snap' = Current
      /\ wake' = wake /\ wakes' = wakes /\ pl' = pl /\ ho' = ho /\ ui' = ui
      /\ wakes => wpc' = "wake" /\ acks' = acks
      /\ ~wakes => /\ wpc' = IF ending THEN "ended" ELSE "idle"
                   /\ acks' = IF ending THEN << >> ELSE acks
  BY DEF PublishSnapshot, AfterPublication, Current, uiVars
<1>2. UNCHANGED <<pl, made, used, ho, wakes, ending, uiVars, count>>
  BY DEF PublishSnapshot
<1>3. StageOK /\ WakeOK /\ Types
  BY DEF IInv
<1>4. wpc' \in {"idle", "wake", "ended"} /\ GoesOn(acks, wpc, acks', wpc')
  BY <1>1, <1>3 DEF GoesOn, Types
<1>5. Held' \subseteq Held => StageOK'
  BY <1>1, <1>3, <1>4 DEF StageOK
<1>6. WakeOK'
  <2>1. Current' = Current
    BY <1>1 DEF Current
  <2>2. ~wakes => Fresh'
    BY <1>1, <1>3 DEF Fresh, WakeOK
  <2> QED
    BY <1>1, <1>4, <2>1, <2>2 DEF WakeOK
<1>7. wpc' \in Stages /\ wpc' # "probe"
  BY <1>4 DEF Stages
<1>8. snap' \in [gen : Generations, has : BOOLEAN]
  <2>1. pl.gen \in Generations
    BY <1>3, Fields DEF Types
  <2> QED
    BY <1>1, <2>1 DEF Current
<1>9. wake' \in BOOLEAN
  BY <1>1, <1>3 DEF Types
<1> QED
  BY <1>2, <1>4, <1>5, <1>6, <1>7, <1>8, <1>9, MoveKeeps

\* The UI is woken.
LEMMA PublishWakeKeeps ==
  ASSUME IInv, PublishWake
  PROVE  IInv' /\ cached' = cached
<1>1. /\ wpc = "wake" /\ wake' = TRUE /\ snap' = snap
      /\ wakes' = wakes /\ pl' = pl /\ ho' = ho /\ ui' = ui
      /\ wpc' = IF ending THEN "ended" ELSE "idle"
      /\ acks' = IF ending THEN << >> ELSE acks
  BY DEF PublishWake, AfterPublication, uiVars
<1>2. UNCHANGED <<pl, made, used, ho, wakes, ending, uiVars, count>>
  BY DEF PublishWake
<1>3. StageOK /\ WakeOK /\ Types
  BY DEF IInv
<1>4. wpc' \in {"idle", "ended"} /\ GoesOn(acks, wpc, acks', wpc')
  BY <1>1, <1>3 DEF GoesOn, Types
<1>5. Held' \subseteq Held => StageOK'
  BY <1>1, <1>3, <1>4 DEF StageOK
<1>6. WakeOK'
  <2>1. Current' = Current /\ snap = Current
    BY <1>1, <1>3 DEF Current, WakeOK
  <2>2. Fresh'
    BY <1>1 DEF Fresh
  <2> QED
    BY <1>1, <1>4, <2>1, <2>2 DEF WakeOK
<1>7. wpc' \in Stages /\ wpc' # "probe"
  BY <1>4 DEF Stages
<1>8. snap' \in [gen : Generations, has : BOOLEAN]
  BY <1>1, <1>3 DEF Types
<1>9. wake' \in BOOLEAN
  BY <1>1
<1> QED
  BY <1>2, <1>4, <1>5, <1>6, <1>7, <1>8, <1>9, MoveKeeps

\* The present frame is leased for its publication.
LEMMA PublishProbeNewKeeps ==
  ASSUME IInv, PublishProbe, ~AlreadyPublished
  PROVE  IInv' /\ cached' = cached
<1>1. PICK q : q = Registered(pl)
  OBVIOUS
<1>2. /\ wpc = "probe" /\ acks' = acks /\ wpc' = "push" /\ pl' = q
      /\ snap' = snap /\ wake' = wake /\ wakes' = wakes /\ ho' = ho /\ ui' = ui
      /\ made' = made /\ used' = used /\ ending' = ending /\ cached' = cached
      /\ redraw' = redraw /\ claimed' = claimed /\ submitted' = submitted /\ count' = count
  BY <1>1 DEF PublishProbe, Registered, uiVars
<1>3. /\ pl \in Pipelines /\ Held \in SUBSET Tokens /\ TokensOK(Held) /\ Exact(pl, Held)
      /\ NumbersOK(pl, made, used, count) /\ BehindOK(Live, pl)
  BY <1>2, IdleFacts
<1>4. Types /\ LeasesOK /\ StageOK /\ WakeOK /\ OneSequence /\ ShownOK
  BY DEF IInv
<1>5. pl.present # NoLease /\ PresentToken(pl) \notin Held
  BY <1>2, <1>4 DEF StageOK, AlreadyPublished
<1>6. /\ Exact(q, Held \cup {PresentToken(pl)}) /\ TokensOK(Held \cup {PresentToken(pl)})
      /\ SameSession(pl, q) /\ q.pool = pl.pool
  BY <1>1, <1>3, <1>5, RegisterKeeps
<1>7. /\ q.gen = pl.gen /\ q.dgen = pl.dgen /\ q.dec = pl.dec /\ q.present = pl.present
      /\ PresentToken(q) = PresentToken(pl)
  BY <1>6 DEF SameSession, PresentToken
<1>8. Live' = Live
  BY <1>2 DEF Live
<1>9. HeldBy(Live, acks, "push", q) = Held \cup {PresentToken(pl)}
  BY <1>2, <1>7 DEF Held, HeldBy
<1>10. PlacesOK(Live, acks, "push", q)
  <2>1. PlacesOK(Live, acks, wpc, pl)
    BY <1>4 DEF LeasesOK, Accounted
  <2>2. /\ \A l \in Live : Token(l) \in Held
        /\ \A i \in DOMAIN acks : Token(acks[i]) \in Held
    BY DEF Held, HeldBy
  <2> QED
    BY <1>5, <1>7, <2>1, <2>2 DEF PlacesOK
<1>11. Accounted(q, Live, acks, "push")
  <2>1. TokensOK(HeldBy(Live, acks, "push", q)) /\ Exact(q, HeldBy(Live, acks, "push", q))
    BY <1>6, <1>9
  <2> QED
    BY <1>10, <2>1 DEF Accounted, Exact
<1>12. RoomOK(Live, acks, "push")
  BY <1>2, <1>4 DEF LeasesOK, RoomOK
<1>13. NumbersOK(q, made, used, count)
  BY <1>3, <1>6, <1>7 DEF NumbersOK
<1>14. LeasesOK'
  BY <1>2, <1>8, <1>11, <1>12, <1>13 DEF LeasesOK
<1>15. StageOK'
  BY <1>2, <1>5, <1>7 DEF StageOK
<1>16. WakeOK'
  <2>1. Fresh => Fresh'
    BY <1>2 DEF Fresh
  <2> QED
    BY <1>2, <1>4, <1>7, <2>1 DEF WakeOK
<1>17. BehindOK(Live', pl')
  BY <1>2, <1>3, <1>6, <1>8, BehindKeeps
<1>18. OneSequence' /\ ShownOK'
  BY <1>2, <1>4 DEF OneSequence, ShownOK
<1>19. Types'
  <2>1. q \in Pipelines
    BY <1>6 DEF Exact
  <2> QED
    BY <1>2, <1>4, <1>8, <2>1 DEF Types
<1> QED
  BY <1>2, <1>14, <1>15, <1>16, <1>17, <1>18, <1>19 DEF IInv

\* A step of the publication that writes the handoff, from the leases L.
LEMMA WriteKeeps ==
  ASSUME IInv, NEW L \in SUBSET Leases, IsFiniteSet(L), Live' \subseteq L,
         DropsTo(L \ Live', "snapshot", acks, acks', pl, pl', submitted),
         Accounted(pl, L, acks, "snapshot"), Len(acks) + Cardinality(L) <= 6, BehindOK(L, pl),
         wpc' = "snapshot", submitted' = submitted \cap Live',
         UNCHANGED <<ui, cached, made, used, ending, snap, wake, redraw, claimed, count>>,
         ho' \in Handoffs, Len(ho'.untaken) <= UNTAKEN_PRESENT_FRAME_CAPACITY,
         NewestPublished(ho') = IF pl.present = NoLease THEN NoLease ELSE LeaseOf(pl),
         wakes' \in BOOLEAN, ~wakes' => Fresh' /\ snap = Current, OneSequence', ShownOK'
  PROVE  IInv' /\ cached' = cached
<1> DEFINE M == Live'
<1>1. /\ ui' = ui /\ cached' = cached /\ made' = made /\ used' = used /\ ending' = ending
      /\ snap' = snap /\ wake' = wake /\ redraw' = redraw /\ claimed' = claimed
      /\ count' = count
  OBVIOUS
<1>2. Types /\ LeasesOK
  BY DEF IInv
<1>3. pl \in Pipelines /\ acks \in Seq(Acks) /\ used \in Nat /\ NumbersOK(pl, made, used, count)
  BY <1>2, Bounds DEF Types, LeasesOK
<1>4. M \in SUBSET L /\ DropsTo(L \ M, "snapshot", acks, acks', pl, pl', submitted)
  OBVIOUS
<1>5. LeasesOK' <=> /\ NumbersOK(pl', made, used, count) /\ Accounted(pl', M, acks', "snapshot")
                    /\ RoomOK(M, acks', "snapshot")
  BY <1>1 DEF LeasesOK
<1> HIDE DEF M
<1>6. /\ pl' \in Pipelines /\ SameSession(pl, pl') /\ acks' \in Seq(Acks)
      /\ Len(acks') + Cardinality(M) <= Len(acks) + Cardinality(L)
      /\ Accounted(pl', M, acks', "snapshot")
      /\ \A d \in Decoders : pl'.pool[d] \subseteq pl.pool[d]
  BY <1>3, <1>4, DropsKeep
<1>7. RoomOK(M, acks', "snapshot")
  <2>1. Len(acks') \in Nat /\ Len(acks) \in Nat /\ Cardinality(M) \in Nat /\ Cardinality(L) \in Nat
    <3>1. IsFiniteSet(M)
      BY <1>4, FS_Subset
    <3> QED
      BY <1>3, <1>6, <3>1, FS_CardinalityType
  <2> QED
    BY <1>6, <2>1 DEF RoomOK
<1>8. NumbersOK(pl', made, used, count)
  <2>1. pl'.dec <= used /\ pl'.gen <= count.operations /\ pl'.dgen <= count.operations
    BY <1>3, <1>6 DEF NumbersOK, SameSession
  <2>2. used <= used
    BY <1>3
  <2> QED
    BY <1>3, <1>6, <2>1, <2>2, NumbersKeep
<1>9. pl'.present = pl.present /\ pl'.gen = pl.gen
  BY <1>6 DEF SameSession
<1>10. LeaseOf(pl') = LeaseOf(pl) /\ Current' = Current
  BY <1>9 DEF LeaseOf, Current
<1>11. StageOK'
  BY <1>9, <1>10 DEF StageOK
<1>12. WakeOK'
  BY <1>1, <1>10 DEF WakeOK
<1>13. BehindOK(Live', pl')
  BY <1>4, <1>6, BehindKeeps DEF M
<1>14. Types'
  <2>1. submitted' \subseteq Live'
    OBVIOUS
  <2> QED
    BY <1>1, <1>2, <1>6, <2>1 DEF Types, Handoffs
<1> QED
  BY <1>1, <1>5, <1>6, <1>7, <1>8, <1>11, <1>12, <1>13, <1>14 DEF IInv

\* Without a frame the handoff is cleared.
LEMMA PublishClearKeeps ==
  ASSUME IInv, PublishClear
  PROVE  IInv' /\ cached' = cached
<1>1. /\ wpc = "clear" /\ ho' = EmptyHandoff /\ wpc' = "snapshot"
      /\ wakes' = (wakes \/ NewestPublished(ho) # NoLease)
      /\ UNCHANGED <<ui, cached, made, used, ending, snap, wake, redraw, claimed, count>>
      /\ DropDead(submitted)
  BY DEF PublishClear
<1>2. Types /\ LeasesOK /\ StageOK /\ WakeOK /\ ShownOK /\ BehindOK(Live, pl)
  BY DEF IInv
<1>3. ho'.taken = NoLease /\ ho'.untaken = << >> /\ DOMAIN ho'.untaken = {}
  BY <1>1 DEF EmptyHandoff
<1>4. /\ ho' \in Handoffs /\ Len(ho'.untaken) <= UNTAKEN_PRESENT_FRAME_CAPACITY
      /\ NewestPublished(ho') = NoLease
  <2>1. << >> \in Seq(Leases) /\ Len(<< >>) = 0
    OBVIOUS
  <2>2. NoLease \in MaybeLease
    BY DEF MaybeLease
  <2>3. ho' \in Handoffs
    BY <1>1, <2>1, <2>2 DEF EmptyHandoff, Handoffs
  <2> QED
    BY <1>3, <2>1, <2>3 DEF NewestPublished, UNTAKEN_PRESENT_FRAME_CAPACITY
<1>5. pl.present = NoLease
  BY <1>1, <1>2 DEF StageOK
<1>6. Live' \subseteq Live
  <2>1. HandoffLeases(ho') = {}
    BY <1>3 DEF HandoffLeases, Range
  <2> QED
    BY <1>1, <2>1 DEF Live
<1>7. Live \in SUBSET Leases /\ IsFiniteSet(Live)
  BY <1>2, LiveIsSmall
<1>8. Len(acks) + Cardinality(Live) <= 6
  BY <1>2 DEF LeasesOK, RoomOK
<1>9. Accounted(pl, Live, acks, "snapshot")
  <2>1. Accounted(pl, Live, acks, wpc)
    BY <1>2 DEF LeasesOK
  <2>2. GoesOn(acks, wpc, acks, "snapshot")
    BY <1>1 DEF GoesOn
  <2> QED
    BY <2>1, <2>2, AccountedGoesOn
<1>10. /\ DropsTo(Live \ Live', "snapshot", acks, acks', pl, pl', submitted)
       /\ submitted' = submitted \cap Live'
  BY <1>1, DropDeadDrops
<1>11. wakes' \in BOOLEAN
  BY <1>1
<1>12. ~wakes' => Fresh' /\ snap = Current
  <2> SUFFICES ASSUME ~wakes' PROVE Fresh' /\ snap = Current
    OBVIOUS
  <2>1. ~wakes /\ NewestPublished(ho) = NoLease
    BY <1>1
  <2>2. Fresh /\ snap.gen = pl.gen /\ (snap.has <=> NewestPublished(ho) # NoLease)
    BY <1>1, <1>2, <2>1 DEF WakeOK
  <2>3. snap \in [gen : Generations, has : BOOLEAN]
    BY <1>2 DEF Types
  <2>4. snap.has = FALSE
    BY <2>1, <2>2, <2>3
  <2>5. snap = [gen |-> pl.gen, has |-> FALSE]
    BY <2>2, <2>3, <2>4
  <2>6. snap = Current
    BY <1>5, <2>5 DEF Current
  <2>7. Fresh'
    BY <1>1, <1>4, <2>1, <2>2 DEF Fresh
  <2> QED
    BY <2>6, <2>7
<1>13. OneSequence' /\ ShownOK'
  <2>1. OneSequence'
    BY <1>3 DEF OneSequence
  <2>2. NotBefore(ui.hand, cached)
    BY <1>2 DEF ShownOK
  <2>3. \A l : NotBefore(NoLease, l)
    BY DEF NotBefore
  <2>4. ShownOK'
    BY <1>1, <1>3, <2>2, <2>3 DEF ShownOK
  <2> QED
    BY <2>1, <2>4
<1>14. UNCHANGED <<ui, cached, made, used, ending, snap, wake, redraw, claimed, count>>
  BY <1>1
<1>15. /\ wpc' = "snapshot"
       /\ NewestPublished(ho') = IF pl.present = NoLease THEN NoLease ELSE LeaseOf(pl)
  BY <1>1, <1>4, <1>5
<1> QED
  BY <1>2, <1>4, <1>6, <1>7, <1>8, <1>9, <1>10, <1>11, <1>12, <1>13, <1>14, <1>15, WriteKeeps

InOrder(u) == \A i, j \in DOMAIN u : i < j => ContinuesSequence(u[i], u[j])

\* n is the handoff g after the publication of l.
Publishes(g, n, l) ==
    /\ n \in Handoffs /\ n.taken = g.taken
    /\ Len(n.untaken) <= UNTAKEN_PRESENT_FRAME_CAPACITY
    /\ NewestPublished(n) = l
    /\ \E i \in DOMAIN n.untaken : n.untaken[i] = l
    /\ \A i \in DOMAIN n.untaken :
          n.untaken[i] = l \/ \E j \in DOMAIN g.untaken : n.untaken[i] = g.untaken[j]
    /\ InOrder(n.untaken)

\* What a publication makes of the handoff.
LEMMA PublishedEffect ==
  ASSUME NEW g \in Handoffs, Len(g.untaken) <= UNTAKEN_PRESENT_FRAME_CAPACITY,
         NEW l \in Leases, NEW n, n = Published(g, l)
  PROVE  Publishes(g, n, l)
<1> DEFINE u == g.untaken
           m == MakeRoomFor(g, l)
           v == Append(m, l)
<1>1. u \in Seq(Leases) /\ Len(u) \in Nat /\ Len(u) <= 2 /\ DOMAIN u = 1 .. Len(u)
  BY DEF Handoffs, UNTAKEN_PRESENT_FRAME_CAPACITY
<1>2. /\ NewestPublished(g) \in MaybeLease
      /\ u # << >> => NewestPublished(g) = u[Len(u)] /\ NewestPublished(g) \in Leases
  BY HandoffFacts
<1>3. m = IF NewestPublished(g) # NoLease /\ ~ContinuesSequence(NewestPublished(g), l)
            THEN << >> ELSE IF Len(u) < 2 THEN u ELSE Tail(u)
  BY DEF MakeRoomFor, UNTAKEN_PRESENT_FRAME_CAPACITY
<1>4. n = [g EXCEPT !.untaken = v]
  BY DEF Published
<1> HIDE DEF u, m
<1>5. /\ m \in Seq(Leases) /\ Len(m) \in 0 .. 1
      /\ Len(m) = 1 => /\ m[1] = u[Len(u)] /\ Len(u) \in DOMAIN u /\ u # << >>
                       /\ ContinuesSequence(u[Len(u)], l)
  <2>1. CASE m = << >>
    BY <2>1
  <2>2. CASE m # << >>
    <3>1. m = (IF Len(u) < 2 THEN u ELSE Tail(u)) /\ u # << >>
      BY <1>1, <1>3, <2>2
    <3>2. NewestPublished(g) = u[Len(u)] /\ NewestPublished(g) # NoLease
      BY <1>2, <3>1, NoLeaseAssumption
    <3>3. ContinuesSequence(u[Len(u)], l)
      BY <1>3, <2>2, <3>2
    <3>4. CASE Len(u) < 2
      <4>1. m = u /\ Len(u) = 1
        BY <1>1, <3>1, <3>4
      <4> QED
        BY <1>1, <3>1, <3>3, <4>1
    <3>5. CASE ~(Len(u) < 2)
      <4>1. m = Tail(u) /\ Len(u) = 2
        BY <1>1, <3>1, <3>5
      <4>2. Len(m) = 1 /\ m[1] = u[2] /\ m \in Seq(Leases)
        BY <1>1, <4>1
      <4>3. Len(u) \in DOMAIN u /\ m[1] = u[Len(u)]
        <5>1. Len(u) = 2 /\ DOMAIN u = 1 .. Len(u)
          BY <1>1, <4>1
        <5> QED
          BY <4>2, <5>1
      <4>4. Len(m) \in 0 .. 1
        BY <4>2
      <4> QED
        BY <3>1, <3>3, <4>2, <4>3, <4>4
    <3> QED
      BY <3>4, <3>5
  <2> QED
    BY <2>1, <2>2
<1>6. /\ v \in Seq(Leases) /\ Len(v) = Len(m) + 1 /\ DOMAIN v = 1 .. Len(m) + 1
      /\ v[Len(m) + 1] = l /\ (Len(m) = 1 => v[1] = m[1])
  BY <1>5
<1> HIDE DEF v
<1>7. n.taken = g.taken /\ n.untaken = v /\ n \in Handoffs
  BY <1>4, <1>6 DEF Handoffs
<1>8. Len(v) <= UNTAKEN_PRESENT_FRAME_CAPACITY /\ v # << >> /\ v[Len(v)] = l /\ Len(v) \in DOMAIN v
  BY <1>5, <1>6 DEF UNTAKEN_PRESENT_FRAME_CAPACITY
<1>9. NewestPublished(n) = l
  <2>1. n.untaken # << >> => NewestPublished(n) = n.untaken[Len(n.untaken)]
    BY <1>7, HandoffFacts
  <2> QED
    BY <1>7, <1>8, <2>1
<1>10. \A i \in DOMAIN v : v[i] = l \/ \E j \in DOMAIN u : v[i] = u[j]
  <2>1. CASE Len(m) = 0
    BY <1>6, <2>1
  <2>2. CASE Len(m) = 1
    <3>1. Len(u) \in DOMAIN u /\ v[1] = u[Len(u)] /\ v[2] = l
      BY <1>5, <1>6, <2>2
    <3>2. \A i \in DOMAIN v : i = 1 \/ i = 2
      BY <1>6, <2>2
    <3> QED
      BY <3>1, <3>2
  <2> QED
    BY <1>5, <2>1, <2>2
<1>11. InOrder(v)
  <2> SUFFICES ASSUME NEW i \in DOMAIN v, NEW j \in DOMAIN v, i < j
               PROVE  ContinuesSequence(v[i], v[j])
    BY DEF InOrder
  <2>1. Len(m) = 1 /\ i = 1 /\ j = 2
    <3>1. Len(m) = 0 \/ Len(m) = 1
      BY <1>5
    <3>2. CASE Len(m) = 0
      BY <1>6, <3>2
    <3>3. CASE Len(m) = 1
      <4>1. DOMAIN v = 1 .. 2
        BY <1>6, <3>3
      <4> QED
        BY <3>3, <4>1
    <3> QED
      BY <3>1, <3>2, <3>3
  <2>2. v[1] = u[Len(u)] /\ v[2] = l
    BY <1>5, <1>6, <2>1
  <2> QED
    BY <1>5, <2>1, <2>2
<1>12. \E i \in DOMAIN v : v[i] = l
  BY <1>8
<1> QED
  BY <1>7, <1>8, <1>9, <1>10, <1>11, <1>12 DEF Publishes, u

\* The leases L and the one of the present frame.
WithLease(L, p) == L \cup {LeaseOf(p)}

\* The lease about to be published joins the live ones.
LEMMA LeasePublished ==
  ASSUME NEW p \in Pipelines, p.present # NoLease, NEW L, NEW q, Accounted(p, L, q, "push")
  PROVE  Accounted(p, WithLease(L, p), q, "snapshot")
<1> DEFINE K == WithLease(L, p)
           H == HeldBy(L, q, "push", p)
<1>1. Token(LeaseOf(p)) = PresentToken(p)
  BY LeaseOfFacts
<1>2. HeldBy(K, q, "snapshot", p) = H
  BY <1>1 DEF HeldBy, WithLease
<1>3. /\ TokensOK(H) /\ HeldOK(p, H) /\ OldOK(p) /\ Accounting(p, H)
      /\ PlacesOK(L, q, "push", p)
  BY DEF Accounted
<1>4. PlacesOK(K, q, "snapshot", p)
  <2>1. /\ \A l, m \in L : Token(l) = Token(m) => l = m
        /\ \A i, j \in DOMAIN q : Token(q[i]) = Token(q[j]) => i = j
        /\ \A l \in L, i \in DOMAIN q : Token(l) # Token(q[i])
        /\ \A l \in L : Token(l) # PresentToken(p)
        /\ \A i \in DOMAIN q : Token(q[i]) # PresentToken(p)
    BY <1>3 DEF PlacesOK
  <2>2. \A l \in K : l \in L \/ l = LeaseOf(p)
    BY DEF WithLease
  <2> HIDE DEF K
  <2>3. \A l, m \in K : Token(l) = Token(m) => l = m
    BY <1>1, <2>1, <2>2
  <2>4. \A l \in K, i \in DOMAIN q : Token(l) # Token(q[i])
    BY <1>1, <2>1, <2>2
  <2> QED
    BY <2>1, <2>3, <2>4 DEF PlacesOK
<1> HIDE DEF K, H
<1>5. Accounted(p, K, q, "snapshot")
  BY <1>2, <1>3, <1>4 DEF Accounted
<1> QED
  BY <1>5 DEF K

\* The present frame is ahead of every live picture, and its lease is no further
\* ahead than the pipeline.
LEMMA NewLeaseIsAhead ==
  ASSUME NEW p \in Pipelines, OwnOK(p), p.present # NoLease, NEW L \in SUBSET Leases,
         BehindOK(L, p)
  PROVE  /\ \A m \in L : NotBefore(LeaseOf(p), m)
         /\ BehindOK(WithLease(L, p), p)
<1> DEFINE l == LeaseOf(p)
<1>1. l.gen = p.gen /\ l.dgen = p.present.dgen /\ l.h = p.present.h
  BY LeaseOfFacts
<1>2. /\ p.gen \in Nat /\ p.dgen \in Nat /\ p.present.dgen \in Nat /\ p.present.h \in Nat
      /\ \A m \in L : m.gen \in Nat /\ m.dgen \in Nat /\ m.h \in Nat
  BY Fields, FrameFacts, Bounds DEF Leases
<1>3. /\ p.present.dgen <= p.dgen
      /\ \A i \in DOMAIN p.queue : p.present.h < p.queue[i].h
  BY DEF OwnOK
<1> HIDE DEF l
<1>4. \A m \in L : NotBefore(l, m)
  BY <1>1, <1>2 DEF BehindOK, NotBefore, Before
<1>5. \/ l.gen < p.gen
      \/ /\ l.gen = p.gen /\ l.dgen <= p.dgen
         /\ l.dgen = p.dgen => \A i \in DOMAIN p.queue : l.h < p.queue[i].h
         /\ p.present # NoLease =>
              \/ l.dgen < p.present.dgen
              \/ l.dgen = p.present.dgen /\ l.h <= p.present.h
  BY <1>1, <1>2, <1>3
<1>6. BehindOK(WithLease(L, p), p)
  <2>1. \A m \in WithLease(L, p) : m \in L \/ m = l
    BY DEF WithLease, l
  <2> QED
    BY <1>5, <2>1 DEF BehindOK
<1> QED
  BY <1>4, <1>6 DEF l

\* The present frame is published.
LEMMA PublishPushKeeps ==
  ASSUME IInv, PublishPush
  PROVE  IInv' /\ cached' = cached
<1>1. PICK l : l = LeaseOf(pl)
  OBVIOUS
<1>2. PICK L : L = WithLease(Live, pl)
  OBVIOUS
<1>3. /\ wpc = "push" /\ ho' = Published(ho, l) /\ wpc' = "snapshot" /\ wakes' = TRUE
      /\ UNCHANGED <<ui, cached, made, used, ending, snap, wake, redraw, claimed, count>>
      /\ DropDead(submitted)
  BY <1>1 DEF PublishPush
<1>4. Types /\ LeasesOK /\ StageOK /\ OneSequence /\ ShownOK /\ BehindOK(Live, pl)
  BY DEF IInv
<1>5. pl \in Pipelines /\ pl.present # NoLease /\ OwnOK(pl)
  <2>1. Exact(pl, Held)
    BY <1>3, IdleFacts
  <2> QED
    BY <1>3, <1>4, <2>1 DEF Exact, Accounting, StageOK
<1>6. l \in Leases /\ l # NoLease
  BY <1>1, <1>5, LeaseOfFacts
<1>7. ho \in Handoffs /\ Len(ho.untaken) <= UNTAKEN_PRESENT_FRAME_CAPACITY
  BY <1>4 DEF Types, Handoffs
<1>8. Publishes(ho, ho', l)
  BY <1>3, <1>6, <1>7, PublishedEffect
<1>9. /\ Live \in SUBSET Leases /\ IsFiniteSet(Live) /\ Cardinality(Live) \in Nat
      /\ \A i \in DOMAIN ho.untaken : ho.untaken[i] \in Live
      /\ ho.taken # NoLease => ho.taken \in Live
      /\ ui.hand # NoLease => ui.hand \in Live
      /\ cached # NoLease => cached \in Live
  BY <1>4, LiveIsSmall
<1>10. L = Live \cup {l}
  BY <1>1, <1>2 DEF WithLease
<1>11. l \in Live' /\ Live' \subseteq L
  <2>1. /\ ho'.taken = ho.taken /\ ho'.untaken \in Seq(Leases)
        /\ \E i \in DOMAIN ho'.untaken : ho'.untaken[i] = l
        /\ \A i \in DOMAIN ho'.untaken :
              ho'.untaken[i] = l \/ \E j \in DOMAIN ho.untaken : ho'.untaken[i] = ho.untaken[j]
    BY <1>8 DEF Publishes, Handoffs
  <2>2. \A x : x \in Live' <=>
            /\ x # NoLease
            /\ \/ x \in Range(ho'.untaken) \/ x = ho'.taken
               \/ x = ui.hand \/ x = cached
    BY <1>3 DEF Live, HandoffLeases
  <2>3. \A x : x \in Range(ho'.untaken) <=> \E i \in DOMAIN ho'.untaken : x = ho'.untaken[i]
    BY DEF Range
  <2>4. l \in Live'
    BY <1>6, <2>1, <2>2, <2>3
  <2>5. ASSUME NEW x \in Live' PROVE x \in L
    <3>1. CASE x \in Range(ho'.untaken)
      <4>1. PICK i \in DOMAIN ho'.untaken : x = ho'.untaken[i]
        BY <2>3, <3>1
      <4>2. x = l \/ \E j \in DOMAIN ho.untaken : x = ho.untaken[j]
        BY <2>1, <4>1
      <4> QED
        BY <1>9, <1>10, <4>2
    <3>2. CASE x = ho'.taken \/ x = ui.hand \/ x = cached
      BY <1>9, <1>10, <2>1, <2>2, <3>2
    <3> QED
      BY <2>2, <3>1, <3>2
  <2> QED
    BY <2>4, <2>5
<1>12. L \in SUBSET Leases
  BY <1>6, <1>9, <1>10
<1>13. /\ IsFiniteSet(L) /\ Cardinality(L) \in Nat
       /\ Cardinality(L) <= Cardinality(Live) + 1
  <2>1. Cardinality(Live) <= Cardinality(Live)
    BY <1>9
  <2> QED
    BY <1>9, <1>10, <2>1, OneMore
<1>14. Len(acks) + Cardinality(L) <= 6
  <2>1. Len(acks) + Cardinality(Live) <= 5
    BY <1>3, <1>4 DEF LeasesOK, RoomOK
  <2>2. Len(acks) \in Nat
    BY <1>4 DEF Types
  <2> QED
    BY <1>9, <1>13, <2>1, <2>2
<1>15. Accounted(pl, L, acks, "snapshot")
  <2>1. Accounted(pl, Live, acks, "push")
    BY <1>3, <1>4 DEF LeasesOK
  <2> QED
    BY <1>2, <1>5, <2>1, LeasePublished
<1>16. (\A m \in Live : NotBefore(l, m)) /\ BehindOK(L, pl)
  BY <1>1, <1>2, <1>4, <1>5, <1>9, NewLeaseIsAhead
<1>17. /\ DropsTo(L \ Live', "snapshot", acks, acks', pl, pl', submitted)
       /\ submitted' = submitted \cap Live'
  <2>1. L \ Live' = Live \ Live'
    BY <1>10, <1>11
  <2>2. /\ DropsTo(Live \ Live', wpc', acks, acks', pl, pl', submitted)
        /\ submitted' = submitted \cap Live'
    BY <1>3, DropDeadDrops
  <2> QED
    BY <1>3, <2>1, <2>2
<1>18. /\ ho' \in Handoffs /\ Len(ho'.untaken) <= UNTAKEN_PRESENT_FRAME_CAPACITY
       /\ NewestPublished(ho') = IF pl.present = NoLease THEN NoLease ELSE LeaseOf(pl)
  BY <1>1, <1>5, <1>8 DEF Publishes
<1>19. OneSequence'
  BY <1>8 DEF Publishes, InOrder, OneSequence
<1>20. ShownOK'
  <2>1. /\ ui' = ui /\ cached' = cached /\ ho'.taken = ho.taken
    BY <1>3, <1>8 DEF Publishes
  <2>2. NotBefore(l, cached) /\ NotBefore(l, ui.hand) /\ NotBefore(l, ho.taken)
    <3>1. \A m : m = NoLease => NotBefore(l, m)
      BY DEF NotBefore
    <3> QED
      BY <1>9, <1>16, <3>1
  <2>3. \A i \in DOMAIN ho'.untaken :
            /\ NotBefore(ho'.untaken[i], cached) /\ NotBefore(ho'.untaken[i], ui.hand)
            /\ NotBefore(ho'.untaken[i], ho.taken)
    <3> TAKE i \in DOMAIN ho'.untaken
    <3>1. ho'.untaken[i] = l \/ \E j \in DOMAIN ho.untaken : ho'.untaken[i] = ho.untaken[j]
      BY <1>8 DEF Publishes
    <3>2. \A j \in DOMAIN ho.untaken :
              /\ NotBefore(ho.untaken[j], cached) /\ NotBefore(ho.untaken[j], ui.hand)
              /\ NotBefore(ho.untaken[j], ho.taken)
      BY <1>4 DEF ShownOK
    <3> QED
      BY <2>2, <3>1, <3>2
  <2>4. /\ NotBefore(ui.hand, cached)
        /\ NotBefore(ho.taken, cached) /\ NotBefore(ho.taken, ui.hand)
    BY <1>4 DEF ShownOK
  <2> QED
    BY <2>1, <2>3, <2>4 DEF ShownOK
<1>21. UNCHANGED <<ui, cached, made, used, ending, snap, wake, redraw, claimed, count>>
  BY <1>3
<1>22. wakes' \in BOOLEAN /\ (~wakes' => Fresh' /\ snap = Current)
  BY <1>3
<1>23. wpc' = "snapshot" /\ Live' \subseteq L
  BY <1>3, <1>11
<1> QED
  BY <1>12, <1>13, <1>14, <1>15, <1>16, <1>17, <1>18, <1>19, <1>20, <1>21, <1>22, <1>23,
     WriteKeeps

-----------------------------------------------------------------------------
(* The invariant *)

\* The empty table.
LEMMA NoTable ==
  ASSUME NEW K, NEW V
  PROVE  << >> \in Maps(K, V) /\ DOMAIN << >> = {}
<1>1. << >> \in [{} -> V] /\ DOMAIN << >> = {}
  OBVIOUS
<1>2. {} \in SUBSET K
  OBVIOUS
<1> QED
  BY <1>1, <1>2 DEF Maps

\* A pipeline without leases and frames.
LEMMA NothingHeld ==
  ASSUME NEW p \in Pipelines, p.queue = << >>, p.present = NoLease, p.leased = << >>,
         p.deferred = {}, p.retired = << >>, p.pool = [d \in Decoders |-> {}], ~p.twice
  PROVE  Accounted(p, {}, << >>, "idle")
<1> DEFINE e == << >>
<1>1. DOMAIN e = {}
  OBVIOUS
<1>2. HeldBy({}, e, "idle", p) = {}
  BY <1>1 DEF HeldBy
<1>3. DOMAIN p.queue = {} /\ DOMAIN p.leased = {} /\ DOMAIN p.retired = {}
  BY <1>1
<1> HIDE DEF e
<1>4. TokensOK({}) /\ HeldOK(p, {}) /\ OldOK(p)
  BY <1>3 DEF TokensOK, HeldOK, OldOK
<1>5. OwnOK(p) /\ TableOK(p, {}) /\ DeferOK(p, {}) /\ RetiredOK(p, {})
  BY <1>3 DEF OwnOK, TableOK, DeferOK, RetiredOK
<1>6. SlotsOK(p, {})
  <2>1. p.dec # 0 => p.dec \in Decoders
    BY Fields DEF Decoders
  <2>2. p.dec # 0 => p.pool[p.dec] = {}
    BY <2>1
  <2> QED
    BY <2>2 DEF SlotsOK
<1>7. PlacesOK({}, e, "idle", p)
  BY <1>1 DEF PlacesOK
<1>8. Accounted(p, {}, e, "idle")
  BY <1>2, <1>4, <1>5, <1>6, <1>7 DEF Accounted, Accounting
<1> QED
  BY <1>8 DEF e

\* The player starts without a frame.
LEMMA InitEstablishes ==
  ASSUME Init
  PROVE  IInv
<1>1. /\ pl.dec = 1 /\ pl.gen = 0 /\ pl.dgen = 0 /\ pl.queue = << >> /\ pl.present = NoLease
      /\ pl.leased = << >> /\ pl.deferred = {} /\ pl.retired = << >>
      /\ pl.pool = [d \in Decoders |-> {}] /\ ~pl.twice
      /\ made = [d \in Decoders |-> 0] /\ used = 1 /\ ho = EmptyHandoff
      /\ acks = << >> /\ submitted = {} /\ wpc = "idle" /\ wakes = FALSE /\ ending = FALSE
      /\ snap = [gen |-> 0, has |-> FALSE] /\ wake = FALSE
      /\ ui = [pc |-> "idle", snap |-> [gen |-> 0, has |-> FALSE], hand |-> NoLease,
               seen |-> NoLease]
      /\ cached = NoLease /\ redraw = FALSE /\ claimed = NoLease
      /\ count = [frames |-> 0, operations |-> 0, refusals |-> 0]
  BY DEF Init
<1>2. pl \in Pipelines
  <2>1. /\ << >> \in Maps(Keys, Nat) /\ << >> \in Maps(Generations, Decoders)
        /\ << >> \in Maps(Generations, {"stop", "install", "backend"})
    BY NoTable
  <2>2. 1 \in 0 .. MaxDecoders /\ 0 \in Generations
    BY Bounds
  <2>3. [d \in Decoders |-> {}] \in [Decoders -> SUBSET Handles]
    OBVIOUS
  <2>4. << >> \in Seq(Frames)
    OBVIOUS
  <2> QED
    BY <2>1, <2>2, <2>3, <2>4 DEF Init, Pipelines
<1>3. /\ ho.taken = NoLease /\ ho.untaken = << >> /\ DOMAIN ho.untaken = {}
      /\ NewestPublished(ho) = NoLease /\ HandoffLeases(ho) = {}
  BY <1>1 DEF EmptyHandoff, NewestPublished, HandoffLeases, Range
<1>4. Live = {}
  BY <1>1, <1>3 DEF Live
<1>5. Types
  <2>1. 0 \in Generations /\ 0 \in 0 .. MaxFrames /\ 0 \in 0 .. MaxOperations
        /\ 0 \in 0 .. MaxRefusals /\ 1 \in Decoders
    BY Bounds
  <2>2. NoLease \in MaybeLease
    BY DEF MaybeLease
  <2>3. [d \in Decoders |-> 0] \in [Decoders -> 0 .. MaxFrames]
    BY <2>1
  <2>4. << >> \in Seq(Leases) /\ << >> \in Seq(Acks) /\ Len(<< >>) <= 2
    OBVIOUS
  <2>5. /\ ho \in [taken : MaybeLease, untaken : Seq(Leases)]
        /\ Len(ho.untaken) <= UNTAKEN_PRESENT_FRAME_CAPACITY
    BY <1>1, <1>3, <2>2, <2>4 DEF EmptyHandoff, UNTAKEN_PRESENT_FRAME_CAPACITY
  <2>6. /\ snap \in [gen : Generations, has : BOOLEAN]
        /\ ui \in [pc : {"idle", "peek", "acquire", "show", "probe"},
                   snap : [gen : Generations, has : BOOLEAN],
                   hand : MaybeLease, seen : MaybeLease]
    BY <1>1, <2>1, <2>2
  <2>7. count \in [frames : 0 .. MaxFrames, operations : 0 .. MaxOperations,
                   refusals : 0 .. MaxRefusals]
    BY <1>1, <2>1
  <2>8. wakes \in BOOLEAN /\ ending \in BOOLEAN /\ wake \in BOOLEAN /\ redraw \in BOOLEAN
    BY <1>1
  <2> QED
    BY <1>1, <1>2, <2>1, <2>2, <2>3, <2>4, <2>5, <2>6, <2>7, <2>8 DEF Types
<1>6. LeasesOK
  <2>1. Accounted(pl, {}, << >>, "idle")
    BY <1>1, <1>2, NothingHeld
  <2>2. NumbersOK(pl, made, used, count)
    BY <1>1 DEF NumbersOK
  <2>3. RoomOK({}, << >>, "idle")
    BY FS_EmptySet DEF RoomOK
  <2> QED
    BY <1>1, <1>4, <2>1, <2>2, <2>3 DEF LeasesOK
<1>7. StageOK
  BY <1>1, <1>3 DEF StageOK
<1>8. WakeOK
  BY <1>1, <1>3 DEF WakeOK, Fresh, Current
<1>9. OneSequence /\ BehindOK(Live, pl)
  BY <1>3, <1>4 DEF OneSequence, BehindOK
<1>10. ShownOK
  BY <1>1, <1>3 DEF ShownOK, NotBefore
<1> QED
  BY <1>5, <1>6, <1>7, <1>8, <1>9, <1>10 DEF IInv

\* Nothing happens.
LEMMA StutterKeeps ==
  ASSUME IInv, UNCHANGED vars
  PROVE  IInv' /\ cached' = cached
<1>1. /\ pl' = pl /\ made' = made /\ used' = used /\ ho' = ho /\ acks' = acks
      /\ submitted' = submitted /\ wpc' = wpc /\ wakes' = wakes /\ ending' = ending
      /\ snap' = snap /\ wake' = wake /\ ui' = ui /\ cached' = cached /\ redraw' = redraw
      /\ claimed' = claimed /\ count' = count
  BY DEF vars
<1>2. Live' = Live
  BY <1>1 DEF Live
<1>3. Held' = Held
  BY <1>1, <1>2 DEF Held, HeldBy
<1>4. Types' /\ LeasesOK'
  BY <1>1, <1>2 DEF IInv, Types, LeasesOK
<1>5. StageOK'
  BY <1>1, <1>3 DEF IInv, StageOK
<1>6. WakeOK'
  <2>1. Current' = Current /\ (Fresh => Fresh')
    BY <1>1 DEF Current, Fresh
  <2> QED
    BY <1>1, <2>1 DEF IInv, WakeOK
<1>7. OneSequence' /\ BehindOK(Live', pl') /\ ShownOK'
  BY <1>1, <1>2 DEF IInv, OneSequence, ShownOK
<1> QED
  BY <1>1, <1>4, <1>5, <1>6, <1>7 DEF IInv

\* Every step keeps the invariant, and the picture shown stays, goes, or is the
\* one in the UI's hand.
LEMMA StepKeeps ==
  ASSUME IInv, [Next]_vars
  PROVE  IInv' /\ cached' \in {cached, ui.hand, NoLease}
<1>1. CASE SessionStep
  <2>1. CASE Decode
    BY <2>1, DecodeStepKeeps
  <2>2. CASE PresentNext
    BY <2>2, PresentNextStepKeeps
  <2>3. CASE Seek
    BY <2>3, SeekStepKeeps
  <2>4. CASE ReleaseStalePresentFrame
    BY <2>4, ReleaseStaleStepKeeps
  <2>5. CASE Stop
    BY <2>5, StopStepKeeps
  <2>6. CASE InstallMedia
    BY <2>6, InstallMediaKeeps
  <2>7. CASE InstallVideoBackend
    BY <2>7, InstallVideoBackendKeeps
  <2>8. CASE Republish \/ Shutdown
    BY <2>8, RepublishKeeps
  <2> QED
    BY <1>1, <2>1, <2>2, <2>3, <2>4, <2>5, <2>6, <2>7, <2>8 DEF SessionStep
<1>2. CASE PublishStep
  <2>1. CASE DrainReleases
    BY <2>1, ReceiveKeeps
  <2>2. CASE PublishPresentFrame
    BY <2>2, PublishPresentFrameKeeps
  <2>3. CASE PublishProbe
    BY <2>3, PublishProbeAgainKeeps, PublishProbeNewKeeps
  <2>4. CASE PublishPush
    BY <2>4, PublishPushKeeps
  <2>5. CASE PublishClear
    BY <2>5, PublishClearKeeps
  <2>6. CASE PublishSnapshot
    BY <2>6, PublishSnapshotKeeps
  <2>7. CASE PublishWake
    BY <2>7, PublishWakeKeeps
  <2> QED
    BY <1>2, <2>1, <2>2, <2>3, <2>4, <2>5, <2>6, <2>7 DEF PublishStep
<1>3. CASE AckWake
  BY <1>3, ReceiveKeeps
<1>4. CASE UiBegin \/ UiTimer
  BY <1>4, UiQuietKeeps
<1>5. CASE UiStep
  <2>1. CASE UiPeek \/ UiProbe
    BY <2>1, UiQuietKeeps
  <2>2. CASE UiNoSurface
    <3>1. cached' \in {cached, NoLease}
      BY <2>2 DEF UiNoSurface
    <3> QED
      BY <2>2, <3>1, UiNoSurfaceKeeps
  <2>3. CASE UiAcquire
    BY <2>3, UiAcquireKeeps
  <2>4. CASE ShowStep
    BY <2>4, UiShowKeeps DEF ShowStep
  <2> QED
    BY <1>5, <2>1, <2>2, <2>3, <2>4 DEF UiStep
<1>6. CASE UNCHANGED vars
  BY <1>6, StutterKeeps
<1> QED
  BY <1>1, <1>2, <1>3, <1>4, <1>5, <1>6 DEF Next

\* The inductive invariant holds in every reachable state.
THEOREM Invariance == Spec => []IInv
<1>1. Init => IInv
  BY InitEstablishes
<1>2. IInv /\ [Next]_vars => IInv'
  BY StepKeeps
<1> QED
  BY <1>1, <1>2, PTL DEF Spec

-----------------------------------------------------------------------------
(* What the invariant says *)

\* The release channel is never full: a drop never waits for it and never gives
\* the slot back by itself while the worker lives.
ChannelHasRoom == Len(acks) + Cardinality(Live) <= 6

\* The types of the module, from those of the proof.
LEMMA TypesHold ==
  ASSUME IInv
  PROVE  TypeOK
<1>1. Types /\ RoomOK(Live, acks, wpc)
  BY DEF IInv, LeasesOK
<1>2. pl \in Pipelines
  BY <1>1 DEF Types
<1>3. /\ pl.dec \in 0 .. MaxDecoders /\ pl.gen \in Generations /\ pl.dgen \in Generations
      /\ pl.queue \in Seq(Frames) /\ pl.present \in Frames \cup {NoLease}
      /\ pl.deferred \subseteq Keys /\ pl.pool \in [Decoders -> SUBSET Handles]
  BY <1>2, Fields
<1>4. Range(pl.queue) \subseteq Frames
  BY <1>2, FrameFacts DEF Range
<1>5. /\ DOMAIN pl.leased \subseteq Keys /\ DOMAIN pl.retired \subseteq Generations
      /\ Range(pl.retired) \subseteq Decoders
  BY <1>2, TableKeys DEF Range
<1>6. Live \subseteq Leases /\ Cardinality(Live) \in Nat
  BY <1>1, LiveIsSmall
<1>7. HandoffLeases(ho) \subseteq Leases
  BY <1>6 DEF Live, HandoffLeases
<1>8. Len(acks) <= RENDER_RELEASE_CHANNEL_CAPACITY
  <2>1. Len(acks) \in Nat
    BY <1>1 DEF Types
  <2> QED
    BY <1>1, <1>6, <2>1 DEF RoomOK, RENDER_RELEASE_CHANNEL_CAPACITY
<1>9. /\ Len(ho.untaken) <= UNTAKEN_PRESENT_FRAME_CAPACITY /\ submitted \subseteq Live
      /\ wpc \in {"idle", "drain", "probe", "push", "clear", "snapshot", "wake", "ended"}
      /\ claimed \in Leases \cup {NoLease}
  BY <1>1 DEF Types, MaybeLease
<1>10. ui.pc \in {"idle", "peek", "acquire", "show", "probe"}
  BY <1>1 DEF Types
<1> QED
  BY <1>3, <1>4, <1>5, <1>6, <1>7, <1>8, <1>9, <1>10 DEF TypeOK

\* The table of leases and the slots.
LEMMA TablesHold ==
  ASSUME IInv
  PROVE  LeasesAreAccounted /\ SlotsAreAccounted
<1>1. SUFFICES ASSUME wpc # "ended"
               PROVE  /\ DOMAIN pl.leased = Outstanding
                      /\ \A k \in DOMAIN pl.leased : pl.leased[k] = 1
                      /\ pl.deferred \subseteq DOMAIN pl.leased
                      /\ pl.dec # 0 => \A h \in pl.pool[pl.dec] :
                            \/ h \in HandlesOf(OwnFrames(pl))
                            \/ \E k \in pl.deferred : k[2] = h
                            \/ \E f \in pl.lost : f.dec = pl.dec /\ f.h = h
  BY DEF LeasesAreAccounted, SlotsAreAccounted
<1>2. TableOK(pl, Held) /\ SlotsOK(pl, Held) /\ pl \in Pipelines
  BY <1>1, IdleFacts DEF Exact, Accounting
<1>3. DOMAIN pl.leased = Outstanding
  <2>1. \A k : k \in DOMAIN pl.leased <=> \E t \in Held : k = <<t.gen, t.h>>
    BY <1>2 DEF TableOK
  <2>2. \A t : t \in Held <=> \/ \E l \in Live : t = Token(l)
                              \/ \E i \in DOMAIN acks : t = Token(acks[i])
                              \/ wpc = "push" /\ t = PresentToken(pl)
    BY DEF Held, HeldBy
  <2>3. \A k : k \in Outstanding <=>
            \/ \E l \in Live : k = <<l.gen, l.h>>
            \/ \E i \in DOMAIN acks : k = <<acks[i].gen, acks[i].h>>
            \/ wpc = "push" /\ k = <<pl.gen, pl.present.h>>
    BY DEF Outstanding, Key, Range
  <2>4. /\ \A l : Token(l).gen = l.gen /\ Token(l).h = l.h
        /\ PresentToken(pl).gen = pl.gen /\ PresentToken(pl).h = pl.present.h
    BY DEF Token, PresentToken
  <2>5. \A k : k \in DOMAIN pl.leased <=> k \in Outstanding
    BY <2>1, <2>2, <2>3, <2>4
  <2> QED
    BY <2>5
<1>4. /\ \A k \in DOMAIN pl.leased : pl.leased[k] = 1
      /\ pl.deferred \subseteq DOMAIN pl.leased
  BY <1>2 DEF TableOK
<1>5. ASSUME pl.dec # 0, NEW h \in pl.pool[pl.dec]
      PROVE  \/ h \in HandlesOf(OwnFrames(pl))
             \/ \E k \in pl.deferred : k[2] = h
             \/ \E f \in pl.lost : f.dec = pl.dec /\ f.h = h
  <2>1. \/ Owned(pl, h)
        \/ \E t \in Held : t.dec = pl.dec /\ t.h = h /\ <<t.gen, t.h>> \in pl.deferred
        \/ \E f \in pl.lost : f.dec = pl.dec /\ f.h = h
    BY <1>2, <1>5 DEF SlotsOK
  <2>2. CASE Owned(pl, h)
    <3>1. \A i \in DOMAIN pl.queue : pl.queue[i] # NoLease
      BY <1>2, FrameFacts
    <3>2. \E f \in OwnFrames(pl) : f # NoLease /\ h = f.h
      BY <2>2, <3>1 DEF Owned, OwnFrames, Range
    <3> QED
      BY <3>2 DEF HandlesOf
  <2>3. CASE \E t \in Held : t.dec = pl.dec /\ t.h = h /\ <<t.gen, t.h>> \in pl.deferred
    <3>1. PICK t \in Held : t.h = h /\ <<t.gen, t.h>> \in pl.deferred
      BY <2>3
    <3>2. <<t.gen, t.h>>[2] = h
      BY <3>1
    <3> QED
      BY <3>1, <3>2
  <2> QED
    BY <2>1, <2>2, <2>3
<1> QED
  BY <1>3, <1>4, <1>5

\* The invariant of the module follows from the inductive one.
LEMMA InvariantImplies ==
  ASSUME IInv
  PROVE  LeaseInv /\ LeasedFrameIsHeld /\ ChannelHasRoom
<1>1. /\ OldOK(pl) /\ HeldOK(pl, Held) /\ RoomOK(Live, acks, wpc) /\ OneSequence /\ WakeOK
  BY DEF IInv, LeasesOK, Accounted, Held
<1>2. ReleasedOnce /\ OldLeaseHasItsDecoder /\ RetiredOnlyWhileLeased
  BY <1>1 DEF OldOK, ReleasedOnce, OldLeaseHasItsDecoder, RetiredOnlyWhileLeased
<1>3. WokenAfterEveryChange
  BY <1>1 DEF WakeOK, Fresh, WokenAfterEveryChange
<1>4. LeasedFrameIsHeld
  <2>1. ASSUME NEW l \in Live PROVE l.h \in pl.pool[l.dec]
    <3>1. Token(l) \in Held /\ Token(l).h = l.h /\ Token(l).dec = l.dec
      BY LiveIsHeld DEF Token
    <3> QED
      BY <1>1, <3>1 DEF HeldOK
  <2>2. ASSUME NEW a \in Range(acks) PROVE a.h \in pl.pool[a.dec]
    <3>1. PICK i \in DOMAIN acks : a = acks[i]
      BY DEF Range
    <3>2. Token(a) \in Held /\ Token(a).h = a.h /\ Token(a).dec = a.dec
      BY <3>1 DEF Held, HeldBy, Token
    <3> QED
      BY <1>1, <3>2 DEF HeldOK
  <2> QED
    BY <2>1, <2>2 DEF LeasedFrameIsHeld
<1>5. ChannelHasRoom
  BY <1>1 DEF RoomOK, ChannelHasRoom
<1> QED
  BY <1>1, <1>2, <1>3, <1>4, <1>5, TypesHold, TablesHold DEF LeaseInv

\* The types, one release for each slot, exact tables of leases and slots, a
\* decoder kept for the old leases and no longer, one sequence in the handoff and
\* a wake after every change (render_lease_bridge, publish_session_outputs).
THEOREM LeasesAreSafe == Spec => []LeaseInv
<1>1. IInv => LeaseInv
  BY InvariantImplies
<1> QED
  BY <1>1, Invariance, PTL

\* A slot is not written again while a clone of its lease lives or its ack is on
\* its way (release_video_texture).
THEOREM LeasedFramesAreHeld == Spec => []LeasedFrameIsHeld
<1>1. IInv => LeasedFrameIsHeld
  BY InvariantImplies
<1> QED
  BY <1>1, Invariance, PTL

\* At most six leases are alive or on their way back, however many frames and
\* slots there are: RENDER_RELEASE_CHANNEL_CAPACITY is never reached.
THEOREM ChannelNeverFills == Spec => []ChannelHasRoom
<1>1. IInv => ChannelHasRoom
  BY InvariantImplies
<1> QED
  BY <1>1, Invariance, PTL

\* The picture on the screen never goes back (OrderedPresentFrameHandoff,
\* cached_renderable_present_frame).
THEOREM PictureMovesForward == Spec => PictureNeverGoesBack
<1>1. IInv /\ [Next]_vars =>
        [cached # NoLease /\ cached' # NoLease => ~Before(cached', cached)]_vars
  <2> SUFFICES ASSUME IInv, [Next]_vars, cached # NoLease, cached' # NoLease
               PROVE  ~Before(cached', cached)
    OBVIOUS
  <2>1. cached' = cached \/ cached' = ui.hand
    BY StepKeeps
  <2>2. NotBefore(ui.hand, cached)
    BY DEF IInv, ShownOK
  <2>3. NotBefore(cached, cached)
    BY UiFacts, OrderFacts
  <2> QED
    BY <2>1, <2>2, <2>3 DEF NotBefore
<1> QED
  BY <1>1, Invariance, PTL DEF Spec, PictureNeverGoesBack

=============================================================================
