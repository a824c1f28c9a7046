---------------------------- MODULE PexEngine_proofs --------------------------
(***************************************************************************)
(* Proofs about one engine, for every value of the constants: any number   *)
(* of partners and peers, any messages, caps, intervals and clock steps.   *)
(***************************************************************************)
EXTENDS PexEngine, FiniteSetTheorems, WellFoundedInduction, TLAPS

-----------------------------------------------------------------------------
(* The loop of ingest_added is a recursive function.  Its induction is done  *)
(* on the set of the indices where something fails, which has a least one.   *)

LEMMA LeastNat ==
  ASSUME NEW T \in SUBSET Nat, T # {}
  PROVE  \E n \in T : \A m \in T : n <= m
<1>1. PICK n \in T : \A m \in T : <<m, n>> \notin OpToRel(<, Nat)
  BY WFMin, NatLessThanWellFounded, Zenon
<1>2. ASSUME NEW m \in T PROVE n <= m
  <2>1. m \in Nat /\ n \in Nat
    OBVIOUS
  <2>2. ~(m < n)
    BY <1>1, <2>1 DEF OpToRel
  <2> QED
    BY <2>1, <2>2
<1> QED
  BY <1>2, Zenon

(* What the accumulators are after each of the first n entries. *)
IngestUpTo(f, n, received, peer, entries, t) ==
    f = [i \in 0..n |->
            IF i = 0
            THEN [received |-> received, hints |-> hints, candidates |-> <<>>]
            ELSE IngestEntry(f[i - 1], entries[i], peer, t)]

LEMMA IngestDefined ==
  ASSUME NEW received, NEW peer, NEW entries, NEW t, NEW n \in Nat
  PROVE  \E f : IngestUpTo(f, n, received, peer, entries, t)
<1> DEFINE Fails == {k \in Nat : ~ \E f : IngestUpTo(f, k, received, peer, entries, t)}
<1> SUFFICES ASSUME Fails # {} PROVE FALSE
  OBVIOUS
<1>1. PICK k \in Fails : \A m \in Fails : k <= m
  BY LeastNat
<1>2. CASE k = 0
  <2> DEFINE g == [i \in 0..0 |-> [received |-> received, hints |-> hints, candidates |-> <<>>]]
  <2>1. IngestUpTo(g, 0, received, peer, entries, t)
    BY DEF IngestUpTo
  <2> QED
    BY <2>1, <1>2
<1>3. CASE k # 0
  <2>1. k - 1 \in Nat /\ k - 1 \notin Fails
    BY <1>1, <1>3
  <2>2. PICK f : IngestUpTo(f, k - 1, received, peer, entries, t)
    BY <2>1
  <2> DEFINE g == [i \in 0..k |-> IF i = k THEN IngestEntry(f[k - 1], entries[k], peer, t) ELSE f[i]]
  <2>3. \A i \in 0..k : g[i] = IF i = 0
                               THEN [received |-> received, hints |-> hints, candidates |-> <<>>]
                               ELSE IngestEntry(g[i - 1], entries[i], peer, t)
    <3> SUFFICES ASSUME NEW i \in 0..k
                 PROVE  g[i] = IF i = 0
                               THEN [received |-> received, hints |-> hints, candidates |-> <<>>]
                               ELSE IngestEntry(g[i - 1], entries[i], peer, t)
      OBVIOUS
    <3>1. CASE i = k
      <4>1. g[i] = IngestEntry(f[k - 1], entries[k], peer, t)
        BY <3>1
      <4>2. g[k - 1] = f[k - 1]
        BY <2>1, <1>1
      <4> QED
        BY <4>1, <4>2, <3>1, <1>3
    <3>2. CASE i # k /\ i # 0
      <4>1. i \in 0..(k - 1) /\ i - 1 \in 0..k /\ i - 1 # k
        BY <3>2, <1>1
      <4>2. f[i] = IngestEntry(f[i - 1], entries[i], peer, t)
        BY <2>2, <4>1, <3>2 DEF IngestUpTo
      <4>3. g[i] = f[i] /\ g[i - 1] = f[i - 1]
        BY <4>1, <3>2
      <4> QED
        BY <4>2, <4>3, <3>2
    <3>3. CASE i # k /\ i = 0
      <4>1. 0 \in 0..(k - 1) /\ g[i] = f[0]
        BY <3>3, <1>1, <2>1
      <4>2. f[0] = [received |-> received, hints |-> hints, candidates |-> <<>>]
        BY <2>2, <4>1 DEF IngestUpTo
      <4> QED
        BY <4>1, <4>2, <3>3
    <3> QED
      BY <3>1, <3>2, <3>3
  <2>4. IngestUpTo(g, k, received, peer, entries, t)
    BY <2>3, Zenon DEF IngestUpTo
  <2> QED
    BY <2>4
<1> QED
  BY <1>2, <1>3

(* The induction principle of the loop: what holds before it and is kept by
   the turn of each of the entries holds after it. *)
LEMMA IngestInductionOn ==
  ASSUME NEW received, NEW peer, NEW entries \in Seq(Entry), NEW t, NEW S,
         [received |-> received, hints |-> hints, candidates |-> <<>>] \in S,
         \A a \in S, i \in 1..Len(entries) : IngestEntry(a, entries[i], peer, t) \in S
  PROVE  ingest_added(received, peer, entries, t) \in S
<1> DEFINE n == Len(entries)
           f == CHOOSE f : IngestUpTo(f, n, received, peer, entries, t)
<1>1. n \in Nat
  OBVIOUS
<1>2. IngestUpTo(f, n, received, peer, entries, t)
  BY <1>1, IngestDefined, Zenon
<1>3. ingest_added(received, peer, entries, t) = f[n]
  BY DEF ingest_added, IngestUpTo
<1> HIDE DEF f
<1> DEFINE Fails == {i \in 0..n : f[i] \notin S}
<1>4. Fails = {}
  <2> SUFFICES ASSUME Fails # {} PROVE FALSE
    OBVIOUS
  <2> Fails \in SUBSET Nat
    BY <1>1
  <2>1. PICK k \in Fails : \A m \in Fails : k <= m
    BY LeastNat, Zenon
  <2>2. CASE k = 0
    BY <2>2, <2>1, <1>2 DEF IngestUpTo
  <2>3. CASE k # 0
    <3>1. k \in 1..n /\ k - 1 \in 0..n /\ k - 1 \notin Fails
      BY <2>1, <2>3
    <3>2. f[k] = IngestEntry(f[k - 1], entries[k], peer, t)
      BY <3>1, <2>3, <1>2 DEF IngestUpTo
    <3>3. f[k - 1] \in S
      BY <3>1
    <3> QED
      BY <3>1, <3>2, <3>3, <2>1
  <2> QED
    BY <2>2, <2>3
<1> QED
  BY <1>1, <1>3, <1>4

(* The same for what the turn of any entry keeps. *)
LEMMA IngestInduction ==
  ASSUME NEW received, NEW peer, NEW entries \in Seq(Entry), NEW t, NEW S,
         [received |-> received, hints |-> hints, candidates |-> <<>>] \in S,
         \A a \in S, e \in Entry : IngestEntry(a, e, peer, t) \in S
  PROVE  ingest_added(received, peer, entries, t) \in S
<1>1. \A i \in 1..Len(entries) : entries[i] \in Entry
  OBVIOUS
<1> QED
  BY <1>1, IngestInductionOn, Zenon

-----------------------------------------------------------------------------
(* Types of the pieces.                                                      *)

LEMMA ClampType ==
  ASSUME NEW secs \in Nat
  PROVE  clamp_interval(secs) \in Nat
BY IntervalAssumption DEF clamp_interval, Smaller, Larger

LEMMA NewLinkType == NewLink \in LinkState
BY StateAssumption DEF NewLink, LinkState, Empty, Option, RecvPhase

LEMMA LinkType ==
  ASSUME TypeOK, NEW p \in Partners
  PROVE  Link(p) \in LinkState
BY NewLinkType DEF TypeOK, Link, Option

LEMMA NowSecsType ==
  ASSUME TypeOK
  PROVE  NowSecs \in Nat
BY DEF TypeOK, NowSecs

LEMMA RemoveType ==
  ASSUME NEW K, NEW V, NEW m \in [K -> Option(V)], NEW S
  PROVE  Remove(m, S) \in [K -> Option(V)]
BY DEF Remove, Option

LEMMA MakeRoomType ==
  ASSUME NEW K, NEW V, NEW m \in [K -> Option(V)], NEW ages, NEW id, NEW max
  PROVE  MakeRoom(m, ages, id, max) \in [K -> Option(V)]
BY RemoveType DEF MakeRoom

(* An accumulator of the loop, fed by peer: a hint in it is peer's, or it is
   one the engine already had. *)
Accumulators ==
    [ received   : [PeerIds -> Option(Nat)],
      hints      : [PeerIds -> Option(ReceivedHint)],
      candidates : Seq(Entry) ]

FedBy(peer) ==
    {a \in Accumulators :
        \A id \in PeerIds : a.hints[id] # None =>
            a.hints[id].source = peer \/ a.hints[id] = hints[id]}

LEMMA ClampedType ==
  ASSUME NEW e \in Entry, NEW t \in Nat
  PROVE  clamped(e, t) \in Entry /\ clamped(e, t).peer_id = e.peer_id
BY DEF Entry, clamped, Smaller

LEMMA IngestEntryFed ==
  ASSUME NEW peer \in Partners, NEW t \in Nat, NEW a \in FedBy(peer), NEW entry \in Entry
  PROVE  IngestEntry(a, entry, peer, t) \in FedBy(peer)
<1> DEFINE e == clamped(entry, t)
           hint == [source |-> peer, last_seen |-> e.last_seen]
           roomy == MakeRoom(a.received, a.received, e.peer_id, PEX_MAX_RECEIVED_PER_LINK)
           hintsRoomy == MakeRoom(a.hints, HintAges(a.hints), e.peer_id, PEX_MAX_HINTS)
           received == [roomy EXCEPT ![e.peer_id] = e.last_seen]
           newHints == [hintsRoomy EXCEPT ![e.peer_id] = hint]
<1>1. e \in Entry /\ e.peer_id \in PeerIds /\ e.last_seen \in Nat
  BY ClampedType DEF Entry
<1>2. a \in Accumulators
  BY DEF FedBy
<1>3. received \in [PeerIds -> Option(Nat)]
  <2>1. roomy \in [PeerIds -> Option(Nat)]
    BY <1>2, MakeRoomType DEF Accumulators
  <2> QED
    BY <2>1, <1>1 DEF Option
<1>4. /\ hintsRoomy \in [PeerIds -> Option(ReceivedHint)]
      /\ \A id \in PeerIds : hintsRoomy[id] \in {None, a.hints[id]}
  <2>1. hintsRoomy \in [PeerIds -> Option(ReceivedHint)]
    BY <1>2, MakeRoomType DEF Accumulators
  <2> QED
    BY <2>1, <1>2 DEF MakeRoom, Remove, Accumulators
<1>5. newHints \in [PeerIds -> Option(ReceivedHint)]
  BY <1>1, <1>4 DEF Option, ReceivedHint
<1>6. \A id \in PeerIds : newHints[id] # None =>
          newHints[id].source = peer \/ newHints[id] = hints[id]
  BY <1>1, <1>4 DEF FedBy
<1>7. Append(a.candidates, e) \in Seq(Entry)
  BY <1>1, <1>2 DEF Accumulators
<1> HIDE DEF e, received, newHints
<1>8. \/ IngestEntry(a, entry, peer, t) = a
      \/ IngestEntry(a, entry, peer, t) = [a EXCEPT !.received = received]
      \/ IngestEntry(a, entry, peer, t) =
             [received |-> received, hints |-> newHints, candidates |-> Append(a.candidates, e)]
  BY Zenon DEF IngestEntry, e, received, newHints
<1>9. [a EXCEPT !.received = received] \in FedBy(peer)
  BY <1>2, <1>3 DEF FedBy, Accumulators
<1>10. [received |-> received, hints |-> newHints, candidates |-> Append(a.candidates, e)] \in FedBy(peer)
  BY <1>3, <1>5, <1>6, <1>7 DEF FedBy, Accumulators
<1> QED
  BY <1>8, <1>9, <1>10

LEMMA IngestAddedFed ==
  ASSUME TypeOK, NEW peer \in Partners, NEW received \in [PeerIds -> Option(Nat)],
         NEW entries \in Seq(Entry)
  PROVE  ingest_added(received, peer, entries, NowSecs) \in FedBy(peer)
<1>1. [received |-> received, hints |-> hints, candidates |-> <<>>] \in FedBy(peer)
  BY DEF TypeOK, FedBy, Accumulators
<1>2. \A a \in FedBy(peer), e \in Entry : IngestEntry(a, e, peer, NowSecs) \in FedBy(peer)
  BY NowSecsType, IngestEntryFed
<1> QED
  BY <1>1, <1>2, IngestInduction, Zenon

-----------------------------------------------------------------------------
(* The invariant: types, and what ties the hints to the links.               *)

Inv == TypeOK /\ HintsHaveLiveSource /\ MutedLinksHoldNothing

(* A link that may stand in the engine's state. *)
SoundLink(l) ==
    /\ l \in LinkState
    /\ l.muted => Keys(l.received) = {}
    /\ l.strikes >= PEX_VIOLATION_LIMIT => l.muted

(* Every hint of h is an old one from another link, or one from p, and then
   the link l to p may source hints. *)
SoundHints(h, p, l) ==
    /\ h \in [PeerIds -> Option(ReceivedHint)]
    /\ \A id \in Keys(h) :
          \/ h[id] = hints[id] /\ h[id].source # p
          \/ h[id].source = p /\ l.phase = "Streaming" /\ ~l.muted

RestUnchanged == UNCHANGED <<now, known, known_epoch, advertisable_cache>>

LEMMA LinkSound ==
  ASSUME Inv, NEW p \in Partners
  PROVE  SoundLink(Link(p))
<1>1. Link(p) \in LinkState
  BY LinkType DEF Inv
<1>2. CASE links[p] = None
  BY <1>1, <1>2, StateAssumption DEF Link, NewLink, SoundLink, Keys, Empty
<1>3. CASE links[p] # None
  BY <1>1, <1>3 DEF Link, SoundLink, Inv, MutedLinksHoldNothing, Keys, TypeOK
<1> QED
  BY <1>2, <1>3

(* A hint from p means that p's link may source it. *)
LEMMA HintMeansStreaming ==
  ASSUME Inv, NEW p \in Partners, NEW id \in Keys(hints), hints[id].source = p
  PROVE  Link(p) = links[p] /\ Link(p).phase = "Streaming" /\ ~Link(p).muted
BY DEF Inv, HintsHaveLiveSource, Link, Keys

(* One link changed, the hints changed with it: the invariant is kept. *)
LEMMA LinkUpdate ==
  ASSUME Inv, NEW p \in Partners, NEW l,
         SoundLink(l), SoundHints(hints', p, l),
         links' = [links EXCEPT ![p] = l],
         known' \in [PeerIds -> Option(Entry)],
         \A id \in Keys(known') : id # LocalPeerId /\ known'[id].peer_id = id,
         now' \in Nat, known_epoch' \in Nat,
         advertisable_cache' \in Option([epoch : Nat, secs : Nat, list : SUBSET Entry])
  PROVE  Inv'
<1>1. links' \in [Partners -> Option(LinkState)]
  BY DEF Inv, TypeOK, SoundLink, Option
<1>2. TypeOK'
  BY <1>1 DEF TypeOK, SoundHints
<1>3. l # None
  BY OptionAssumption DEF SoundLink
<1>4. HintsHaveLiveSource'
  <2> SUFFICES ASSUME NEW id \in Keys(hints')
               PROVE  /\ hints'[id].source \in Keys(links')
                      /\ links'[hints'[id].source].phase = "Streaming"
                      /\ ~links'[hints'[id].source].muted
    BY DEF HintsHaveLiveSource, Keys
  <2>1. CASE hints'[id] = hints[id] /\ hints'[id].source # p
    <3>1. id \in Keys(hints)
      BY <2>1, <1>2 DEF Keys, Inv, TypeOK
    <3>2. /\ hints[id].source \in Keys(links)
          /\ links[hints[id].source].phase = "Streaming"
          /\ ~links[hints[id].source].muted
      BY <3>1 DEF Inv, HintsHaveLiveSource
    <3> QED
      BY <3>2, <2>1, <1>1 DEF Keys, Inv, TypeOK
  <2>2. CASE hints'[id].source = p /\ l.phase = "Streaming" /\ ~l.muted
    BY <2>2, <1>1, <1>3 DEF Keys, Inv, TypeOK
  <2> QED
    BY <2>1, <2>2 DEF SoundHints
<1>5. MutedLinksHoldNothing'
  <2> SUFFICES ASSUME NEW q \in Keys(links')
               PROVE  /\ links'[q].muted => Keys(links'[q].received) = {}
                      /\ links'[q].strikes >= PEX_VIOLATION_LIMIT => links'[q].muted
    BY DEF MutedLinksHoldNothing, Keys
  <2>1. CASE q = p
    BY <2>1 DEF SoundLink, Inv, TypeOK
  <2>2. CASE q # p
    <3>1. q \in Keys(links) /\ links'[q] = links[q]
      BY <2>2 DEF Keys, Inv, TypeOK
    <3> QED
      BY <3>1 DEF Inv, MutedLinksHoldNothing
  <2> QED
    BY <2>1, <2>2
<1> QED
  BY <1>2, <1>4, <1>5 DEF Inv

(* The same, for the calls that leave the outbound state alone. *)
LEMMA InboundUpdate ==
  ASSUME Inv, NEW p \in Partners, NEW l,
         SoundLink(l), SoundHints(hints', p, l),
         links' = [links EXCEPT ![p] = l], RestUnchanged
  PROVE  Inv'
<1>1. /\ known' \in [PeerIds -> Option(Entry)]
      /\ \A id \in Keys(known') : id # LocalPeerId /\ known'[id].peer_id = id
      /\ now' \in Nat /\ known_epoch' \in Nat
      /\ advertisable_cache' \in Option([epoch : Nat, secs : Nat, list : SUBSET Entry])
  BY DEF Inv, TypeOK, RestUnchanged, Keys
<1> QED
  BY <1>1, LinkUpdate

(* Unchanged hints stay sound while p's link keeps its phase and its mute. *)
LEMMA SameHints ==
  ASSUME Inv, NEW p \in Partners, NEW l,
         l.phase = Link(p).phase, l.muted = Link(p).muted
  PROVE  SoundHints(hints, p, l)
<1>1. hints \in [PeerIds -> Option(ReceivedHint)]
  BY DEF Inv, TypeOK
<1> QED
  BY <1>1, HintMeansStreaming DEF SoundHints

LEMMA NoHintsFrom ==
  ASSUME Inv, NEW p \in Partners, NEW l
  PROVE  SoundHints(HintsNotFrom(p), p, l)
<1>1. HintsNotFrom(p) \in [PeerIds -> Option(ReceivedHint)]
  BY RemoveType DEF Inv, TypeOK, HintsNotFrom
<1>2. \A id \in Keys(HintsNotFrom(p)) :
          HintsNotFrom(p)[id] = hints[id] /\ hints[id].source # p
  BY <1>1 DEF HintsNotFrom, Remove, Keys, Inv, TypeOK
<1> QED
  BY <1>1, <1>2 DEF SoundHints

-----------------------------------------------------------------------------
(* One lemma per call.                                                       *)

LEMMA StruckSound ==
  ASSUME Inv, NEW p \in Partners
  PROVE  SoundLink(struck(Link(p)))
<1>1. SoundLink(Link(p))
  BY LinkSound
<1> DEFINE mute == Link(p).muted \/ StrikeMutes(Link(p))
           kept == IF StrikeMutes(Link(p)) THEN Empty(PeerIds) ELSE Link(p).received
<1>2. struck(Link(p)) \in LinkState
  <2>1. mute \in BOOLEAN
    OBVIOUS
  <2>2. kept \in [PeerIds -> Option(Nat)]
    BY <1>1 DEF SoundLink, LinkState, Empty, Option
  <2>3. struck(Link(p)) = [Link(p) EXCEPT !.strikes = Link(p).strikes + 1,
                                          !.muted = mute, !.received = kept]
    BY <1>1 DEF struck, SoundLink, LinkState
  <2> HIDE DEF mute, kept
  <2>4. \A l \in LinkState, n \in Nat, b \in BOOLEAN, r \in [PeerIds -> Option(Nat)] :
           [l EXCEPT !.strikes = n, !.muted = b, !.received = r] \in LinkState
    BY DEF LinkState
  <2>5. Link(p) \in LinkState /\ Link(p).strikes + 1 \in Nat
    BY <1>1 DEF SoundLink, LinkState
  <2>6. [Link(p) EXCEPT !.strikes = Link(p).strikes + 1, !.muted = mute, !.received = kept]
            \in LinkState
    BY <2>1, <2>2, <2>4, <2>5
  <2> QED
    BY <2>3, <2>6
<1>3. struck(Link(p)).muted <=> Link(p).muted \/ StrikeMutes(Link(p))
  BY <1>1 DEF SoundLink, struck, LinkState
<1>4. struck(Link(p)).received = IF StrikeMutes(Link(p)) THEN Empty(PeerIds) ELSE Link(p).received
  BY <1>1 DEF SoundLink, struck, LinkState
<1>5. struck(Link(p)).strikes = Link(p).strikes + 1
  BY <1>1 DEF SoundLink, struck, LinkState
<1>6. Keys(Empty(PeerIds)) = {}
  BY DEF Keys, Empty
<1> QED
  BY <1>1, <1>2, <1>3, <1>4, <1>5, <1>6 DEF SoundLink, StrikeMutes

LEMMA StrikeInv ==
  ASSUME Inv, NEW p \in Partners, NEW code, strike(p, code), RestUnchanged
  PROVE  Inv'
<1>1. links' = [links EXCEPT ![p] = struck(Link(p))]
  BY DEF strike
<1>2. SoundLink(Link(p))
  BY LinkSound
<1>3. SoundHints(hints', p, struck(Link(p)))
  <2>1. CASE StrikeMutes(Link(p))
    BY <2>1, NoHintsFrom DEF strike
  <2>2. CASE ~StrikeMutes(Link(p))
    <3>1. hints' = hints
      BY <2>2 DEF strike
    <3>2. struck(Link(p)).phase = Link(p).phase /\ struck(Link(p)).muted = Link(p).muted
      BY <2>2, <1>2 DEF SoundLink, struck, LinkState
    <3> QED
      BY <3>1, <3>2, SameHints
  <2> QED
    BY <2>1, <2>2
<1> QED
  BY <1>1, <1>3, StruckSound, InboundUpdate

LEMMA MismatchInv ==
  ASSUME Inv, NEW p \in Partners, NEW code, mute_mismatch(p, code), RestUnchanged
  PROVE  Inv'
<1> DEFINE l == [Link(p) EXCEPT !.muted = TRUE, !.received = Empty(PeerIds)]
<1>1. links' = [links EXCEPT ![p] = l] /\ hints' = HintsNotFrom(p)
  BY DEF mute_mismatch
<1>2. SoundLink(l)
  <2>1. Link(p) \in LinkState
    BY LinkSound DEF SoundLink
  <2>2. l \in LinkState
    BY <2>1 DEF LinkState, Empty, Option
  <2>3. l.muted = TRUE /\ Keys(l.received) = {}
    BY <2>1 DEF LinkState, Empty, Keys
  <2> QED
    BY <2>2, <2>3 DEF SoundLink
<1>3. SoundHints(hints', p, l)
  BY <1>1, NoHintsFrom
<1> QED
  BY <1>1, <1>2, <1>3, InboundUpdate

LEMMA HandshakeInv ==
  ASSUME Inv, NEW p \in Partners, NEW m \in Message, m.type = "pex_handshake",
         on_handshake(p, m), RestUnchanged
  PROVE  Inv'
<1>1. CASE \E code : strike(p, code) \/ mute_mismatch(p, code)
  BY <1>1, StrikeInv, MismatchInv
<1>2. CASE /\ Link(p).phase = "AwaitingHandshake"
           /\ links' = [links EXCEPT ![p] =
                           [Link(p) EXCEPT !.remote_declared_secs = clamp_interval(m.interval),
                                           !.phase = "AwaitingSnapshot"]]
           /\ UNCHANGED hints
  <2> DEFINE l == [Link(p) EXCEPT !.remote_declared_secs = clamp_interval(m.interval),
                                  !.phase = "AwaitingSnapshot"]
  <2>1. SoundLink(Link(p))
    BY LinkSound
  <2>2. m.interval \in Nat
    BY DEF Message
  <2>3. l \in LinkState
    BY <2>1, <2>2, ClampType DEF SoundLink, LinkState, Option, RecvPhase
  <2>4. SoundLink(l)
    BY <2>1, <2>3 DEF SoundLink, LinkState
  <2>5. SoundHints(hints', p, l)
    <3>1. \A id \in Keys(hints) : hints[id].source # p
      BY <1>2, HintMeansStreaming
    <3>2. hints' = hints /\ hints \in [PeerIds -> Option(ReceivedHint)]
      BY <1>2 DEF Inv, TypeOK
    <3> QED
      BY <3>1, <3>2 DEF SoundHints
  <2> QED
    BY <1>2, <2>4, <2>5, InboundUpdate
<1> QED
  BY <1>1, <1>2, Zenon DEF on_handshake

(* A link whose partner's entries were taken in: it streams, it is not muted,
   and it holds some received map. *)
LEMMA IngestInv ==
  ASSUME Inv, NEW p \in Partners, ~Link(p).muted, RestUnchanged,
         NEW l \in LinkState, l.phase = "Streaming", l.muted = FALSE,
         l.strikes = Link(p).strikes,
         links' = [links EXCEPT ![p] = l],
         NEW h \in [PeerIds -> Option(ReceivedHint)],
         \A id \in PeerIds : h[id] # None => h[id].source = p \/ h[id] = hints[id],
         hints' = h
  PROVE  Inv'
<1>1. SoundLink(l)
  BY LinkSound DEF SoundLink
<1>2. SoundHints(h, p, l)
  BY DEF SoundHints, Keys
<1> QED
  BY <1>1, <1>2, InboundUpdate

LEMMA SnapshotInv ==
  ASSUME Inv, NEW p \in Partners, NEW m \in Message, m.type = "pex_snapshot",
         ~Link(p).muted, on_snapshot(p, m), RestUnchanged
  PROVE  Inv'
<1>1. CASE \E code : strike(p, code)
  BY <1>1, StrikeInv
<1> DEFINE acc == ingest_added(Link(p).received, p, m.peers, NowSecs)
           l == [Link(p) EXCEPT !.phase = "Streaming",
                                !.last_arrival_ms = now,
                                !.received = acc.received]
<1>2. CASE links' = [links EXCEPT ![p] = l] /\ hints' = acc.hints
  <2>1. Link(p) \in LinkState
    BY LinkSound DEF SoundLink
  <2>2. Link(p).received \in [PeerIds -> Option(Nat)]
    BY <2>1 DEF LinkState
  <2>3. m.peers \in Seq(Entry)
    BY DEF Message
  <2>4. acc \in FedBy(p)
    BY <2>2, <2>3, IngestAddedFed DEF Inv
  <2> HIDE DEF acc
  <2>5. /\ acc.received \in [PeerIds -> Option(Nat)]
        /\ acc.hints \in [PeerIds -> Option(ReceivedHint)]
        /\ \A id \in PeerIds : acc.hints[id] # None =>
              acc.hints[id].source = p \/ acc.hints[id] = hints[id]
    BY <2>4 DEF FedBy, Accumulators
  <2>6. l \in LinkState /\ l.phase = "Streaming" /\ l.muted = FALSE
        /\ l.strikes = Link(p).strikes
    BY <2>1, <2>5 DEF LinkState, RecvPhase, Option, Inv, TypeOK
  <2> QED
    BY <1>2, <2>5, <2>6, IngestInv
<1> QED
  BY <1>1, <1>2, Zenon DEF on_snapshot

LEMMA DeltaInv ==
  ASSUME Inv, NEW p \in Partners, NEW m \in Message, m.type = "pex_delta",
         ~Link(p).muted, on_delta(p, m), RestUnchanged
  PROVE  Inv'
<1>1. CASE \E code : strike(p, code)
  BY <1>1, StrikeInv
<1> DEFINE acc == ingest_added(Link(p).received, p, m.added, NowSecs)
           ids == Attributed(acc.received, m.dropped)
           l == [Link(p) EXCEPT !.last_arrival_ms = now,
                                !.received = Remove(acc.received, ids)]
           h == Remove(acc.hints, Unlisted(acc.hints, p, ids))
<1>2. CASE /\ Link(p).phase = "Streaming"
           /\ links' = [links EXCEPT ![p] = l]
           /\ hints' = h
  <2>1. Link(p) \in LinkState
    BY LinkSound DEF SoundLink
  <2>2. Link(p).received \in [PeerIds -> Option(Nat)]
    BY <2>1 DEF LinkState
  <2>3. m.added \in Seq(Entry)
    BY DEF Message
  <2>4. acc \in FedBy(p)
    BY <2>2, <2>3, IngestAddedFed DEF Inv
  <2> HIDE DEF acc
  <2>5. /\ acc.received \in [PeerIds -> Option(Nat)]
        /\ acc.hints \in [PeerIds -> Option(ReceivedHint)]
        /\ \A id \in PeerIds : acc.hints[id] # None =>
              acc.hints[id].source = p \/ acc.hints[id] = hints[id]
    BY <2>4 DEF FedBy, Accumulators
  <2>6. Remove(acc.received, ids) \in [PeerIds -> Option(Nat)]
    BY <2>5, RemoveType
  <2>7. h \in [PeerIds -> Option(ReceivedHint)]
    BY <2>5, RemoveType
  <2>8. \A id \in PeerIds : h[id] # None => h[id].source = p \/ h[id] = hints[id]
    BY <2>5 DEF Remove
  <2> HIDE DEF ids, h
  <2>9. l \in LinkState /\ l.phase = "Streaming" /\ l.muted = FALSE
        /\ l.strikes = Link(p).strikes
    BY <1>2, <2>1, <2>6 DEF LinkState, RecvPhase, Option, Inv, TypeOK
  <2> QED
    BY <1>2, <2>6, <2>7, <2>8, <2>9, IngestInv
<1> QED
  BY <1>1, <1>2, Zenon DEF on_delta

LEMMA BackedOffType ==
  ASSUME NEW l \in LinkState, now \in Nat
  PROVE  BackedOff(l) \in LinkState
<1>1. Smaller(2 * l.self_interval_secs, PEX_MAX_INTERVAL) \in Nat
  BY IntervalAssumption DEF LinkState, Smaller
<1> QED
  BY <1>1, ClampType DEF BackedOff, LinkState, Option

LEMMA ErrorInv ==
  ASSUME Inv, NEW p \in Partners, NEW m, on_pex_error(p, m), RestUnchanged
  PROVE  Inv'
<1>1. PICK l \in {BackedOff(Link(p)), Link(p)} :
          links' = [links EXCEPT ![p] = l] /\ hints' = hints
  BY DEF on_pex_error
<1>2. SoundLink(Link(p))
  BY LinkSound
<1>3. l \in LinkState
  BY <1>2, BackedOffType DEF Inv, TypeOK, SoundLink
<1>4. /\ l.phase = Link(p).phase /\ l.muted = Link(p).muted
      /\ l.strikes = Link(p).strikes /\ l.received = Link(p).received
  BY <1>2 DEF SoundLink, BackedOff, LinkState
<1>5. SoundLink(l)
  BY <1>2, <1>3, <1>4 DEF SoundLink
<1> QED
  BY <1>1, <1>4, <1>5, SameHints, InboundUpdate

LEMMA StutterInv ==
  ASSUME Inv, UNCHANGED <<links, hints, now, known, known_epoch, advertisable_cache>>
  PROVE  Inv'
BY DEF Inv, TypeOK, HintsHaveLiveSource, MutedLinksHoldNothing, Keys

LEMMA MessageInv ==
  ASSUME Inv, NEW p \in Partners, NEW m \in Message, on_message(p, m)
  PROVE  Inv'
<1>1. RestUnchanged
  BY DEF on_message, OutboundUnchanged, RestUnchanged
<1>2. CASE OnMuted(p)
  BY <1>1, <1>2, StutterInv DEF OnMuted, RestUnchanged
<1>3. CASE m.type = "pex_error" /\ on_pex_error(p, m)
  BY <1>1, <1>3, ErrorInv
<1>4. CASE m.type = "pex_handshake" /\ on_handshake(p, m)
  BY <1>1, <1>4, HandshakeInv
<1>5. CASE ~Link(p).muted /\ m.type = "pex_snapshot" /\ on_snapshot(p, m)
  BY <1>1, <1>5, SnapshotInv
<1>6. CASE ~Link(p).muted /\ m.type = "pex_delta" /\ on_delta(p, m)
  BY <1>1, <1>6, DeltaInv
<1> QED
  BY <1>2, <1>3, <1>4, <1>5, <1>6, Zenon DEF on_message

LEMMA AdvertisableType ==
  ASSUME TypeOK
  PROVE  /\ advertisable_cached \subseteq Entry
         /\ RefreshedCache \in [epoch : Nat, secs : Nat, list : SUBSET Entry]
<1>1. advertisable_base \subseteq Entry
  BY DEF TypeOK, advertisable_base, Keys, Option
<1>2. advertisable_cached \subseteq Entry
  BY <1>1 DEF TypeOK, advertisable_cached, CacheHit, Option
<1> QED
  BY <1>2, NowSecsType DEF TypeOK, RefreshedCache

LEMMA ToldType ==
  ASSUME NEW told \in [PeerIds -> Option({Fingerprint[c] : c \in Contents})],
         NEW entries \in SUBSET Entry, NEW ids
  PROVE  Told(told, entries, ids) \in [PeerIds -> Option({Fingerprint[c] : c \in Contents})]
<1> SUFFICES ASSUME NEW id \in PeerIds
             PROVE  Told(told, entries, ids)[id] \in Option({Fingerprint[c] : c \in Contents})
  BY DEF Told
<1>1. CASE id \in {e.peer_id : e \in entries}
  <2>1. (CHOOSE e \in entries : e.peer_id = id) \in Entry
    BY <1>1
  <2>2. fingerprint_hash(CHOOSE e \in entries : e.peer_id = id)
            \in {Fingerprint[c] : c \in Contents}
    BY <2>1 DEF fingerprint_hash, Entry
  <2> QED
    BY <2>2 DEF Told, Option
<1>2. CASE id \notin {e.peer_id : e \in entries}
  BY <1>2 DEF Told, Option
<1> QED
  BY <1>1, <1>2

LEMMA SnapshotType ==
  ASSUME TypeOK, NEW p
  PROVE  Snapshot(p) \in SUBSET Entry
BY AdvertisableType DEF Snapshot, trim_to_frame_budget, Freshest, advertisable_for

LEMMA AddedType ==
  ASSUME TypeOK, NEW p
  PROVE  Added(p) \in SUBSET Entry
BY AdvertisableType DEF Added, Freshest, Changed, advertisable_for

LEMMA LinkUpInv ==
  ASSUME Inv, NEW p \in Partners, link_up(p)
  PROVE  Inv'
<1>1. PICK jitter \in Nat :
         links' = [links EXCEPT ![p] =
               [Link(p) EXCEPT !.self_interval_secs = Interval,
                               !.handshake_sent = TRUE,
                               !.told = Told(@, Snapshot(p), {}),
                               !.snapshot_sent = TRUE,
                               !.last_data_send_ms = now,
                               !.send_jitter_ms = jitter]]
  BY JitterAssumption DEF link_up, jitter_ms
<1> DEFINE told == Told(Link(p).told, Snapshot(p), {})
           l == [Link(p) EXCEPT !.self_interval_secs = Interval,
                                !.handshake_sent = TRUE,
                                !.told = told,
                                !.snapshot_sent = TRUE,
                                !.last_data_send_ms = now,
                                !.send_jitter_ms = jitter]
<1>2. SoundLink(Link(p)) /\ Link(p) \in LinkState
  BY LinkSound DEF SoundLink
<1>3. told \in [PeerIds -> Option({Fingerprint[c] : c \in Contents})]
  BY <1>2, SnapshotType, ToldType DEF Inv, LinkState
<1>4. links' = [links EXCEPT ![p] = l]
  BY <1>1, <1>2 DEF LinkState
<1> HIDE DEF told
<1>5. /\ l \in LinkState
      /\ l.phase = Link(p).phase /\ l.muted = Link(p).muted
      /\ l.strikes = Link(p).strikes /\ l.received = Link(p).received
  BY <1>2, <1>3, StateAssumption DEF LinkState, Option, Inv, TypeOK
<1>6. SoundLink(l)
  BY <1>2, <1>5 DEF SoundLink
<1> HIDE DEF l
<1>7. hints' = hints /\ now' = now /\ known' = known /\ known_epoch' = known_epoch
      /\ advertisable_cache' = RefreshedCache
  BY DEF link_up, InboundUnchanged
<1>8. SoundHints(hints', p, l)
  BY <1>5, <1>7, SameHints
<1>9. /\ known' \in [PeerIds -> Option(Entry)]
      /\ \A id \in Keys(known') : id # LocalPeerId /\ known'[id].peer_id = id
      /\ now' \in Nat /\ known_epoch' \in Nat
      /\ advertisable_cache' \in Option([epoch : Nat, secs : Nat, list : SUBSET Entry])
  BY <1>7, AdvertisableType DEF Inv, TypeOK, Option, Keys
<1> QED
  BY <1>4, <1>6, <1>8, <1>9, LinkUpdate

LEMMA LinkDownInv ==
  ASSUME Inv, NEW p \in Partners, link_down(p)
  PROVE  Inv'
<1>1. /\ links' = Remove(links, {p}) /\ hints' = HintsNotFrom(p)
      /\ RestUnchanged
  BY DEF link_down, RestUnchanged
<1>2. TypeOK'
  BY <1>1, RemoveType DEF Inv, TypeOK, HintsNotFrom, RestUnchanged, Keys
<1>3. \A id \in Keys(hints') : /\ id \in Keys(hints) /\ hints'[id] = hints[id]
                               /\ hints[id].source # p
  BY <1>1 DEF HintsNotFrom, Remove, Keys, Inv, TypeOK
<1>4. \A q \in Keys(links) : q # p => q \in Keys(links') /\ links'[q] = links[q]
  BY <1>1 DEF Remove, Keys, Inv, TypeOK
<1>5. Keys(links') \subseteq Keys(links) \ {p}
  BY <1>1 DEF Remove, Keys, Inv, TypeOK
<1>6. HintsHaveLiveSource'
  BY <1>3, <1>4 DEF HintsHaveLiveSource, Inv
<1>7. MutedLinksHoldNothing'
  BY <1>4, <1>5 DEF MutedLinksHoldNothing, Inv
<1> QED
  BY <1>2, <1>6, <1>7 DEF Inv

LEMMA KnownInv ==
  ASSUME Inv, \/ \E e \in FirstHand : upsert_known(e)
              \/ \E id : remove_known(id)
  PROVE  Inv'
<1>1. UNCHANGED <<links, hints, now, advertisable_cache>>
  BY DEF upsert_known, remove_known, InboundUnchanged
<1>2. /\ known' \in [PeerIds -> Option(Entry)]
      /\ \A id \in Keys(known') : id # LocalPeerId /\ known'[id].peer_id = id
      /\ known_epoch' \in Nat
  <2>1. ASSUME NEW e \in FirstHand, upsert_known(e)
        PROVE  <1>2!:
    BY <2>1, OutboundAssumption DEF upsert_known, Inv, TypeOK, Keys, Option, Entry
  <2>2. ASSUME NEW id, remove_known(id)
        PROVE  <1>2!:
    BY <2>2, RemoveType DEF remove_known, Inv, TypeOK, Keys, Remove
  <2> QED
    BY <2>1, <2>2
<1> QED
  BY <1>1, <1>2 DEF Inv, TypeOK, HintsHaveLiveSource, MutedLinksHoldNothing, Keys

LEMMA AfterDeltaSound ==
  ASSUME Inv, NEW p \in Keys(links), NEW dropped, NEW jitter \in Nat
  PROVE  LET l == AfterDelta(p, dropped, jitter) IN
         /\ SoundLink(l)
         /\ l.phase = links[p].phase /\ l.muted = links[p].muted
<1> DEFINE told == Told(links[p].told, Added(p), dropped)
           l == [links[p] EXCEPT !.told = told,
                                 !.last_data_send_ms = now,
                                 !.send_jitter_ms = jitter]
<1>1. links[p] \in LinkState /\ SoundLink(links[p])
  BY LinkSound DEF Keys, Link, Inv, TypeOK, SoundLink
<1>2. told \in [PeerIds -> Option({Fingerprint[c] : c \in Contents})]
  BY <1>1, AddedType, ToldType DEF Inv, LinkState
<1>3. AfterDelta(p, dropped, jitter) = l
  BY <1>1 DEF AfterDelta, LinkState
<1> HIDE DEF told
<1>4. /\ l \in LinkState
      /\ l.phase = links[p].phase /\ l.muted = links[p].muted
      /\ l.strikes = links[p].strikes /\ l.received = links[p].received
  BY <1>1, <1>2 DEF LinkState, Option, Inv, TypeOK
<1> QED
  BY <1>1, <1>3, <1>4 DEF SoundLink

LEMMA TickInv ==
  ASSUME Inv, tick
  PROVE  Inv'
<1>1. PICK dropped \in [Sending -> SUBSET PeerIds], jitter \in [Sending -> JitterSamples] :
          links' = [p \in Partners |->
                       IF p \in Sending THEN AfterDelta(p, dropped[p], jitter[p]) ELSE links[p]]
  BY DEF tick
<1>2. hints' = hints /\ now' = now /\ known' = known /\ known_epoch' = known_epoch
      /\ advertisable_cache' \in {advertisable_cache, RefreshedCache}
  BY DEF tick, InboundUnchanged
<1>3. Sending \subseteq Keys(links) /\ Keys(links) \subseteq Partners
  BY DEF Sending, Due, Keys, Inv, TypeOK
<1>4. \A p \in Sending : LET l == AfterDelta(p, dropped[p], jitter[p]) IN
          SoundLink(l) /\ l.phase = links[p].phase /\ l.muted = links[p].muted
  BY <1>3, AfterDeltaSound, JitterAssumption, ZenonT(30)
<1>5. \A p \in Partners :
          \/ links'[p] = links[p]
          \/ /\ p \in Keys(links) /\ SoundLink(links'[p])
             /\ links'[p].phase = links[p].phase /\ links'[p].muted = links[p].muted
  BY <1>1, <1>3, <1>4
<1>6. links' \in [Partners -> Option(LinkState)]
  BY <1>1, <1>5 DEF SoundLink, Option, Inv, TypeOK
<1>7. TypeOK'
  BY <1>2, <1>6, AdvertisableType DEF Inv, TypeOK, Option, Keys
<1>8. Keys(links') = Keys(links)
  BY <1>5, <1>6, OptionAssumption DEF Keys, SoundLink, Inv, TypeOK
<1>9. HintsHaveLiveSource'
  BY <1>2, <1>3, <1>5, <1>8 DEF HintsHaveLiveSource, Inv, Keys
<1>10. MutedLinksHoldNothing'
  BY <1>3, <1>5, <1>8 DEF MutedLinksHoldNothing, Inv, SoundLink
<1> QED
  BY <1>7, <1>9, <1>10 DEF Inv

LEMMA ClockInv ==
  ASSUME Inv, NEW d \in ClockSteps, ClockMoves(d)
  PROVE  Inv'
BY EngineAssumption
   DEF ClockMoves, Inv, TypeOK, HintsHaveLiveSource, MutedLinksHoldNothing, Keys

-----------------------------------------------------------------------------
(* The theorems.                                                             *)

LEMMA InitInv == Init => Inv
<1> SUFFICES ASSUME Init PROVE Inv
  OBVIOUS
<1>1. Keys(links) = {} /\ Keys(hints) = {} /\ Keys(known) = {}
  BY DEF Init, Keys, Empty
<1>2. TypeOK
  BY <1>1 DEF Init, TypeOK, Empty, Option
<1> QED
  BY <1>1, <1>2 DEF Inv, HintsHaveLiveSource, MutedLinksHoldNothing

LEMMA NextInv == Inv /\ [Next]_vars => Inv'
<1> SUFFICES ASSUME Inv, [Next]_vars PROVE Inv'
  OBVIOUS
<1>1. ASSUME NEW d \in ClockSteps, ClockMoves(d) PROVE Inv'
  BY <1>1, ClockInv
<1>2. CASE \E e \in FirstHand : upsert_known(e) \/ remove_known(e.peer_id)
  BY <1>2, KnownInv
<1>3. ASSUME NEW p \in Speaking, link_up(p) PROVE Inv'
  BY <1>3, LinkUpInv, EngineAssumption
<1>4. ASSUME NEW p \in Partners, link_down(p) PROVE Inv'
  BY <1>4, LinkDownInv
<1>5. ASSUME NEW p \in Partners, NEW m \in Inbox, on_message(p, m) PROVE Inv'
  BY <1>5, MessageInv, InboundAssumption
<1>6. ASSUME NEW p \in Partners, NEW code \in Reported, record_violation(p, code) PROVE Inv'
  BY <1>6, StrikeInv DEF record_violation, OutboundUnchanged, RestUnchanged
<1>7. CASE tick
  BY <1>7, TickInv
<1>8. CASE UNCHANGED vars
  BY <1>8, StutterInv DEF vars
<1> QED
  BY <1>1, <1>2, <1>3, <1>4, <1>5, <1>6, <1>7, <1>8, Zenon DEF Next

(* The invariant holds of every behaviour of the engine. *)
THEOREM Invariance == Spec => []Inv
<1> QED
  BY InitInv, NextInv, PTL DEF Spec

(* Every variable keeps the type the code declares, whatever the host calls. *)
THEOREM TypeCorrect == Spec => []TypeOK
<1>1. Inv => TypeOK
  BY DEF Inv
<1> QED
  BY <1>1, Invariance, PTL

(* No hint outlives the link that gave it or survives its mute, for any
   partners and any messages: link_down, strike and mute_mismatch, whatever
   was ingested before, leave no hint without a live source. *)
THEOREM LiveSources == Spec => []HintsHaveLiveSource
<1>1. Inv => HintsHaveLiveSource
  BY DEF Inv
<1> QED
  BY <1>1, Invariance, PTL

(* A muted link holds no received ids, and no link with all its strikes used
   up is unmuted. *)
THEOREM MutedHoldNothing == Spec => []MutedLinksHoldNothing
<1>1. Inv => MutedLinksHoldNothing
  BY DEF Inv
<1> QED
  BY <1>1, Invariance, PTL
===============================================================================
