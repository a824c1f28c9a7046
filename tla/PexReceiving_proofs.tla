---------------------------- MODULE PexReceiving_proofs -------------------------
(***************************************************************************)
(* Proofs about what the receiver holds and what it surfaces: the two      *)
(* accumulators keep their caps, hold nothing from the future and agree    *)
(* with each other, and only news becomes a candidate or changes a hint.   *)
(***************************************************************************)
EXTENDS PexEngine_proofs

(* What a link holds; nothing if the engine does not know it. *)
Held(p) == Link(p).received

(* m with the value v for id, for which room was made. *)
Put(m, ages, id, v, max) == [MakeRoom(m, ages, id, max) EXCEPT ![id] = v]

(* Accumulator b is a after one turn of the loop took in the entry e of peer. *)
TookIn(a, b, e, peer) ==
    /\ b.received = Put(a.received, a.received, e.peer_id, e.last_seen, PEX_MAX_RECEIVED_PER_LINK)
    /\ \/ /\ b.hints = a.hints
          /\ a.hints[e.peer_id] # None
          /\ e.last_seen <= a.hints[e.peer_id].last_seen
       \/ b.hints = Put(a.hints, HintAges(a.hints), e.peer_id,
                        [source |-> peer, last_seen |-> e.last_seen], PEX_MAX_HINTS)

-----------------------------------------------------------------------------
(* The pieces.                                                               *)

LEMMA PeerIdsFinite == IsFiniteSet(PeerIds)
BY EntryAssumption, FS_AddElement DEF PeerIds

LEMMA OneMore ==
  ASSUME NEW S, NEW x, IsFiniteSet(S)
  PROVE  /\ IsFiniteSet(S \cup {x})
         /\ Cardinality(S) \in Nat /\ Cardinality(S \cup {x}) \in Nat
         /\ Cardinality(S \cup {x}) <= Cardinality(S) + 1
<1>1. IsFiniteSet(S \cup {x}) /\ Cardinality(S) \in Nat /\ Cardinality(S \cup {x}) \in Nat
  BY FS_AddElement, FS_CardinalityType
<1>2. Cardinality(S \cup {x}) \in {Cardinality(S), Cardinality(S) + 1}
  BY FS_AddElement
<1> QED
  BY <1>1, <1>2

LEMMA KeysFinite ==
  ASSUME NEW V, NEW m \in [PeerIds -> V]
  PROVE  /\ Keys(m) \subseteq PeerIds /\ IsFiniteSet(Keys(m))
         /\ Cardinality(Keys(m)) \in Nat
<1>1. Keys(m) \subseteq PeerIds
  BY DEF Keys
<1> QED
  BY <1>1, PeerIdsFinite, FS_Subset, FS_CardinalityType

LEMMA MakeRoomKeeps ==
  ASSUME NEW K, NEW V, NEW m \in [K -> V], NEW ages, NEW id, NEW max
  PROVE  /\ DOMAIN MakeRoom(m, ages, id, max) = K
         /\ \A k \in K : MakeRoom(m, ages, id, max)[k] \in {None, m[k]}
BY DEF MakeRoom, Remove

LEMMA PutKeeps ==
  ASSUME NEW V, NEW m \in [PeerIds -> Option(V)], NEW ages, NEW id \in PeerIds, NEW v, NEW max
  PROVE  LET n == Put(m, ages, id, v, max) IN
         /\ DOMAIN n = PeerIds
         /\ n[id] = v
         /\ \A k \in PeerIds \ {id} : n[k] \in {None, m[k]}
BY MakeRoomKeeps DEF Put

(* evict_oldest finds a key: there is an oldest one. *)
LEMMA OldestIsKey ==
  ASSUME NEW ages \in [PeerIds -> Option(Nat)], Keys(ages) # {}
  PROVE  Oldest(ages) \in Keys(ages)
<1> DEFINE T == {ages[k] : k \in Keys(ages)}
<1>1. T \in SUBSET Nat /\ T # {}
  BY DEF Keys, Option
<1>2. PICK t \in T : \A s \in T : t <= s
  BY <1>1, LeastNat
<1> DEFINE U == {k \in Keys(ages) : ages[k] = t}
<1>3. U \in SUBSET Nat /\ U # {}
  BY EntryAssumption DEF Keys, PeerIds
<1>4. PICK k \in U : \A j \in U : k <= j
  BY <1>3, LeastNat
<1>5. \A j \in Keys(ages) : ages[k] < ages[j] \/ (ages[k] = ages[j] /\ k <= j)
  <2> SUFFICES ASSUME NEW j \in Keys(ages), ages[j] # t PROVE ages[k] < ages[j]
    BY <1>4
  <2> QED
    BY <1>1, <1>2, <1>4, SMTT(30)
<1> QED
  BY <1>4, <1>5 DEF Oldest

(* An insertion with room made keeps the cap. *)
LEMMA PutBounded ==
  ASSUME NEW V, NEW m \in [PeerIds -> Option(V)],
         NEW ages \in [PeerIds -> Option(Nat)], Keys(ages) = Keys(m),
         NEW id \in PeerIds, NEW v, v # None,
         NEW max \in Nat \ {0}, Cardinality(Keys(m)) <= max
  PROVE  Cardinality(Keys(Put(m, ages, id, v, max))) <= max
<1> DEFINE n == Put(m, ages, id, v, max)
<1> SUFFICES Cardinality(Keys(n)) <= max
  OBVIOUS
<1>1. IsFiniteSet(Keys(m)) /\ Cardinality(Keys(m)) \in Nat
  BY KeysFinite
<1>2. CASE m[id] # None
  <2>1. n = [m EXCEPT ![id] = v]
    BY <1>2 DEF Put, MakeRoom
  <2>2. Keys(n) = Keys(m)
    BY <1>2, <2>1 DEF Keys
  <2> QED
    BY <2>2
<1>3. CASE m[id] = None /\ Cardinality(Keys(m)) < max
  <2>1. ~(Cardinality(Keys(m)) >= max)
    BY <1>1, <1>3
  <2>2. n = [m EXCEPT ![id] = v]
    BY <2>1 DEF Put, MakeRoom
  <2>3. Keys(n) = Keys(m) \cup {id}
    BY <1>3, <2>2 DEF Keys
  <2> HIDE DEF n
  <2>4. /\ Cardinality(Keys(m) \cup {id}) <= Cardinality(Keys(m)) + 1
        /\ Cardinality(Keys(m) \cup {id}) \in Nat
    BY <1>1, OneMore
  <2> QED
    BY <1>1, <1>3, <2>3, <2>4
<1>4. CASE m[id] = None /\ ~(Cardinality(Keys(m)) < max)
  <2>1. Cardinality(Keys(m)) = max
    BY <1>1, <1>4
  <2>2. Keys(m) # {}
    BY <1>1, <2>1, FS_EmptySet
  <2> DEFINE o == Oldest(ages)
             S == Keys(m) \ {o}
  <2>3. o \in Keys(m)
    BY <2>2, OldestIsKey
  <2> HIDE DEF o
  <2>4. IsFiniteSet(S) /\ Cardinality(S) = max - 1
    BY <1>1, <2>1, <2>3, FS_RemoveElement
  <2>5. Keys(n) = S \cup {id}
    <3>1. MakeRoom(m, ages, id, max) = Remove(m, {o})
      BY <1>1, <1>4 DEF MakeRoom, o
    <3>2. n = [Remove(m, {o}) EXCEPT ![id] = v]
      BY <3>1 DEF Put
    <3>3. \A k \in PeerIds : k # id => n[k] = IF k = o THEN None ELSE m[k]
      BY <3>2 DEF Remove
    <3>4. DOMAIN n = PeerIds /\ n[id] = v
      BY <3>2 DEF Remove
    <3> QED
      BY <1>4, <3>3, <3>4 DEF Keys
  <2> HIDE DEF n
  <2>6. /\ Cardinality(S \cup {id}) <= Cardinality(S) + 1
        /\ Cardinality(S \cup {id}) \in Nat /\ Cardinality(S) \in Nat
    BY <2>4, OneMore
  <2> HIDE DEF S
  <2> QED
    BY <2>4, <2>5, <2>6
<1> QED
  BY <1>2, <1>3, <1>4

(* One turn of the loop leaves the accumulators alone or takes the entry in,
   which is then about a third party and not from the future. *)
LEMMA Turn ==
  ASSUME NEW peer \in Partners, NEW t \in Nat, NEW a \in Accumulators, NEW entry \in Entry
  PROVE  LET b == IngestEntry(a, entry, peer, t)
             e == clamped(entry, t)
         IN  \/ b = a
             \/ /\ e \in Entry /\ e.peer_id \in Peers /\ e.last_seen <= t
                /\ TookIn(a, b, e, peer)
<1> DEFINE e == clamped(entry, t)
           b == IngestEntry(a, entry, peer, t)
<1>1. e \in Entry /\ e.peer_id = entry.peer_id /\ e.peer_id \in PeerIds
  BY ClampedType DEF Entry
<1>2. e.last_seen <= t /\ e.last_seen \in Nat
  BY DEF clamped, Smaller, Entry
<1>3. CASE ~validate(entry, peer, t)
  BY <1>3 DEF IngestEntry
<1>4. CASE validate(entry, peer, t)
  <2>1. e.peer_id \in Peers
    BY <1>1, <1>4 DEF validate, PeerIds
  <2> DEFINE r == Put(a.received, a.received, e.peer_id, e.last_seen, PEX_MAX_RECEIVED_PER_LINK)
             h == Put(a.hints, HintAges(a.hints), e.peer_id,
                      [source |-> peer, last_seen |-> e.last_seen], PEX_MAX_HINTS)
  <2> HIDE DEF e
  <2>2. CASE Fresher(e, a.hints)
    <3>1. b = [received |-> r, hints |-> h, candidates |-> Append(a.candidates, e)]
      BY <1>4, <2>2 DEF IngestEntry, Put, e
    <3>2. b.received = r /\ b.hints = h
      BY <3>1
    <3> QED
      BY <1>1, <1>2, <2>1, <3>2 DEF TookIn, e
  <2>3. CASE ~Fresher(e, a.hints)
    <3>1. b = [a EXCEPT !.received = r]
      BY <1>4, <2>3 DEF IngestEntry, Put, e
    <3>2. b.received = r /\ b.hints = a.hints
      BY <3>1 DEF Accumulators
    <3>3. /\ a.hints[e.peer_id] # None
          /\ a.hints[e.peer_id].last_seen \in Nat
      BY <1>1, <2>3 DEF Fresher, Accumulators, Option, ReceivedHint
    <3>4. e.last_seen <= a.hints[e.peer_id].last_seen
      BY <1>2, <2>3, <3>3 DEF Fresher, e
    <3> QED
      BY <1>1, <1>2, <2>1, <3>2, <3>3, <3>4 DEF TookIn, e
  <2> QED
    BY <2>2, <2>3
<1> QED
  BY <1>3, <1>4
-----------------------------------------------------------------------------
(* What any call does to what is held: it holds the same, it frees a link, or *)
(* it feeds one by the loop and then removes what the message withdrew.       *)

SameHeld == hints' = hints /\ \A q \in Partners : Held(q)' = Held(q)

OthersHeld(p) == \A q \in Partners \ {p} : Held(q)' = Held(q)

Freed(p) == hints' = HintsNotFrom(p) /\ Held(p)' = Empty(PeerIds) /\ OthersHeld(p)

FedWith(p, entries, dropped) ==
    LET acc == ingest_added(Held(p), p, entries, NowSecs)
        ids == Keys(acc.received) \cap dropped
    IN  /\ Held(p)' = Remove(acc.received, ids)
        /\ hints' = Remove(acc.hints, Unlisted(acc.hints, p, ids))
        /\ OthersHeld(p) /\ now' = now
        /\ out'.peer = p /\ out'.candidates = acc.candidates
        /\ \A i \in 1..Len(entries) : entries[i].peer_id \notin dropped

Fed(p) == \E entries \in Seq(Entry), dropped \in SUBSET PeerIds : FedWith(p, entries, dropped)

HoldStep == SameHeld \/ \E p \in Partners : Freed(p) \/ Fed(p)

LEMMA HeldType ==
  ASSUME Inv, NEW p \in Partners
  PROVE  Held(p) \in [PeerIds -> Option(Nat)]
BY LinkSound DEF SoundLink, LinkState, Held

LEMMA OneLinkHeld ==
  ASSUME Inv, NEW p \in Partners, NEW l \in LinkState, links' = [links EXCEPT ![p] = l]
  PROVE  Held(p)' = l.received /\ OthersHeld(p)
<1>1. links'[p] = l /\ \A q \in Partners \ {p} : links'[q] = links[q]
  BY DEF Inv, TypeOK
<1>2. l # None
  BY OptionAssumption
<1> QED
  BY <1>1, <1>2 DEF Held, Link, OthersHeld

LEMMA OneLinkSame ==
  ASSUME Inv, NEW p \in Partners, NEW l \in LinkState, links' = [links EXCEPT ![p] = l],
         l.received = Held(p), hints' = hints
  PROVE  SameHeld
BY OneLinkHeld DEF SameHeld, OthersHeld

LEMMA StrikeHolds ==
  ASSUME Inv, NEW p \in Partners, NEW code, strike(p, code)
  PROVE  SameHeld \/ Freed(p)
<1> DEFINE l == struck(Link(p))
<1>1. Link(p) \in LinkState /\ l \in LinkState
  BY LinkSound, StruckSound DEF SoundLink
<1>2. links' = [links EXCEPT ![p] = l]
  BY DEF strike
<1>3. CASE StrikeMutes(Link(p))
  <2>1. l.received = Empty(PeerIds)
    BY <1>1, <1>3 DEF struck, LinkState
  <2>2. hints' = HintsNotFrom(p)
    BY <1>3 DEF strike
  <2> HIDE DEF l
  <2> QED
    BY <1>1, <1>2, <2>1, <2>2, OneLinkHeld DEF Freed
<1>4. CASE ~StrikeMutes(Link(p))
  <2>1. l.received = Held(p)
    BY <1>1, <1>4 DEF struck, LinkState, Held
  <2>2. hints' = hints
    BY <1>4 DEF strike
  <2> HIDE DEF l
  <2> QED
    BY <1>1, <1>2, <2>1, <2>2, OneLinkSame
<1> QED
  BY <1>3, <1>4

LEMMA HandshakeHolds ==
  ASSUME Inv, NEW p \in Partners, NEW m \in Message, m.type = "pex_handshake", on_handshake(p, m)
  PROVE  SameHeld \/ Freed(p)
<1>1. Link(p) \in LinkState
  BY LinkSound DEF SoundLink
<1>2. CASE \E code : strike(p, code)
  BY <1>2, StrikeHolds
<1>3. CASE \E code : mute_mismatch(p, code)
  <2> DEFINE l == [Link(p) EXCEPT !.muted = TRUE, !.received = Empty(PeerIds)]
  <2>1. l \in LinkState /\ l.received = Empty(PeerIds)
    BY <1>1 DEF LinkState, Empty, Option
  <2>2. links' = [links EXCEPT ![p] = l] /\ hints' = HintsNotFrom(p)
    BY <1>3 DEF mute_mismatch
  <2> HIDE DEF l
  <2> QED
    BY <2>1, <2>2, OneLinkHeld DEF Freed
<1>4. CASE /\ links' = [links EXCEPT ![p] =
                           [Link(p) EXCEPT !.remote_declared_secs = clamp_interval(m.interval),
                                           !.phase = "AwaitingSnapshot"]]
           /\ hints' = hints
  <2> DEFINE l == [Link(p) EXCEPT !.remote_declared_secs = clamp_interval(m.interval),
                                  !.phase = "AwaitingSnapshot"]
  <2>1. clamp_interval(m.interval) \in Nat
    BY ClampType DEF Message
  <2>2. l \in LinkState /\ l.received = Held(p)
    BY <1>1, <2>1 DEF LinkState, RecvPhase, Option, Held
  <2>3. links' = [links EXCEPT ![p] = l] /\ hints' = hints
    BY <1>4
  <2> HIDE DEF l
  <2> QED
    BY <2>2, <2>3, OneLinkSame
<1> QED
  BY <1>2, <1>3, <1>4, Zenon DEF on_handshake

(* The types of what the loop and the withdrawals leave. *)
LEMMA FedType ==
  ASSUME Inv, NEW p \in Partners, NEW entries \in Seq(Entry)
  PROVE  ingest_added(Held(p), p, entries, NowSecs) \in FedBy(p)
BY HeldType, IngestAddedFed DEF Inv

LEMMA RemoveNothing ==
  ASSUME NEW V, NEW m \in [PeerIds -> V]
  PROVE  Remove(m, {}) = m
BY DEF Remove

LEMMA SnapshotFeeds ==
  ASSUME Inv, NEW p \in Partners, NEW m \in Message, m.type = "pex_snapshot",
         on_snapshot(p, m), now' = now
  PROVE  (\E code : strike(p, code)) \/ Fed(p)
<1>1. CASE \E code : strike(p, code)
  BY <1>1
<1> DEFINE acc == ingest_added(Held(p), p, m.peers, NowSecs)
           l == [Link(p) EXCEPT !.phase = "Streaming",
                                !.last_arrival_ms = now,
                                !.received = acc.received]
<1>2. CASE /\ links' = [links EXCEPT ![p] = l] /\ hints' = acc.hints
           /\ out' = [Quiet EXCEPT !.peer = p, !.candidates = acc.candidates]
  <2>1. Link(p) \in LinkState /\ m.peers \in Seq(Entry)
    BY LinkSound DEF SoundLink, Message
  <2>2. acc \in FedBy(p)
    BY <2>1, FedType
  <2> HIDE DEF acc
  <2>3. acc.received \in [PeerIds -> Option(Nat)] /\ acc.hints \in [PeerIds -> Option(ReceivedHint)]
    BY <2>2 DEF FedBy, Accumulators
  <2>4. l \in LinkState /\ l.received = acc.received
    BY <2>1, <2>3 DEF LinkState, RecvPhase, Option, Inv, TypeOK
  <2> HIDE DEF l
  <2>5. Held(p)' = acc.received /\ OthersHeld(p)
    BY <1>2, <2>4, OneLinkHeld
  <2>6. /\ Keys(acc.received) \cap {} = {} /\ Unlisted(acc.hints, p, {}) = {}
        /\ Remove(acc.received, {}) = acc.received /\ Remove(acc.hints, {}) = acc.hints
    BY <2>3, RemoveNothing DEF Unlisted
  <2> USE DEF acc
  <2>7. out'.peer = p /\ out'.candidates = acc.candidates
    BY <1>2 DEF Quiet
  <2>8. FedWith(p, m.peers, {})
    BY <1>2, <2>5, <2>6, <2>7 DEF FedWith
  <2> QED
    BY <2>1, <2>8 DEF Fed
<1> QED
  BY <1>1, <1>2, Zenon DEF on_snapshot, Held

LEMMA DeltaFeeds ==
  ASSUME Inv, NEW p \in Partners, NEW m \in Message, m.type = "pex_delta",
         on_delta(p, m), now' = now
  PROVE  (\E code : strike(p, code)) \/ Fed(p)
<1>1. CASE \E code : strike(p, code)
  BY <1>1
<1> DEFINE acc == ingest_added(Held(p), p, m.added, NowSecs)
           dropped == {m.dropped[i] : i \in DOMAIN m.dropped}
           ids == Keys(acc.received) \cap dropped
           l == [Link(p) EXCEPT !.last_arrival_ms = now,
                                !.received = Remove(acc.received, ids)]
<1>2. CASE /\ links' = [links EXCEPT ![p] = l]
           /\ hints' = Remove(acc.hints, Unlisted(acc.hints, p, ids))
           /\ out' = [Quiet EXCEPT !.peer = p, !.candidates = acc.candidates, !.attributed = ids]
           /\ ~Overlapping(m)
  <2>1. Link(p) \in LinkState /\ m.added \in Seq(Entry) /\ dropped \in SUBSET PeerIds
    BY LinkSound DEF SoundLink, Message
  <2>2. acc \in FedBy(p)
    BY <2>1, FedType
  <2> HIDE DEF acc, dropped, ids
  <2>3. Remove(acc.received, ids) \in [PeerIds -> Option(Nat)]
    BY <2>2, RemoveType DEF FedBy, Accumulators
  <2>4. l \in LinkState /\ l.received = Remove(acc.received, ids)
    BY <2>1, <2>3 DEF LinkState, Option, Inv, TypeOK
  <2> HIDE DEF l
  <2>5. Held(p)' = Remove(acc.received, ids) /\ OthersHeld(p)
    BY <1>2, <2>4, OneLinkHeld
  <2> USE DEF acc, ids
  <2>6. out'.peer = p /\ out'.candidates = acc.candidates
    BY <1>2 DEF Quiet
  <2>7. \A i \in 1..Len(m.added) : m.added[i].peer_id \notin dropped
    BY <1>2, <2>1 DEF Overlapping, dropped
  <2>8. FedWith(p, m.added, dropped)
    BY <1>2, <2>5, <2>6, <2>7 DEF FedWith
  <2> HIDE DEF dropped
  <2> QED
    BY <2>1, <2>8 DEF Fed
<1> QED
  BY <1>1, <1>2, Zenon DEF on_delta, Held, Attributed

LEMMA ErrorHolds ==
  ASSUME Inv, NEW p \in Partners, NEW m, on_pex_error(p, m)
  PROVE  SameHeld
<1>1. PICK l \in {BackedOff(Link(p)), Link(p)} :
          links' = [links EXCEPT ![p] = l] /\ hints' = hints
  BY DEF on_pex_error
<1>2. Link(p) \in LinkState /\ l \in LinkState
  BY LinkSound, BackedOffType DEF SoundLink, Inv, TypeOK
<1>3. l.received = Held(p)
  BY <1>2 DEF BackedOff, LinkState, Held
<1> QED
  BY <1>1, <1>2, <1>3, OneLinkSame

LEMMA SameLinksHeld ==
  ASSUME UNCHANGED <<links, hints>>
  PROVE  SameHeld
BY DEF SameHeld, Held, Link

LEMMA MessageHolds ==
  ASSUME Inv, NEW p \in Partners, NEW m \in Inbox, on_message(p, m)
  PROVE  HoldStep
<1>1. m \in Message /\ now' = now
  BY InboundAssumption DEF on_message, OutboundUnchanged
<1>2. CASE OnMuted(p)
  BY <1>2, SameLinksHeld DEF OnMuted, HoldStep
<1>3. CASE on_pex_error(p, m)
  BY <1>3, ErrorHolds DEF HoldStep
<1>4. CASE m.type = "pex_handshake" /\ on_handshake(p, m)
  BY <1>1, <1>4, HandshakeHolds DEF HoldStep
<1>5. CASE m.type = "pex_snapshot" /\ on_snapshot(p, m)
  BY <1>1, <1>5, SnapshotFeeds, StrikeHolds DEF HoldStep
<1>6. CASE m.type = "pex_delta" /\ on_delta(p, m)
  BY <1>1, <1>6, DeltaFeeds, StrikeHolds DEF HoldStep
<1> QED
  BY <1>2, <1>3, <1>4, <1>5, <1>6, Zenon DEF on_message

LEMMA LinkUpHolds ==
  ASSUME Inv, NEW p \in Partners, link_up(p)
  PROVE  SameHeld
<1>1. PICK jitter \in Nat :
         links' = [links EXCEPT ![p] =
               [Link(p) EXCEPT !.self_interval_secs = Interval,
                               !.handshake_sent = TRUE,
                               !.told = Told(@, Snapshot(p), {}),
                               !.snapshot_sent = TRUE,
                               !.last_data_send_ms = now,
                               !.send_jitter_ms = jitter]]
  BY JitterAssumption DEF link_up, jitter_ms
<1> DEFINE l == [Link(p) EXCEPT !.self_interval_secs = Interval,
                               !.handshake_sent = TRUE,
                               !.told = Told(@, Snapshot(p), {}),
                               !.snapshot_sent = TRUE,
                               !.last_data_send_ms = now,
                               !.send_jitter_ms = jitter]
<1>2. Link(p) \in LinkState
  BY LinkSound DEF SoundLink
<1>3. l \in LinkState
  BY <1>2, SnapshotType, ToldType, StateAssumption DEF LinkState, Option, Inv, TypeOK
<1>4. l.received = Held(p)
  BY <1>2 DEF LinkState, Held
<1>5. links' = [links EXCEPT ![p] = l] /\ hints' = hints
  BY <1>1 DEF link_up, InboundUnchanged
<1> HIDE DEF l
<1> QED
  BY <1>3, <1>4, <1>5, OneLinkSame

LEMMA LinkDownHolds ==
  ASSUME Inv, NEW p \in Partners, link_down(p)
  PROVE  Freed(p)
<1>1. links'[p] = None /\ \A q \in Partners \ {p} : links'[q] = links[q]
  BY DEF link_down, Remove, Inv, TypeOK
<1> QED
  BY <1>1 DEF link_down, Freed, OthersHeld, Held, Link, NewLink

LEMMA TickHolds ==
  ASSUME Inv, tick
  PROVE  SameHeld
<1>1. PICK dropped \in [Sending -> SUBSET PeerIds], jitter \in [Sending -> JitterSamples] :
          links' = [p \in Partners |->
                       IF p \in Sending THEN AfterDelta(p, dropped[p], jitter[p]) ELSE links[p]]
  BY DEF tick
<1>2. hints' = hints
  BY DEF tick, InboundUnchanged
<1> SUFFICES ASSUME NEW q \in Partners PROVE Held(q)' = Held(q)
  BY <1>2 DEF SameHeld
<1>3. CASE q \notin Sending
  BY <1>1, <1>3 DEF Held, Link
<1>4. CASE q \in Sending
  <2>1. links'[q] = AfterDelta(q, dropped[q], jitter[q])
    BY <1>1, <1>4
  <2>2. q \in Keys(links) /\ jitter[q] \in Nat
    BY <1>4, JitterAssumption DEF Sending, Due
  <2>3. links'[q] # None
    BY <2>1, <2>2, AfterDeltaSound, OptionAssumption DEF SoundLink
  <2>4. links[q] = Link(q) /\ Link(q) \in LinkState
    BY <2>2, LinkSound DEF Keys, Link, SoundLink
  <2>5. links'[q].received = links[q].received
    BY <2>1, <2>4 DEF AfterDelta, LinkState
  <2> QED
    BY <2>2, <2>3, <2>5 DEF Held, Link, Keys
<1> QED
  BY <1>3, <1>4

LEMMA NextHolds ==
  ASSUME Inv, [Next]_vars
  PROVE  HoldStep
<1>1. ASSUME NEW d \in ClockSteps, ClockMoves(d) PROVE HoldStep
  BY <1>1, SameLinksHeld DEF ClockMoves, HoldStep
<1>2. CASE \E e \in FirstHand : upsert_known(e) \/ remove_known(e.peer_id)
  BY <1>2, SameLinksHeld DEF upsert_known, remove_known, InboundUnchanged, HoldStep
<1>3. ASSUME NEW p \in Speaking, link_up(p) PROVE HoldStep
  BY <1>3, LinkUpHolds, EngineAssumption DEF HoldStep
<1>4. ASSUME NEW p \in Partners, link_down(p) PROVE HoldStep
  BY <1>4, LinkDownHolds DEF HoldStep
<1>5. ASSUME NEW p \in Partners, NEW m \in Inbox, on_message(p, m) PROVE HoldStep
  BY <1>5, MessageHolds
<1>6. ASSUME NEW p \in Partners, NEW code \in Reported, record_violation(p, code) PROVE HoldStep
  BY <1>6, StrikeHolds DEF record_violation, HoldStep
<1>7. CASE tick
  BY <1>7, TickHolds DEF HoldStep
<1>8. CASE UNCHANGED vars
  BY <1>8, SameLinksHeld DEF vars, HoldStep
<1> QED
  BY <1>1, <1>2, <1>3, <1>4, <1>5, <1>6, <1>7, <1>8, Zenon DEF Next

-----------------------------------------------------------------------------
(* What the loop keeps, turn by turn.                                        *)

(* The accumulators keep their caps. *)
Bounded(received, h) ==
    /\ Cardinality(Keys(received)) <= PEX_MAX_RECEIVED_PER_LINK
    /\ Cardinality(Keys(h)) <= PEX_MAX_HINTS

(* What peer holds and the hints it gave agree: the hint is as fresh as the
   received entry, and if nothing can be evicted there is a received entry. *)
Agree(received, h, peer) ==
    /\ Keys(received) \subseteq Peers
    /\ \A id \in PeerIds : h[id] # None /\ h[id].source = peer =>
          /\ received[id] # None => h[id].last_seen >= received[id]
          /\ Cardinality(Peers) <= PEX_MAX_RECEIVED_PER_LINK => received[id] # None

(* Nothing is from after t. *)
Past(received, h, t) ==
    \A id \in PeerIds :
        /\ received[id] # None => received[id] <= t
        /\ h[id] # None => h[id].last_seen <= t

LEMMA HintAgesKeys ==
  ASSUME NEW h \in [PeerIds -> Option(ReceivedHint)]
  PROVE  HintAges(h) \in [PeerIds -> Option(Nat)] /\ Keys(HintAges(h)) = Keys(h)
<1>1. \A id \in PeerIds : h[id] # None => h[id].last_seen \in Nat
  BY DEF Option, ReceivedHint
<1>2. \A n \in Nat : n # None
  BY NoneAssumption
<1> QED
  BY <1>1, <1>2 DEF HintAges, Keys, Option

LEMMA TurnBounded ==
  ASSUME NEW peer \in Partners, NEW t \in Nat, NEW a \in Accumulators, NEW entry \in Entry,
         Bounded(a.received, a.hints)
  PROVE  LET b == IngestEntry(a, entry, peer, t) IN Bounded(b.received, b.hints)
<1> DEFINE b == IngestEntry(a, entry, peer, t)
           e == clamped(entry, t)
           hint == [source |-> peer, last_seen |-> e.last_seen]
<1>1. CASE b = a
  BY <1>1
<1>2. CASE e \in Entry /\ TookIn(a, b, e, peer)
  <2>1. e.peer_id \in PeerIds /\ e.last_seen \in Nat /\ hint \in ReceivedHint
    BY <1>2, StateAssumption DEF Entry, ReceivedHint
  <2> HIDE DEF e, hint
  <2>2. e.last_seen # None /\ hint # None
    <3>1. e.last_seen # None
      BY <2>1, NoneAssumption
    <3>2. hint # None
      BY <2>1, OptionAssumption
    <3> QED
      BY <3>1, <3>2
  <2>3. /\ a.received \in [PeerIds -> Option(Nat)]
        /\ a.hints \in [PeerIds -> Option(ReceivedHint)]
    BY DEF Accumulators
  <2> HIDE DEF b
  <2>4. Cardinality(Keys(b.received)) <= PEX_MAX_RECEIVED_PER_LINK
    BY <1>2, <2>1, <2>2, <2>3, PutBounded, StateAssumption DEF TookIn, Bounded
  <2>5. Cardinality(Keys(Put(a.hints, HintAges(a.hints), e.peer_id, hint, PEX_MAX_HINTS)))
            <= PEX_MAX_HINTS
    BY <2>1, <2>2, <2>3, HintAgesKeys, PutBounded, StateAssumption DEF Bounded
  <2>6. Cardinality(Keys(b.hints)) <= PEX_MAX_HINTS
    BY <1>2, <2>5 DEF TookIn, Bounded, hint
  <2> QED
    BY <2>4, <2>6 DEF Bounded, b
<1> QED
  BY <1>1, <1>2, Turn

LEMMA TurnPast ==
  ASSUME NEW peer \in Partners, NEW t \in Nat, NEW a \in Accumulators, NEW entry \in Entry,
         Past(a.received, a.hints, t)
  PROVE  LET b == IngestEntry(a, entry, peer, t) IN Past(b.received, b.hints, t)
<1> DEFINE b == IngestEntry(a, entry, peer, t)
           e == clamped(entry, t)
           hint == [source |-> peer, last_seen |-> e.last_seen]
           r == Put(a.received, a.received, e.peer_id, e.last_seen, PEX_MAX_RECEIVED_PER_LINK)
           h == Put(a.hints, HintAges(a.hints), e.peer_id, hint, PEX_MAX_HINTS)
<1>1. CASE b = a
  BY <1>1
<1>2. CASE e \in Entry /\ e.last_seen <= t /\ TookIn(a, b, e, peer)
  <2>1. e.peer_id \in PeerIds /\ hint.last_seen = e.last_seen
    BY <1>2 DEF Entry
  <2>2. /\ a.received \in [PeerIds -> Option(Nat)]
        /\ a.hints \in [PeerIds -> Option(ReceivedHint)]
    BY DEF Accumulators
  <2>3. b.received = r /\ (b.hints = a.hints \/ b.hints = h)
    BY <1>2 DEF TookIn
  <2> HIDE DEF e, hint, b
  <2>4. /\ r[e.peer_id] = e.last_seen
        /\ \A k \in PeerIds \ {e.peer_id} : r[k] \in {None, a.received[k]}
    BY <2>1, <2>2, PutKeeps
  <2>5. /\ h[e.peer_id] = hint
        /\ \A k \in PeerIds \ {e.peer_id} : h[k] \in {None, a.hints[k]}
    BY <2>1, <2>2, PutKeeps
  <2> HIDE DEF r, h
  <2>6. ASSUME NEW id \in PeerIds, b.received[id] # None PROVE b.received[id] <= t
    <3>1. CASE id = e.peer_id
      BY <1>2, <2>3, <2>4, <3>1
    <3>2. CASE id # e.peer_id
      <4>1. b.received[id] = a.received[id]
        BY <2>3, <2>4, <2>6, <3>2
      <4> QED
        BY <2>6, <4>1 DEF Past
    <3> QED
      BY <3>1, <3>2
  <2>7. ASSUME NEW id \in PeerIds, b.hints[id] # None PROVE b.hints[id].last_seen <= t
    <3>1. CASE id = e.peer_id /\ b.hints = h
      BY <1>2, <2>1, <2>5, <3>1
    <3>2. CASE id # e.peer_id \/ b.hints = a.hints
      <4>1. b.hints[id] = a.hints[id]
        BY <2>3, <2>5, <2>7, <3>2
      <4> QED
        BY <2>7, <4>1 DEF Past
    <3> QED
      BY <2>3, <3>1, <3>2
  <2> QED
    BY <2>6, <2>7 DEF Past, b
<1> QED
  BY <1>1, <1>2, Turn

(* A map of third parties with room for all of them evicts none. *)
LEMMA NoneEvicted ==
  ASSUME NEW m \in [PeerIds -> Option(Nat)], Keys(m) \subseteq Peers,
         Cardinality(Peers) <= PEX_MAX_RECEIVED_PER_LINK, NEW id \in Peers
  PROVE  MakeRoom(m, m, id, PEX_MAX_RECEIVED_PER_LINK) = m
<1> SUFFICES ASSUME m[id] = None, Cardinality(Keys(m)) >= PEX_MAX_RECEIVED_PER_LINK PROVE FALSE
  BY DEF MakeRoom
<1>1. IsFiniteSet(Peers) /\ Cardinality(Peers) \in Nat /\ Cardinality(Keys(m)) \in Nat
  BY EntryAssumption, FS_CardinalityType, KeysFinite
<1>2. Keys(m) # Peers
  BY DEF Keys
<1>3. Cardinality(Keys(m)) < Cardinality(Peers)
  BY <1>1, <1>2, FS_Subset
<1> QED
  BY <1>1, <1>3, StateAssumption

LEMMA TurnAgree ==
  ASSUME NEW peer \in Partners, NEW t \in Nat, NEW a \in Accumulators, NEW entry \in Entry,
         Agree(a.received, a.hints, peer)
  PROVE  LET b == IngestEntry(a, entry, peer, t) IN Agree(b.received, b.hints, peer)
<1> DEFINE b == IngestEntry(a, entry, peer, t)
           e == clamped(entry, t)
           hint == [source |-> peer, last_seen |-> e.last_seen]
           r == Put(a.received, a.received, e.peer_id, e.last_seen, PEX_MAX_RECEIVED_PER_LINK)
           h == Put(a.hints, HintAges(a.hints), e.peer_id, hint, PEX_MAX_HINTS)
<1>1. CASE b = a
  BY <1>1
<1>2. CASE e \in Entry /\ e.peer_id \in Peers /\ TookIn(a, b, e, peer)
  <2>1. /\ e.peer_id \in PeerIds /\ e.last_seen \in Nat /\ e.last_seen # None
        /\ hint.last_seen = e.last_seen
    BY <1>2, NoneAssumption DEF Entry
  <2>2. /\ a.received \in [PeerIds -> Option(Nat)]
        /\ a.hints \in [PeerIds -> Option(ReceivedHint)]
    BY DEF Accumulators
  <2>3. /\ b.received = r
        /\ \/ b.hints = h
           \/ /\ b.hints = a.hints /\ a.hints[e.peer_id] # None
              /\ e.last_seen <= a.hints[e.peer_id].last_seen
    BY <1>2 DEF TookIn
  <2> HIDE DEF e, hint, b
  <2>4. /\ DOMAIN r = PeerIds /\ r[e.peer_id] = e.last_seen
        /\ \A k \in PeerIds \ {e.peer_id} : r[k] \in {None, a.received[k]}
    BY <2>1, <2>2, PutKeeps
  <2>5. /\ h[e.peer_id] = hint
        /\ \A k \in PeerIds \ {e.peer_id} : h[k] \in {None, a.hints[k]}
    BY <2>1, <2>2, PutKeeps
  <2>6. Cardinality(Peers) <= PEX_MAX_RECEIVED_PER_LINK =>
            \A k \in PeerIds \ {e.peer_id} : r[k] = a.received[k]
    BY <1>2, <2>2, NoneEvicted DEF Agree, Put
  <2> HIDE DEF r, h
  <2>7. Keys(b.received) \subseteq Peers
    BY <1>2, <2>2, <2>3, <2>4 DEF Agree, Keys
  <2>8. ASSUME NEW id \in PeerIds, b.hints[id] # None, b.hints[id].source = peer
        PROVE  /\ b.received[id] # None => b.hints[id].last_seen >= b.received[id]
               /\ Cardinality(Peers) <= PEX_MAX_RECEIVED_PER_LINK => b.received[id] # None
    <3>1. CASE id = e.peer_id
      <4>1. b.received[id] = e.last_seen /\ b.received[id] # None
        BY <3>1, <2>1, <2>3, <2>4
      <4>2. b.hints[id].last_seen >= e.last_seen
        <5>1. CASE b.hints = h
          BY <3>1, <5>1, <2>1, <2>5
        <5>2. CASE b.hints # h
          <6>1. a.hints[id].last_seen \in Nat
            BY <3>1, <5>2, <2>2, <2>3 DEF Option, ReceivedHint
          <6> QED
            BY <3>1, <5>2, <6>1, <2>1, <2>3
        <5> QED
          BY <5>1, <5>2
      <4> QED
        BY <4>1, <4>2
    <3>2. CASE id # e.peer_id
      <4>1. b.hints[id] = a.hints[id]
        BY <2>3, <2>5, <2>8, <3>2
      <4>2. /\ a.received[id] # None => a.hints[id].last_seen >= a.received[id]
            /\ Cardinality(Peers) <= PEX_MAX_RECEIVED_PER_LINK => a.received[id] # None
        BY <2>8, <4>1 DEF Agree
      <4>3. b.received[id] \in {None, a.received[id]}
        BY <2>3, <2>4, <3>2
      <4>4. Cardinality(Peers) <= PEX_MAX_RECEIVED_PER_LINK => b.received[id] = a.received[id]
        BY <2>3, <2>6, <3>2
      <4> QED
        BY <4>1, <4>2, <4>3, <4>4
    <3> QED
      BY <3>1, <3>2
  <2>9. Agree(b.received, b.hints, peer)
    BY <2>7, <2>8 DEF Agree
  <2> QED
    BY <2>9 DEF b
<1> QED
  BY <1>1, <1>2, Turn

-----------------------------------------------------------------------------
(* What the whole loop keeps, and the withdrawals after it.                  *)

LEMMA LoopKeeps ==
  ASSUME Inv, NEW p \in Partners, NEW entries \in Seq(Entry),
         Bounded(Held(p), hints), Agree(Held(p), hints, p)
  PROVE  LET acc == ingest_added(Held(p), p, entries, NowSecs)
         IN  /\ acc \in FedBy(p)
             /\ Bounded(acc.received, acc.hints)
             /\ Agree(acc.received, acc.hints, p)
<1> DEFINE S == {a \in FedBy(p) : Bounded(a.received, a.hints) /\ Agree(a.received, a.hints, p)}
           start == [received |-> Held(p), hints |-> hints, candidates |-> <<>>]
<1>1. start \in S
  <2>1. start \in FedBy(p)
    BY HeldType DEF Inv, TypeOK, FedBy, Accumulators
  <2> QED
    BY <2>1
<1>2. ASSUME NEW a \in S, NEW e \in Entry PROVE IngestEntry(a, e, p, NowSecs) \in S
  <2>1. NowSecs \in Nat /\ a \in Accumulators
    BY NowSecsType DEF Inv, FedBy
  <2> QED
    BY <2>1, IngestEntryFed, TurnBounded, TurnAgree
<1> HIDE DEF S
<1>3. ingest_added(Held(p), p, entries, NowSecs) \in S
  BY <1>1, <1>2, IngestInduction, Zenon
<1> QED
  BY <1>3 DEF S

LEMMA LoopStaysPast ==
  ASSUME Inv, NEW p \in Partners, NEW entries \in Seq(Entry),
         Past(Held(p), hints, NowSecs)
  PROVE  LET acc == ingest_added(Held(p), p, entries, NowSecs)
         IN  acc \in FedBy(p) /\ Past(acc.received, acc.hints, NowSecs)
<1> DEFINE S == {a \in FedBy(p) : Past(a.received, a.hints, NowSecs)}
           start == [received |-> Held(p), hints |-> hints, candidates |-> <<>>]
<1>1. start \in S
  <2>1. start \in FedBy(p)
    BY HeldType DEF Inv, TypeOK, FedBy, Accumulators
  <2> QED
    BY <2>1
<1>2. ASSUME NEW a \in S, NEW e \in Entry PROVE IngestEntry(a, e, p, NowSecs) \in S
  <2>1. NowSecs \in Nat /\ a \in Accumulators
    BY NowSecsType DEF Inv, FedBy
  <2> QED
    BY <2>1, IngestEntryFed, TurnPast
<1> HIDE DEF S
<1>3. ingest_added(Held(p), p, entries, NowSecs) \in S
  BY <1>1, <1>2, IngestInduction, Zenon
<1> QED
  BY <1>3 DEF S

LEMMA RemoveBounded ==
  ASSUME NEW V, NEW m \in [PeerIds -> V], NEW S, NEW max \in Nat, Cardinality(Keys(m)) <= max
  PROVE  Cardinality(Keys(Remove(m, S))) <= max
<1>1. Remove(m, S) \in [PeerIds -> V \cup {None}] /\ Keys(Remove(m, S)) \subseteq Keys(m)
  BY DEF Remove, Keys
<1>2. IsFiniteSet(Keys(m)) /\ Cardinality(Keys(m)) \in Nat /\ Cardinality(Keys(Remove(m, S))) \in Nat
  BY <1>1, KeysFinite
<1>3. Cardinality(Keys(Remove(m, S))) <= Cardinality(Keys(m))
  BY <1>1, <1>2, FS_Subset
<1> QED
  BY <1>2, <1>3

LEMMA EmptyKeys == Keys(Empty(PeerIds)) = {} /\ Cardinality(Keys(Empty(PeerIds))) = 0
BY FS_EmptySet DEF Keys, Empty

-----------------------------------------------------------------------------
(* The invariant over all links.                                             *)

HoldingsInv ==
    \A p \in Partners : Bounded(Held(p), hints) /\ Agree(Held(p), hints, p)

(* A step that leaves p alone and takes hints away, or gives hints of another
   source, keeps what is said about p. *)
LEMMA OthersKeep ==
  ASSUME NEW q \in Partners, Agree(Held(q), hints, q), Held(q)' = Held(q),
         \A id \in PeerIds : hints'[id] # None /\ hints'[id].source = q => hints'[id] = hints[id]
  PROVE  Agree(Held(q)', hints', q)
BY DEF Agree

LEMMA SameHoldings ==
  ASSUME HoldingsInv, SameHeld
  PROVE  HoldingsInv'
BY DEF HoldingsInv, SameHeld, Bounded, Agree

LEMMA FreedHoldings ==
  ASSUME Inv, HoldingsInv, NEW p \in Partners, Freed(p)
  PROVE  HoldingsInv'
<1>1. \A id \in PeerIds : hints'[id] # None => hints'[id] = hints[id] /\ hints[id].source # p
  BY DEF Freed, HintsNotFrom, Remove, Keys, Inv, TypeOK
<1>2. Cardinality(Keys(hints')) <= PEX_MAX_HINTS
  BY RemoveBounded, StateAssumption DEF Freed, HintsNotFrom, HoldingsInv, Bounded, Inv, TypeOK
<1> SUFFICES ASSUME NEW q \in Partners
             PROVE  Bounded(Held(q)', hints') /\ Agree(Held(q)', hints', q)
  BY DEF HoldingsInv
<1>3. CASE q = p
  <2>1. Bounded(Held(q)', hints')
    BY <1>2, <1>3, EmptyKeys, StateAssumption DEF Freed, Bounded
  <2>2. Agree(Held(q)', hints', q)
    BY <1>1, <1>3, EmptyKeys DEF Freed, Agree
  <2> QED
    BY <2>1, <2>2
<1>4. CASE q # p
  <2>1. Held(q)' = Held(q)
    BY <1>4 DEF Freed, OthersHeld
  <2> QED
    BY <1>1, <1>2, <2>1, OthersKeep DEF HoldingsInv, Bounded
<1> QED
  BY <1>3, <1>4

LEMMA FedHoldings ==
  ASSUME Inv, HoldingsInv, NEW p \in Partners, Fed(p)
  PROVE  HoldingsInv'
<1>1. PICK entries \in Seq(Entry), dropped \in SUBSET PeerIds : FedWith(p, entries, dropped)
  BY DEF Fed
<1> DEFINE acc == ingest_added(Held(p), p, entries, NowSecs)
           ids == Keys(acc.received) \cap dropped
<1>2. acc \in FedBy(p) /\ Bounded(acc.received, acc.hints) /\ Agree(acc.received, acc.hints, p)
  BY LoopKeeps DEF HoldingsInv
<1>3. /\ Held(p)' = Remove(acc.received, ids)
      /\ hints' = Remove(acc.hints, Unlisted(acc.hints, p, ids))
      /\ \A q \in Partners \ {p} : Held(q)' = Held(q)
  BY <1>1 DEF FedWith, OthersHeld
<1>4. ids \subseteq Keys(acc.received)
  OBVIOUS
<1> HIDE DEF acc, ids
<1>5. /\ acc.received \in [PeerIds -> Option(Nat)]
      /\ acc.hints \in [PeerIds -> Option(ReceivedHint)]
      /\ \A id \in PeerIds : acc.hints[id] # None =>
            acc.hints[id].source = p \/ acc.hints[id] = hints[id]
  BY <1>2 DEF FedBy, Accumulators
<1>6. \A id \in PeerIds : hints'[id] # None =>
          hints'[id] = acc.hints[id] /\ ~(id \in ids /\ hints'[id].source = p)
  BY <1>3, <1>5 DEF Remove, Unlisted, Keys
<1>7. Cardinality(Keys(hints')) <= PEX_MAX_HINTS
  BY <1>2, <1>3, <1>5, RemoveBounded, StateAssumption DEF Bounded
<1> SUFFICES ASSUME NEW q \in Partners
             PROVE  Bounded(Held(q)', hints') /\ Agree(Held(q)', hints', q)
  BY DEF HoldingsInv
<1>8. CASE q = p
  <2>1. Cardinality(Keys(Held(p)')) <= PEX_MAX_RECEIVED_PER_LINK
    BY <1>2, <1>3, <1>5, RemoveBounded, StateAssumption DEF Bounded
  <2>2. \A id \in PeerIds : Held(p)'[id] = IF id \in ids THEN None ELSE acc.received[id]
    BY <1>3, <1>5 DEF Remove
  <2>3. Keys(Held(p)') \subseteq Peers
    BY <1>2, <1>3, <1>5 DEF Agree, Remove, Keys
  <2>4. Agree(Held(p)', hints', p)
    BY <1>2, <1>6, <2>2, <2>3 DEF Agree
  <2> QED
    BY <1>7, <1>8, <2>1, <2>4 DEF Bounded
<1>9. CASE q # p
  <2>1. Held(q)' = Held(q)
    BY <1>3, <1>9
  <2>2. \A id \in PeerIds : hints'[id] # None /\ hints'[id].source = q => hints'[id] = hints[id]
    BY <1>5, <1>6, <1>9
  <2> QED
    BY <1>7, <2>1, <2>2, OthersKeep DEF HoldingsInv, Bounded
<1> QED
  BY <1>8, <1>9

LEMMA HoldingsInit == Init => HoldingsInv
<1> SUFFICES ASSUME Init, NEW p \in Partners
             PROVE  Bounded(Held(p), hints) /\ Agree(Held(p), hints, p)
  BY DEF HoldingsInv
<1>1. Held(p) = Empty(PeerIds) /\ hints = Empty(PeerIds)
  BY DEF Init, Held, Link, NewLink, Empty
<1> QED
  BY <1>1, EmptyKeys, StateAssumption DEF Bounded, Agree, Empty

LEMMA HoldingsNext == Inv /\ HoldingsInv /\ [Next]_vars => HoldingsInv'
BY NextHolds, SameHoldings, FreedHoldings, FedHoldings DEF HoldStep

THEOREM Holdings == Spec => [](Inv /\ HoldingsInv)
<1> QED
  BY InitInv, NextInv, HoldingsInit, HoldingsNext, PTL DEF Spec

(* The accumulators never exceed their caps, whatever is ingested in whatever
   order: the eviction of engine.rs:561 and 574 makes room in time. *)
THEOREM CapsKept == Spec => []AccumulatorsBounded
<1>1. Inv /\ HoldingsInv => AccumulatorsBounded
  <2> SUFFICES ASSUME Inv, HoldingsInv PROVE AccumulatorsBounded
    OBVIOUS
  <2>1. \A p \in Keys(links) : p \in Partners /\ Held(p) = links[p].received
    BY DEF Keys, Held, Link, Inv, TypeOK
  <2>2. Cardinality(Keys(hints)) <= PEX_MAX_HINTS
    <3>1. CASE Keys(hints) = {}
      BY <3>1, FS_EmptySet, StateAssumption
    <3>2. CASE Keys(hints) # {}
      <4>1. Keys(links) # {}
        BY <3>2 DEF Inv, HintsHaveLiveSource
      <4> QED
        BY <2>1, <4>1 DEF HoldingsInv, Bounded
    <3> QED
      BY <3>1, <3>2
  <2> QED
    BY <2>1, <2>2 DEF HoldingsInv, Bounded, AccumulatorsBounded
<1> QED
  BY <1>1, Holdings, PTL

(* A hint is at least as fresh as what its source holds, through duplicates,
   withdrawals, evictions and the entries of other links: each turn of the loop
   of ingest_added writes the received entry first (engine.rs:563), and the
   hint is then its own or a fresher one of the same source. *)
THEOREM HintsCoverSources == Spec => []HintCoversItsSource
<1>1. Inv /\ HoldingsInv => HintCoversItsSource
  <2> SUFFICES ASSUME Inv, HoldingsInv, NEW id \in Keys(hints),
                      id \in Keys(links[hints[id].source].received)
               PROVE  hints[id].last_seen >= links[hints[id].source].received[id]
    BY DEF HintCoversItsSource
  <2> DEFINE p == hints[id].source
  <2>1. id \in PeerIds /\ hints[id] # None /\ p \in Partners
        /\ Held(p) = links[p].received /\ Held(p)[id] # None
    BY HintMeansStreaming DEF Inv, TypeOK, HintsHaveLiveSource, Keys, Held, Link
  <2> QED
    BY <2>1 DEF HoldingsInv, Agree
<1> QED
  BY <1>1, Holdings, PTL

(* Where no received map can be full, every hint can be withdrawn: the link it
   came from still holds its id. *)
THEOREM HintsVouchedFor == Spec => []HintIsVouchedFor
<1>1. Inv /\ HoldingsInv => HintIsVouchedFor
  <2> SUFFICES ASSUME Inv, HoldingsInv, NEW id \in Keys(hints),
                      Cardinality(Peers) <= PEX_MAX_RECEIVED_PER_LINK
               PROVE  id \in Keys(links[hints[id].source].received)
    BY DEF HintIsVouchedFor
  <2> DEFINE p == hints[id].source
  <2>1. id \in PeerIds /\ hints[id] # None /\ p \in Partners
        /\ Held(p) = links[p].received
    BY HintMeansStreaming DEF Inv, TypeOK, HintsHaveLiveSource, Keys, Held, Link
  <2>2. Held(p)[id] # None /\ Held(p) \in [PeerIds -> Option(Nat)]
    BY <2>1, HeldType DEF HoldingsInv, Agree
  <2> QED
    BY <2>1, <2>2 DEF Keys
<1> QED
  BY <1>1, Holdings, PTL

-----------------------------------------------------------------------------
(* A clock that does not step back.                                          *)

PastInv == \A p \in Partners : Past(Held(p), hints, NowSecs)

LEMMA SecsMonotone ==
  ASSUME NEW m \in Nat, NEW n \in Nat, m <= n
  PROVE  /\ m \div 1000 \in Nat /\ n \div 1000 \in Nat
         /\ m \div 1000 <= n \div 1000
OBVIOUS

LEMMA TimeAdvances ==
  ASSUME Inv, [Next]_vars, ClockSteps \subseteq Nat
  PROVE  NowSecs \in Nat /\ NowSecs' \in Nat /\ NowSecs <= NowSecs'
<1>1. now \in Nat /\ now' \in Nat
  BY NextInv DEF Inv, TypeOK
<1>2. now' >= now
  <2>1. ASSUME NEW d \in ClockSteps, ClockMoves(d) PROVE now' >= now
    BY <1>1, <2>1 DEF ClockMoves
  <2>2. CASE now' = now
    BY <1>1, <2>2
  <2> QED
    BY <2>1, <2>2, Zenon
       DEF Next, vars, upsert_known, remove_known, link_up, link_down, on_message,
           record_violation, tick, InboundUnchanged, OutboundUnchanged
<1>3. /\ now \div 1000 \in Nat /\ now' \div 1000 \in Nat
      /\ now \div 1000 <= now' \div 1000
  <2> DEFINE n == now'
  <2>1. n \in Nat /\ now <= n
    BY <1>1, <1>2
  <2> HIDE DEF n
  <2>2. /\ now \div 1000 \in Nat /\ n \div 1000 \in Nat
        /\ now \div 1000 <= n \div 1000
    BY <1>1, <2>1, SecsMonotone
  <2> QED
    BY <2>2 DEF n
<1> QED
  BY <1>3 DEF NowSecs

LEMMA PastNext ==
  ASSUME Inv, PastInv, [Next]_vars, ClockSteps \subseteq Nat
  PROVE  PastInv'
<1>1. NowSecs \in Nat /\ NowSecs' \in Nat /\ NowSecs <= NowSecs'
  BY TimeAdvances
<1>2. \A q \in Partners, id \in PeerIds :
          /\ Held(q)[id] # None => Held(q)[id] \in Nat /\ Held(q)[id] <= NowSecs'
          /\ hints[id] # None => hints[id].last_seen \in Nat /\ hints[id].last_seen <= NowSecs'
  BY <1>1, HeldType DEF PastInv, Past, Option, ReceivedHint, Inv, TypeOK
<1> SUFFICES ASSUME NEW q \in Partners PROVE Past(Held(q)', hints', NowSecs')
  BY DEF PastInv
<1>3. CASE SameHeld
  BY <1>2, <1>3 DEF SameHeld, Past
<1>4. ASSUME NEW p \in Partners, Freed(p) PROVE Past(Held(q)', hints', NowSecs')
  <2>1. \A id \in PeerIds : hints'[id] \in {None, hints[id]}
    BY <1>4 DEF Freed, HintsNotFrom, Remove, Inv, TypeOK
  <2>2. \A id \in PeerIds : Held(q)'[id] \in {None, Held(q)[id]}
    BY <1>4 DEF Freed, OthersHeld, Empty
  <2> QED
    BY <1>2, <2>1, <2>2 DEF Past
<1>5. ASSUME NEW p \in Partners, NEW entries \in Seq(Entry), NEW dropped \in SUBSET PeerIds,
             FedWith(p, entries, dropped)
      PROVE  Past(Held(q)', hints', NowSecs')
  <2> DEFINE acc == ingest_added(Held(p), p, entries, NowSecs)
             ids == Keys(acc.received) \cap dropped
  <2>1. acc \in FedBy(p) /\ Past(acc.received, acc.hints, NowSecs)
    BY LoopStaysPast DEF PastInv
  <2>2. /\ Held(p)' = Remove(acc.received, ids)
        /\ hints' = Remove(acc.hints, Unlisted(acc.hints, p, ids))
        /\ q # p => Held(q)' = Held(q)
    BY <1>5 DEF FedWith, OthersHeld
  <2> HIDE DEF acc, ids
  <2>3. NowSecs' = NowSecs
    BY <1>5 DEF FedWith, NowSecs
  <2>4. /\ \A id \in PeerIds : Held(p)'[id] \in {None, acc.received[id]}
        /\ \A id \in PeerIds : hints'[id] \in {None, acc.hints[id]}
    BY <2>1, <2>2 DEF Remove, FedBy, Accumulators
  <2>5. CASE q = p
    BY <2>1, <2>3, <2>4, <2>5 DEF Past
  <2>6. CASE q # p
    BY <1>2, <2>1, <2>2, <2>3, <2>4, <2>6 DEF Past
  <2> QED
    BY <2>5, <2>6
<1> QED
  BY <1>3, <1>4, <1>5, NextHolds, Zenon DEF HoldStep, Fed

(* If the clock does not step back, no partner can pin a hint or a received
   entry with a last_seen in the future: every entry is clamped (entry.rs:286)
   before either map sees it. *)
THEOREM FutureRefused ==
  ASSUME ClockSteps \subseteq Nat
  PROVE  Spec => []NothingFromTheFuture
<1>1. Init => PastInv
  <2> SUFFICES ASSUME Init, NEW p \in Partners PROVE Past(Held(p), hints, NowSecs)
    BY DEF PastInv
  <2> QED
    BY DEF Init, Held, Link, NewLink, Empty, Past
<1>2. Inv /\ PastInv /\ [Next]_vars => PastInv'
  BY PastNext
<1>3. Inv /\ PastInv => NothingFromTheFuture
  <2> SUFFICES ASSUME Inv, PastInv PROVE NothingFromTheFuture
    OBVIOUS
  <2>1. \A p \in Keys(links) : p \in Partners /\ Held(p) = links[p].received
                               /\ Keys(Held(p)) \subseteq PeerIds
    BY HeldType DEF Keys, Held, Link, Inv, TypeOK
  <2>2. \A id \in Keys(hints) : id \in PeerIds /\ hints[id].source \in Partners
    BY DEF Keys, Inv, TypeOK, HintsHaveLiveSource
  <2>3. \A id \in Keys(hints) : hints[id].last_seen <= NowSecs
    BY <2>2 DEF PastInv, Past, Keys
  <2>4. \A p \in Keys(links) : \A id \in Keys(links[p].received) :
            links[p].received[id] <= NowSecs
    BY <2>1 DEF PastInv, Past, Keys
  <2> QED
    BY <2>3, <2>4 DEF NothingFromTheFuture
<1> QED
  BY <1>1, <1>2, <1>3, Invariance, PTL DEF Spec

-----------------------------------------------------------------------------
(* What is news.                                                           *)

(* x is the hint y or a fresher one. *)
Beats(x, y) == x = y \/ x.last_seen > y.last_seen

News(c) == hints[c.peer_id] = None \/ c.last_seen > hints[c.peer_id].last_seen

(* No hint had to make room for the candidates of accumulator a. *)
Roomy(a) == Cardinality(Keys(hints)) + Len(a.candidates) <= PEX_MAX_HINTS

(* What the loop has done to the hints by the time it is at a: there is at most
   one more for each candidate; with room for all of them no hint was lost or
   set back, and every candidate beats what was held; and only the ids of the
   message have other hints than before. *)
NewsBy(a, peer, ids) ==
    /\ Cardinality(Keys(a.hints)) <= Cardinality(Keys(hints)) + Len(a.candidates)
    /\ \A i \in 1..Len(a.candidates) : a.candidates[i].peer_id \in Peers \ {peer}
    /\ \A id \in PeerIds \ ids : a.hints[id] \in {None, hints[id]}
    /\ Roomy(a) =>
          /\ \A id \in PeerIds :
                hints[id] # None => a.hints[id] # None /\ Beats(a.hints[id], hints[id])
          /\ \A i \in 1..Len(a.candidates) : News(a.candidates[i])

-----------------------------------------------------------------------------
(* One turn.                                                                 *)

LEMMA NewsTurn ==
  ASSUME NEW peer \in Partners, NEW t \in Nat, NEW a \in Accumulators, NEW entry \in Entry
  PROVE  LET b == IngestEntry(a, entry, peer, t)
             e == clamped(entry, t)
         IN  \/ b.hints = a.hints /\ b.candidates = a.candidates
             \/ /\ e \in Entry /\ e.peer_id \in Peers \ {peer} /\ e.peer_id = entry.peer_id
                /\ Fresher(e, a.hints)
                /\ b.hints = Put(a.hints, HintAges(a.hints), e.peer_id,
                                 [source |-> peer, last_seen |-> e.last_seen], PEX_MAX_HINTS)
                /\ b.candidates = Append(a.candidates, e)
<1> DEFINE e == clamped(entry, t)
           b == IngestEntry(a, entry, peer, t)
<1>1. e \in Entry /\ e.peer_id = entry.peer_id /\ e.peer_id \in PeerIds
  BY ClampedType DEF Entry
<1>2. CASE ~validate(entry, peer, t)
  BY <1>2 DEF IngestEntry
<1>3. CASE validate(entry, peer, t) /\ Fresher(e, a.hints)
  <2>1. e.peer_id \in Peers \ {peer}
    BY <1>1, <1>3 DEF validate, PeerIds
  <2> DEFINE h == Put(a.hints, HintAges(a.hints), e.peer_id,
                      [source |-> peer, last_seen |-> e.last_seen], PEX_MAX_HINTS)
             r == Put(a.received, a.received, e.peer_id, e.last_seen, PEX_MAX_RECEIVED_PER_LINK)
  <2>2. b = [received |-> r, hints |-> h, candidates |-> Append(a.candidates, e)]
    BY <1>3 DEF IngestEntry, Put
  <2> HIDE DEF h, r, e, b
  <2>3. b.hints = h /\ b.candidates = Append(a.candidates, e)
    BY <2>2
  <2> QED
    BY <1>1, <1>3, <2>1, <2>3 DEF h, e, b
<1>4. CASE validate(entry, peer, t) /\ ~Fresher(e, a.hints)
  <2> DEFINE r == Put(a.received, a.received, e.peer_id, e.last_seen, PEX_MAX_RECEIVED_PER_LINK)
  <2>1. b = [a EXCEPT !.received = r]
    BY <1>4 DEF IngestEntry, Put
  <2> HIDE DEF r, b
  <2>2. b.hints = a.hints /\ b.candidates = a.candidates
    BY <2>1 DEF Accumulators
  <2> QED
    BY <2>2 DEF b
<1> QED
  BY <1>2, <1>3, <1>4

(* An insertion adds one key at most. *)
LEMMA PutAddsOne ==
  ASSUME NEW V, NEW m \in [PeerIds -> Option(V)], NEW ages, NEW id \in PeerIds, NEW v, NEW max
  PROVE  Cardinality(Keys(Put(m, ages, id, v, max))) <= Cardinality(Keys(m)) + 1
<1> DEFINE n == Put(m, ages, id, v, max)
<1> SUFFICES Cardinality(Keys(n)) <= Cardinality(Keys(m)) + 1
  OBVIOUS
<1>1. DOMAIN n = PeerIds /\ \A k \in PeerIds \ {id} : n[k] \in {None, m[k]}
  BY PutKeeps
<1> HIDE DEF n
<1>2. Keys(n) \subseteq Keys(m) \cup {id}
  BY <1>1 DEF Keys
<1>3. /\ IsFiniteSet(Keys(m) \cup {id}) /\ Cardinality(Keys(m)) \in Nat
      /\ Cardinality(Keys(m) \cup {id}) \in Nat
      /\ Cardinality(Keys(m) \cup {id}) <= Cardinality(Keys(m)) + 1
  BY KeysFinite, OneMore
<1>4. /\ Cardinality(Keys(n)) \in Nat
      /\ Cardinality(Keys(n)) <= Cardinality(Keys(m) \cup {id})
  BY <1>2, <1>3, FS_Subset, FS_CardinalityType
<1> QED
  BY <1>3, <1>4

LEMMA TurnNews ==
  ASSUME Inv, NEW peer \in Partners, NEW t \in Nat, NEW a \in Accumulators,
         NEW ids, NEW entry \in Entry, entry.peer_id \in ids,
         NewsBy(a, peer, ids)
  PROVE  NewsBy(IngestEntry(a, entry, peer, t), peer, ids)
<1> DEFINE b == IngestEntry(a, entry, peer, t)
           e == clamped(entry, t)
           hint == [source |-> peer, last_seen |-> e.last_seen]
           h == Put(a.hints, HintAges(a.hints), e.peer_id, hint, PEX_MAX_HINTS)
<1>1. CASE b.hints = a.hints /\ b.candidates = a.candidates
  <2> HIDE DEF b
  <2>1. NewsBy(b, peer, ids)
    BY <1>1 DEF NewsBy, Roomy
  <2> QED
    BY <2>1 DEF b
<1>2. CASE /\ e \in Entry /\ e.peer_id \in Peers \ {peer} /\ e.peer_id = entry.peer_id
           /\ Fresher(e, a.hints)
           /\ b.hints = h /\ b.candidates = Append(a.candidates, e)
  <2>1. /\ hint.last_seen = e.last_seen /\ e.last_seen \in Nat
        /\ e.peer_id \in PeerIds /\ e.peer_id \in ids
    BY <1>2 DEF Entry
  <2>2. /\ a.hints \in [PeerIds -> Option(ReceivedHint)] /\ a.candidates \in Seq(Entry)
        /\ hints \in [PeerIds -> Option(ReceivedHint)]
    BY DEF Accumulators, Inv, TypeOK
  <2>3. hint # None
    <3>1. hint \in ReceivedHint
      BY <2>1, StateAssumption DEF ReceivedHint
    <3> HIDE DEF hint
    <3> QED
      BY <3>1, OptionAssumption
  <2> HIDE DEF b, e, hint
  <2>4. /\ Len(b.candidates) = Len(a.candidates) + 1 /\ Len(a.candidates) \in Nat
        /\ b.candidates[Len(a.candidates) + 1] = e
        /\ \A i \in 1..Len(a.candidates) : b.candidates[i] = a.candidates[i]
    BY <1>2, <2>2
  <2>5. /\ h[e.peer_id] = hint
        /\ \A k \in PeerIds \ {e.peer_id} : h[k] \in {None, a.hints[k]}
    BY <2>1, <2>2, PutKeeps
  <2>6. /\ Cardinality(Keys(a.hints)) \in Nat /\ Cardinality(Keys(h)) \in Nat
        /\ Cardinality(Keys(hints)) \in Nat
        /\ Cardinality(Keys(h)) <= Cardinality(Keys(a.hints)) + 1
    <3>1. Cardinality(Keys(h)) <= Cardinality(Keys(a.hints)) + 1
      BY <2>1, <2>2, PutAddsOne
    <3>2. Cardinality(Keys(a.hints)) \in Nat /\ Cardinality(Keys(hints)) \in Nat
      BY <2>2, KeysFinite
    <3>3. h \in [PeerIds -> {h[k] : k \in PeerIds}]
      BY <2>2 DEF Put, MakeRoom, Remove
    <3>4. Cardinality(Keys(h)) \in Nat
      BY <3>3, KeysFinite
    <3> QED
      BY <3>1, <3>2, <3>4
  <2>7. Cardinality(Keys(b.hints)) <= Cardinality(Keys(hints)) + Len(b.candidates)
    <3>1. Cardinality(Keys(a.hints)) <= Cardinality(Keys(hints)) + Len(a.candidates)
      BY DEF NewsBy
    <3> HIDE DEF h
    <3> QED
      BY <1>2, <2>4, <2>6, <3>1
  <2>8. \A i \in 1..Len(b.candidates) : b.candidates[i].peer_id \in Peers \ {peer}
    BY <1>2, <2>4 DEF NewsBy
  <2>9. \A id \in PeerIds \ ids : b.hints[id] \in {None, hints[id]}
    <3> HIDE DEF h
    <3> QED
      BY <1>2, <2>1, <2>5 DEF NewsBy
  <2>10. ASSUME Roomy(b)
         PROVE  /\ \A id \in PeerIds :
                      hints[id] # None => b.hints[id] # None /\ Beats(b.hints[id], hints[id])
                /\ \A i \in 1..Len(b.candidates) : News(b.candidates[i])
    <3>1. Roomy(a) /\ ~(Cardinality(Keys(a.hints)) >= PEX_MAX_HINTS)
      <4>1. Cardinality(Keys(a.hints)) <= Cardinality(Keys(hints)) + Len(a.candidates)
        BY DEF NewsBy
      <4>2. Cardinality(Keys(hints)) + Len(a.candidates) + 1 <= PEX_MAX_HINTS
        BY <2>4, <2>6, <2>10 DEF Roomy
      <4> HIDE DEF h
      <4> QED
        BY <2>4, <2>6, <4>1, <4>2, StateAssumption DEF Roomy
    <3>2. h = [a.hints EXCEPT ![e.peer_id] = hint]
      BY <3>1 DEF Put, MakeRoom
    <3>3. \A k \in PeerIds \ {e.peer_id} : h[k] = a.hints[k]
      BY <3>2, <2>2
    <3> HIDE DEF h
    <3>4. News(e)
      <4>1. CASE hints[e.peer_id] = None
        BY <4>1 DEF News
      <4>2. CASE hints[e.peer_id] # None
        <5>1. a.hints[e.peer_id] # None /\ Beats(a.hints[e.peer_id], hints[e.peer_id])
          BY <2>1, <3>1, <4>2 DEF NewsBy
        <5>2. e.last_seen > a.hints[e.peer_id].last_seen
          BY <1>2, <5>1 DEF Fresher
        <5>3. a.hints[e.peer_id].last_seen \in Nat /\ hints[e.peer_id].last_seen \in Nat
          BY <2>1, <2>2, <4>2, <5>1 DEF Option, ReceivedHint
        <5>4. e.last_seen > hints[e.peer_id].last_seen
          BY <2>1, <5>1, <5>2, <5>3 DEF Beats
        <5> QED
          BY <5>4 DEF News
      <4> QED
        BY <4>1, <4>2
    <3>5. ASSUME NEW id \in PeerIds, hints[id] # None
          PROVE  b.hints[id] # None /\ Beats(b.hints[id], hints[id])
      <4>1. CASE id = e.peer_id
        BY <1>2, <2>1, <2>3, <2>5, <3>4, <3>5, <4>1 DEF News, Beats
      <4>2. CASE id # e.peer_id
        <5>1. b.hints[id] = a.hints[id]
          BY <1>2, <3>3, <4>2
        <5> QED
          BY <3>1, <3>5, <5>1 DEF NewsBy
      <4> QED
        BY <4>1, <4>2
    <3>6. ASSUME NEW i \in 1..Len(b.candidates) PROVE News(b.candidates[i])
      <4>1. CASE i = Len(a.candidates) + 1
        BY <2>4, <3>4, <4>1
      <4>2. CASE i # Len(a.candidates) + 1
        <5>1. i \in 1..Len(a.candidates) /\ b.candidates[i] = a.candidates[i]
          BY <2>4, <4>2
        <5> QED
          BY <3>1, <5>1 DEF NewsBy
      <4> QED
        BY <4>1, <4>2
    <3> QED
      BY <3>5, <3>6
  <2>11. NewsBy(b, peer, ids)
    BY <2>7, <2>8, <2>9, <2>10 DEF NewsBy
  <2> QED
    BY <2>11 DEF b
<1> QED
  BY <1>1, <1>2, NewsTurn

-----------------------------------------------------------------------------
(* The loop.                                                                 *)

LEMMA LoopNews ==
  ASSUME Inv, NEW p \in Partners, NEW entries \in Seq(Entry)
  PROVE  LET acc == ingest_added(Held(p), p, entries, NowSecs)
         IN  /\ acc \in FedBy(p)
             /\ NewsBy(acc, p, {entries[i].peer_id : i \in 1..Len(entries)})
<1> DEFINE ids == {entries[i].peer_id : i \in 1..Len(entries)}
           S == {a \in FedBy(p) : NewsBy(a, p, ids)}
           start == [received |-> Held(p), hints |-> hints, candidates |-> <<>>]
<1>1. start \in S
  <2>1. start \in FedBy(p)
    BY HeldType DEF Inv, TypeOK, FedBy, Accumulators
  <2>2. Cardinality(Keys(hints)) \in Nat
    BY KeysFinite DEF Inv, TypeOK
  <2>3. NewsBy(start, p, ids)
    BY <2>2 DEF NewsBy, Beats, Roomy
  <2> QED
    BY <2>1, <2>3
<1>2. ASSUME NEW a \in S, NEW i \in 1..Len(entries)
      PROVE  IngestEntry(a, entries[i], p, NowSecs) \in S
  <2>1. NowSecs \in Nat /\ a \in Accumulators /\ entries[i] \in Entry
    BY NowSecsType DEF Inv, FedBy
  <2>2. entries[i].peer_id \in ids
    OBVIOUS
  <2> HIDE DEF ids
  <2>3. NewsBy(IngestEntry(a, entries[i], p, NowSecs), p, ids)
    BY <2>1, <2>2, TurnNews
  <2>4. IngestEntry(a, entries[i], p, NowSecs) \in FedBy(p)
    BY <2>1, IngestEntryFed
  <2> QED
    BY <2>3, <2>4
<1> HIDE DEF S
<1>3. ingest_added(Held(p), p, entries, NowSecs) \in S
  BY <1>1, <1>2, IngestInductionOn, Zenon
<1> QED
  BY <1>3 DEF S

-----------------------------------------------------------------------------
(* Only a message that is taken in surfaces candidates.                      *)

LEMMA StrikeIsSilent ==
  ASSUME NEW p, NEW code, strike(p, code) \/ mute_mismatch(p, code)
  PROVE  out'.candidates = <<>>
BY DEF strike, mute_mismatch, Quiet

LEMMA MessageSurfaces ==
  ASSUME Inv, NEW p \in Partners, NEW m \in Inbox, on_message(p, m)
  PROVE  out'.candidates = <<>> \/ Fed(p)
<1>1. m \in Message /\ now' = now
  BY InboundAssumption DEF on_message, OutboundUnchanged
<1>2. CASE OnMuted(p)
  BY <1>2 DEF OnMuted, Quiet
<1>3. CASE on_pex_error(p, m)
  BY <1>3 DEF on_pex_error, Quiet
<1>4. CASE on_handshake(p, m)
  <2>1. CASE \E code : strike(p, code) \/ mute_mismatch(p, code)
    BY <2>1, StrikeIsSilent
  <2>2. CASE out' = Quiet
    BY <2>2 DEF Quiet
  <2> QED
    BY <1>4, <2>1, <2>2, Zenon DEF on_handshake
<1>5. CASE m.type = "pex_snapshot" /\ on_snapshot(p, m)
  BY <1>1, <1>5, SnapshotFeeds, StrikeIsSilent
<1>6. CASE m.type = "pex_delta" /\ on_delta(p, m)
  BY <1>1, <1>6, DeltaFeeds, StrikeIsSilent
<1> QED
  BY <1>2, <1>3, <1>4, <1>5, <1>6, Zenon DEF on_message

LEMMA NextSurfaces ==
  ASSUME Inv, Next
  PROVE  out'.candidates = <<>> \/ \E p \in Partners : Fed(p)
<1>1. ASSUME NEW d \in ClockSteps, ClockMoves(d) PROVE out'.candidates = <<>>
  BY <1>1 DEF ClockMoves, Quiet
<1>2. CASE \E e \in FirstHand : upsert_known(e) \/ remove_known(e.peer_id)
  BY <1>2 DEF upsert_known, remove_known, Quiet
<1>3. ASSUME NEW p, link_up(p) PROVE out'.candidates = <<>>
  <2>1. PICK x : out' = [Quiet EXCEPT !.peer = p, !.sent = x]
    BY <1>3 DEF link_up
  <2> QED
    BY <2>1 DEF Quiet
<1>4. ASSUME NEW p, link_down(p) PROVE out'.candidates = <<>>
  BY <1>4 DEF link_down, Quiet
<1>5. ASSUME NEW p \in Partners, NEW m \in Inbox, on_message(p, m)
      PROVE  out'.candidates = <<>> \/ \E q \in Partners : Fed(q)
  BY <1>5, MessageSurfaces
<1>6. ASSUME NEW p \in Partners, NEW code \in Reported, record_violation(p, code)
      PROVE  out'.candidates = <<>>
  BY <1>6, StrikeIsSilent DEF record_violation
<1>7. ASSUME tick PROVE out'.candidates = <<>>
  <2>1. PICK x : out' = [Quiet EXCEPT !.sent = x]
    BY <1>7 DEF tick
  <2> QED
    BY <2>1 DEF Quiet
<1> QED
  BY <1>1, <1>2, <1>3, <1>4, <1>5, <1>6, <1>7, Zenon DEF Next

-----------------------------------------------------------------------------
(* The theorems.                                                             *)

LEMMA NewsNext ==
  ASSUME Inv, Next, NEW i \in DOMAIN out'.candidates
  PROVE  LET c == out'.candidates[i] IN
         /\ c.peer_id \notin {LocalPeerId, out'.peer}
         /\ \/ c.peer_id \notin Keys(hints)
            \/ c.last_seen > hints[c.peer_id].last_seen
            \/ Cardinality(Keys(hints)) + Len(out'.candidates) > PEX_MAX_HINTS
<1>1. PICK p \in Partners : Fed(p)
  BY NextSurfaces
<1>2. PICK entries \in Seq(Entry), dropped \in SUBSET PeerIds : FedWith(p, entries, dropped)
  BY <1>1 DEF Fed
<1> DEFINE acc == ingest_added(Held(p), p, entries, NowSecs)
           ids == {entries[j].peer_id : j \in 1..Len(entries)}
<1>3. acc \in FedBy(p) /\ NewsBy(acc, p, ids)
  BY LoopNews
<1>4. out'.peer = p /\ out'.candidates = acc.candidates
  BY <1>2 DEF FedWith
<1> HIDE DEF acc, ids
<1>5. acc.candidates \in Seq(Entry)
  BY <1>3 DEF FedBy, Accumulators
<1>6. i \in 1..Len(acc.candidates)
  BY <1>4, <1>5
<1>7. acc.candidates[i].peer_id \in Peers \ {p}
  BY <1>3, <1>6 DEF NewsBy
<1>8. Roomy(acc) => News(acc.candidates[i])
  BY <1>3, <1>6 DEF NewsBy
<1>9. Cardinality(Keys(hints)) \in Nat /\ Len(acc.candidates) \in Nat
  <2>1. hints \in [PeerIds -> Option(ReceivedHint)]
    BY DEF Inv, TypeOK
  <2>2. Cardinality(Keys(hints)) \in Nat
    BY <2>1, KeysFinite
  <2>3. Len(acc.candidates) \in Nat
    BY <1>5
  <2> QED
    BY <2>2, <2>3
<1>10. ~Roomy(acc) => Cardinality(Keys(hints)) + Len(acc.candidates) > PEX_MAX_HINTS
  BY <1>9, StateAssumption DEF Roomy
<1> QED
  BY <1>4, <1>7, <1>8, <1>10, EntryAssumption DEF News, Keys

(* What surfaces as a candidate beats the hint that was held before the call,
   for every message and any duplicates in it, unless hints had to make room
   (engine.rs:566); and it is a third party. *)
THEOREM CandidatesNew == Spec => CandidatesAreNews
<1>1. Inv /\ [Next]_vars =>
        [\A i \in DOMAIN out'.candidates :
          LET c == out'.candidates[i] IN
          /\ c.peer_id \notin {LocalPeerId, out'.peer}
          /\ \/ c.peer_id \notin Keys(hints)
             \/ c.last_seen > hints[c.peer_id].last_seen
             \/ Cardinality(Keys(hints)) + Len(out'.candidates) > PEX_MAX_HINTS]_vars
  BY NewsNext
<1> QED
  BY <1>1, Invariance, PTL DEF Spec, CandidatesAreNews

LEMMA BeatenNext ==
  ASSUME Inv, Next, NEW id \in Keys(hints), NEW s, s = hints[id].source,
         s \in Keys(links'), id \in Keys(links'[s].received),
         Cardinality(Keys(hints)) + Len(out'.candidates) <= PEX_MAX_HINTS
  PROVE  /\ id \in Keys(hints')
         /\ hints'[id].last_seen > hints[id].last_seen \/ hints'[id] = hints[id]
<1>1. /\ id \in PeerIds /\ hints[id] # None /\ hints' \in [PeerIds -> Option(ReceivedHint)]
      /\ s \in Partners
  BY NextInv DEF Keys, Inv, TypeOK, HintsHaveLiveSource
<1>2. Held(s)'[id] # None
  BY DEF Held, Link, Keys
<1>3. CASE SameHeld
  BY <1>1, <1>3 DEF SameHeld
<1>4. ASSUME NEW p \in Partners, Freed(p)
      PROVE  id \in Keys(hints') /\ hints'[id] = hints[id]
  <2>1. s # p
    BY <1>1, <1>2, <1>4 DEF Freed, Empty
  <2> QED
    BY <1>1, <1>4, <2>1 DEF Freed, HintsNotFrom, Remove, Keys, Inv, TypeOK
<1>5. ASSUME NEW p \in Partners, NEW entries \in Seq(Entry), NEW dropped \in SUBSET PeerIds,
             FedWith(p, entries, dropped)
      PROVE  /\ id \in Keys(hints')
             /\ hints'[id].last_seen > hints[id].last_seen \/ hints'[id] = hints[id]
  <2> DEFINE acc == ingest_added(Held(p), p, entries, NowSecs)
             ids == {entries[j].peer_id : j \in 1..Len(entries)}
             gone == Keys(acc.received) \cap dropped
  <2>1. acc \in FedBy(p) /\ NewsBy(acc, p, ids)
    BY LoopNews
  <2>2. /\ Held(p)' = Remove(acc.received, gone)
        /\ hints' = Remove(acc.hints, Unlisted(acc.hints, p, gone))
        /\ out'.candidates = acc.candidates
        /\ gone \cap ids = {}
    BY <1>5 DEF FedWith
  <2> HIDE DEF acc, ids, gone
  <2>3. acc.hints[id] # None /\ Beats(acc.hints[id], hints[id])
    BY <1>1, <2>1, <2>2 DEF NewsBy, Roomy
  <2>4. acc.hints \in [PeerIds -> Option(ReceivedHint)] /\ acc.received \in [PeerIds -> Option(Nat)]
    BY <2>1 DEF FedBy, Accumulators
  <2>5. id \notin Unlisted(acc.hints, p, gone)
    <3> SUFFICES ASSUME id \in gone, acc.hints[id].source = p PROVE FALSE
      BY DEF Unlisted
    <3>1. acc.hints[id] = hints[id]
      BY <1>1, <2>1, <2>2, <2>3 DEF NewsBy
    <3>2. s = p
      BY <3>1
    <3> QED
      BY <1>1, <1>2, <2>2, <2>4, <3>2 DEF Remove
  <2>6. hints'[id] = acc.hints[id]
    BY <1>1, <2>2, <2>4, <2>5 DEF Remove
  <2> QED
    BY <1>1, <2>3, <2>6 DEF Beats, Keys
<1> QED
  BY <1>3, <1>4, <1>5, NextHolds, Zenon DEF HoldStep, Fed

(* A hint whose source still vouches for it is only replaced by a fresher one:
   what other links say, withdraw or suffer does not lose it or set it back,
   for any links and messages, unless hints had to make room.  A message that
   beats a hint and withdraws it at once would; on_delta refuses it
   (engine.rs:522). *)
THEOREM OnlyBeaten == Spec => HintsOnlyBeaten
<1>1. Inv /\ [Next]_vars =>
        [\A id \in Keys(hints) :
          LET s == hints[id].source IN
          /\ s \in Keys(links')
          /\ id \in Keys(links'[s].received)
          /\ Cardinality(Keys(hints)) + Len(out'.candidates) <= PEX_MAX_HINTS
          => /\ id \in Keys(hints')
             /\ \/ hints'[id].last_seen > hints[id].last_seen
                \/ hints'[id] = hints[id]]_vars
  <2> SUFFICES ASSUME Inv, Next, NEW id \in Keys(hints),
                      hints[id].source \in Keys(links'),
                      id \in Keys(links'[hints[id].source].received),
                      Cardinality(Keys(hints)) + Len(out'.candidates) <= PEX_MAX_HINTS
               PROVE  /\ id \in Keys(hints')
                      /\ hints'[id].last_seen > hints[id].last_seen \/ hints'[id] = hints[id]
    OBVIOUS
  <2> QED
    BY BeatenNext
<1> QED
  BY <1>1, Invariance, PTL DEF Spec, HintsOnlyBeaten
===============================================================================
