------------------------------ MODULE PexInbound ------------------------------
(***************************************************************************)
(* The receiving direction of the engine: on_message with its four         *)
(* handlers, the two accumulators it fills, strikes and mutes, and         *)
(* record_violation, by which a transport reports what it saw itself.      *)
(***************************************************************************)
EXTENDS PexState

CONSTANTS
    Inbox,                \* the messages that may arrive
    MaxStrikes,           \* bound: no transport violation is reported beyond it
    PEX_MAX_SNAPSHOT,
    PEX_MAX_ADDED,
    PEX_MAX_DROPPED

Message ==
    [type : {"pex_handshake"}, version : Nat, network_id : STRING, interval : Nat]
    \cup [type : {"pex_snapshot"}, peers : Seq(Entry)]
    \cup [type : {"pex_delta"}, added : Seq(Entry), dropped : Seq(PeerIds)]
    \cup [type : {"pex_error"}, code : Nat]

ASSUME InboundAssumption ==
    /\ Inbox \subseteq Message
    /\ PEX_MAX_SNAPSHOT \in Nat
    /\ PEX_MAX_ADDED \in Nat
    /\ PEX_MAX_DROPPED \in Nat

OutboundUnchanged == UNCHANGED <<now, known, known_epoch, advertisable_cache>>

-----------------------------------------------------------------------------
(* Strikes and mutes.  Every way to mute frees what the link accumulated.    *)

(* strike: the link after one more strike, and the mute flag it reports. *)
StrikeMutes(link) == link.strikes + 1 >= PEX_VIOLATION_LIMIT

(* Mutant of struck: the mute does not free the received ids. *)
struck_keeping(link) ==
    [link EXCEPT !.strikes = @ + 1, !.muted = @ \/ StrikeMutes(link)]

struck(link) ==
    [link EXCEPT !.strikes  = @ + 1,
                 !.muted    = @ \/ StrikeMutes(link),
                 !.received = IF StrikeMutes(link) THEN Empty(PeerIds) ELSE @]

(* Mutant of strike: the mute does not unlist the link as a source. *)
strike_keeping(peer, code) ==
    /\ links' = [links EXCEPT ![peer] = struck(Link(peer))]
    /\ out' = [Quiet EXCEPT !.peer = peer, !.reply = code,
                   !.violation = [code |-> code, mute |-> StrikeMutes(Link(peer))]]
    /\ UNCHANGED hints

strike(peer, code) ==
    /\ links' = [links EXCEPT ![peer] = struck(Link(peer))]
    /\ hints' = IF StrikeMutes(Link(peer)) THEN HintsNotFrom(peer) ELSE hints
    /\ out' = [Quiet EXCEPT !.peer = peer, !.reply = code,
                   !.violation = [code |-> code, mute |-> StrikeMutes(Link(peer))]]

(* mute_mismatch: an immediate mute that is not a strike. *)
mute_mismatch(peer, code) ==
    /\ links' = [links EXCEPT ![peer] =
                    [Link(peer) EXCEPT !.muted = TRUE, !.received = Empty(PeerIds)]]
    /\ hints' = HintsNotFrom(peer)
    /\ out' = [Quiet EXCEPT !.peer = peer, !.reply = code,
                   !.violation = [code |-> code, mute |-> TRUE]]

-----------------------------------------------------------------------------
(* The accumulators.                                                         *)

(* evict_oldest: the key with the least last_seen, the least such key. *)
Oldest(ages) ==
    CHOOSE k \in Keys(ages) : \A j \in Keys(ages) :
        ages[k] < ages[j] \/ (ages[k] = ages[j] /\ k <= j)

(* Mutant of MakeRoom: the eviction comes one entry late. *)
MakeRoom_late(map, ages, id, max) ==
    IF map[id] = None /\ Cardinality(Keys(map)) > max
    THEN Remove(map, {Oldest(ages)})
    ELSE map

(* Make room for id in a map of capacity max whose entries have these ages. *)
MakeRoom(map, ages, id, max) ==
    IF map[id] = None /\ Cardinality(Keys(map)) >= max
    THEN Remove(map, {Oldest(ages)})
    ELSE map

HintAges(h) == [id \in DOMAIN h |-> IF h[id] = None THEN None ELSE h[id].last_seen]

(* Mutants of Fresher: a hint is never updated; a duplicate surfaces again. *)
Fresher_first(e, h) == h[e.peer_id] = None
Fresher_equal(e, h) == h[e.peer_id] = None \/ e.last_seen >= h[e.peer_id].last_seen

(* The newest last_seen wins. *)
Fresher(e, h) == h[e.peer_id] = None \/ e.last_seen > h[e.peer_id].last_seen

(* One turn of the loop of ingest_added.  acc holds the link's received map,
   the engine's hints, and the candidates found so far. *)
IngestEntry(acc, entry, peer, now_secs) ==
    LET e        == clamped(entry, now_secs)
        roomy    == MakeRoom(acc.received, acc.received, e.peer_id, PEX_MAX_RECEIVED_PER_LINK)
        received == [roomy EXCEPT ![e.peer_id] = e.last_seen]
        fresher  == Fresher(e, acc.hints)
        hintsRoomy == MakeRoom(acc.hints, HintAges(acc.hints), e.peer_id, PEX_MAX_HINTS)
        hint       == [source |-> peer, last_seen |-> e.last_seen]
    IN  IF ~validate(entry, peer, now_secs)
        THEN acc
        ELSE IF fresher
        THEN [ received   |-> received,
               hints      |-> [hintsRoomy EXCEPT ![e.peer_id] = hint],
               candidates |-> Append(acc.candidates, e) ]
        ELSE [acc EXCEPT !.received = received]

(* The whole loop, over the entries in the order of the message. *)
ingest_added(received, peer, entries, now_secs) ==
    LET acc[i \in 0..Len(entries)] ==
            IF i = 0
            THEN [received |-> received, hints |-> hints, candidates |-> <<>>]
            ELSE IngestEntry(acc[i - 1], entries[i], peer, now_secs)
    IN  acc[Len(entries)]

(* ingest_dropped: only ids this link told us count, and only a hint that
   this link sourced is removed. *)
Attributed(received, dropped) == Keys(received) \cap {dropped[i] : i \in DOMAIN dropped}

(* Mutant of Unlisted: a withdrawal removes whatever hint there is. *)
Unlisted_any(h, peer, ids) == ids \cap Keys(h)

(* Mutant of Unlisted: a withdrawal is noted and the hint stays. *)
Unlisted_none(h, peer, ids) == {}

Unlisted(h, peer, ids) == {id \in ids \cap Keys(h) : h[id].source = peer}

-----------------------------------------------------------------------------
(* on_message.                                                               *)

(* A muted direction: the message is ignored. *)
OnMuted(peer) ==
    /\ Link(peer).muted
    /\ out' = Quiet
    /\ UNCHANGED <<links, hints>>

(* Mutant of on_handshake: a repeated handshake starts the link over. *)
on_handshake_restarts(peer, m) ==
    /\ m.version = PEX_VERSION
    /\ links' = [links EXCEPT ![peer] = [Link(peer) EXCEPT !.phase = "AwaitingSnapshot"]]
    /\ out' = Quiet
    /\ UNCHANGED hints

on_handshake(peer, m) ==
    \/ /\ Link(peer).phase # "AwaitingHandshake"
       /\ strike(peer, ProtocolViolation)
    \/ /\ Link(peer).phase = "AwaitingHandshake"
       /\ m.version # PEX_VERSION
       /\ mute_mismatch(peer, UnsupportedVersion)
    \/ /\ Link(peer).phase = "AwaitingHandshake"
       /\ m.version = PEX_VERSION
       /\ m.network_id # NetworkId
       /\ mute_mismatch(peer, NetworkMismatch)
    \/ /\ Link(peer).phase = "AwaitingHandshake"
       /\ m.version = PEX_VERSION
       /\ m.network_id = NetworkId
       /\ links' = [links EXCEPT ![peer] =
                       [Link(peer) EXCEPT !.remote_declared_secs = clamp_interval(m.interval),
                                          !.phase = "AwaitingSnapshot"]]
       /\ out' = Quiet
       /\ UNCHANGED hints

on_snapshot(peer, m) ==
    \/ /\ Link(peer).phase # "AwaitingSnapshot"
       /\ strike(peer, ProtocolViolation)
    \/ /\ Link(peer).phase = "AwaitingSnapshot"
       /\ Len(m.peers) > PEX_MAX_SNAPSHOT
       /\ strike(peer, Oversized)
    \/ /\ Link(peer).phase = "AwaitingSnapshot"
       /\ Len(m.peers) <= PEX_MAX_SNAPSHOT
       /\ LET acc == ingest_added(Link(peer).received, peer, m.peers, NowSecs)
          IN  /\ links' = [links EXCEPT ![peer] =
                              [Link(peer) EXCEPT !.phase = "Streaming",
                                                 !.last_arrival_ms = now,
                                                 !.received = acc.received]]
              /\ hints' = acc.hints
              /\ out' = [Quiet EXCEPT !.peer = peer, !.candidates = acc.candidates]

(* Mutant of TooSoon: the floor is the interval itself, without the grace. *)
TooSoon_graceless(link) ==
    /\ link.last_arrival_ms # None
    /\ link.remote_declared_secs # None
    /\ saturating_sub(now, link.last_arrival_ms) < link.remote_declared_secs * 1000

(* The rate floor of on_delta: since the last accepted data message. *)
TooSoon(link) ==
    /\ link.last_arrival_ms # None
    /\ saturating_sub(now, link.last_arrival_ms)
           < arrival_floor_ms(IF link.remote_declared_secs = None THEN 0
                              ELSE link.remote_declared_secs)

OverCaps(m) == Len(m.added) > PEX_MAX_ADDED \/ Len(m.dropped) > PEX_MAX_DROPPED

Overlapping(m) ==
    \E i \in DOMAIN m.added, j \in DOMAIN m.dropped : m.added[i].peer_id = m.dropped[j]

on_delta(peer, m) ==
    \/ /\ Link(peer).phase # "Streaming"
       /\ strike(peer, ProtocolViolation)
    \/ /\ Link(peer).phase = "Streaming"
       /\ TooSoon(Link(peer))
       /\ strike(peer, RateViolation)
    \/ /\ Link(peer).phase = "Streaming"
       /\ ~TooSoon(Link(peer))
       /\ OverCaps(m)
       /\ strike(peer, Oversized)
    \/ /\ Link(peer).phase = "Streaming"
       /\ ~TooSoon(Link(peer)) /\ ~OverCaps(m)
       /\ Overlapping(m)
       /\ strike(peer, BadMessage)
    \/ /\ Link(peer).phase = "Streaming"
       /\ ~TooSoon(Link(peer)) /\ ~OverCaps(m) /\ ~Overlapping(m)
       /\ LET acc == ingest_added(Link(peer).received, peer, m.added, NowSecs)
              ids == Attributed(acc.received, m.dropped)
          IN  /\ links' = [links EXCEPT ![peer] =
                              [Link(peer) EXCEPT !.last_arrival_ms = now,
                                                 !.received = Remove(acc.received, ids)]]
              /\ hints' = Remove(acc.hints, Unlisted(acc.hints, peer, ids))
              /\ out' = [Quiet EXCEPT !.peer = peer, !.candidates = acc.candidates,
                                      !.attributed = ids]

(* Mutant of Plausible: any send in the past will do. *)
Plausible_ever(link) == link.last_data_send_ms # None

(* A send of ours can have caused the error. *)
Plausible(link) ==
    /\ link.last_data_send_ms # None
    /\ saturating_sub(now, link.last_data_send_ms) < arrival_floor_ms(link.self_interval_secs)

(* The last back-off is less than an interval ago. *)
RateLimited(link) ==
    /\ link.last_backoff_applied_ms # None
    /\ saturating_sub(now, link.last_backoff_applied_ms) < link.self_interval_secs * 1000

(* Mutant of BackedOff: the error is noted and the interval kept. *)
BackedOff_same(link) == [link EXCEPT !.last_backoff_applied_ms = now]

BackedOff(link) ==
    [link EXCEPT !.self_interval_secs =
                     clamp_interval(Smaller(2 * @, PEX_MAX_INTERVAL)),
                 !.last_backoff_applied_ms = now]

(* A code-3 pex_error doubles our interval on the link if a send of ours can
   have caused it, and at most once per interval; any other code is ignored. *)
Honored(link, code) == code = RateViolation /\ Plausible(link) /\ ~RateLimited(link)

on_pex_error(peer, m) ==
    /\ links' = [links EXCEPT ![peer] =
                    IF Honored(Link(peer), m.code) THEN BackedOff(Link(peer)) ELSE Link(peer)]
    /\ out' = Quiet
    /\ UNCHANGED hints

on_message(peer, m) ==
    /\ \/ OnMuted(peer)
       \/ /\ ~Link(peer).muted
          /\ \/ m.type = "pex_error" /\ on_pex_error(peer, m)
             \/ m.type = "pex_handshake" /\ on_handshake(peer, m)
             \/ m.type = "pex_snapshot" /\ on_snapshot(peer, m)
             \/ m.type = "pex_delta" /\ on_delta(peer, m)
    /\ OutboundUnchanged

(* A violation the transport saw: a strike, whether or not the link is muted. *)
record_violation(peer, code) ==
    /\ Link(peer).strikes < MaxStrikes
    /\ strike(peer, code)
    /\ OutboundUnchanged
===============================================================================
