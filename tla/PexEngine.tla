------------------------------- MODULE PexEngine ------------------------------
(***************************************************************************)
(* The engine as its host drives it: every public call, in any order the   *)
(* host may make them, with the clock moving in between.                   *)
(***************************************************************************)
EXTENDS PexOutbound

CONSTANTS
    Speaking,     \* the partners the host calls link_up for
    Reported,     \* the violations the transport may report
    ClockSteps,   \* how far the clock may move between two calls, ms
    MaxTime,      \* bound: the last instant considered, ms
    RepeatLinkUp  \* whether the host may call link_up on a link that is up

ASSUME EngineAssumption ==
    /\ Speaking \subseteq Partners
    /\ Reported \subseteq TransportCodes
    /\ ClockSteps \subseteq Int
    /\ MaxTime \in Nat
    /\ RepeatLinkUp \in BOOLEAN

ClockMoves(d) ==
    /\ now + d \in 0..MaxTime
    /\ now' = now + d
    /\ out' = Quiet
    /\ UNCHANGED <<links, hints, known, known_epoch, advertisable_cache>>

MayLinkUp(p) == RepeatLinkUp \/ ~Link(p).snapshot_sent

Next ==
    \/ \E d \in ClockSteps : ClockMoves(d)
    \/ \E e \in FirstHand : upsert_known(e)
    \/ \E e \in FirstHand : remove_known(e.peer_id)
    \/ \E p \in Speaking : MayLinkUp(p) /\ link_up(p)
    \/ \E p \in Partners : link_down(p)
    \/ \E p \in Partners, m \in Inbox : on_message(p, m)
    \/ \E p \in Partners, code \in Reported : record_violation(p, code)
    \/ tick

Spec == Init /\ [][Next]_vars

(* The host calls tick about once a second (README of the crate), and time
   passes.  Nothing else is sure to happen. *)
Fairness == WF_vars(tick) /\ \A d \in ClockSteps : WF_vars(ClockMoves(d))

LiveSpec == Spec /\ Fairness

-----------------------------------------------------------------------------
(* Every variable has the type the code declares. *)
TypeOK ==
    /\ now \in Nat
    /\ links \in [Partners -> Option(LinkState)]
    /\ hints \in [PeerIds -> Option(ReceivedHint)]
    /\ known \in [PeerIds -> Option(Entry)]
    /\ \A id \in Keys(known) : id # LocalPeerId /\ known[id].peer_id = id
    /\ known_epoch \in Nat
    /\ advertisable_cache \in Option([epoch : Nat, secs : Nat, list : SUBSET Entry])

-----------------------------------------------------------------------------
(* What the receiver holds.                                                  *)

(* A hint never outlives the link that gave it: its source is a link the
   engine still has, past its snapshot, and not muted.  link_down and both
   ways to mute must all unlist the source (engine.rs:239, 649, 669). *)
HintsHaveLiveSource ==
    \A id \in Keys(hints) :
        /\ hints[id].source \in Keys(links)
        /\ links[hints[id].source].phase = "Streaming"
        /\ ~links[hints[id].source].muted

(* A muted link holds no received ids, and a link that used up its strikes
   is muted, however handlers, mutes and transport reports interleave. *)
MutedLinksHoldNothing ==
    \A p \in Keys(links) :
        /\ links[p].muted => Keys(links[p].received) = {}
        /\ links[p].strikes >= PEX_VIOLATION_LIMIT => links[p].muted

(* PEX-15: neither accumulator outgrows its cap, over any number of messages
   that each respect the per-message caps. *)
AccumulatorsBounded ==
    /\ Cardinality(Keys(hints)) <= PEX_MAX_HINTS
    /\ \A p \in Keys(links) :
           Cardinality(Keys(links[p].received)) <= PEX_MAX_RECEIVED_PER_LINK

(* While a hint's source still vouches for the id, the hint is at least as
   fresh as what that source said last, through duplicates, withdrawals,
   evictions and other links' competing entries. *)
HintCoversItsSource ==
    \A id \in Keys(hints) :
        LET received == links[hints[id].source].received
        IN  id \in Keys(received) => hints[id].last_seen >= received[id]

(* While no link outgrows its received map, a hint is always vouched for: the
   link it came from still holds the id and can withdraw it.  Once ids were
   evicted (engine.rs:561) this is lost: the drop of an evicted id is ignored
   and its hint stays until the link goes. *)
HintIsVouchedFor ==
    Cardinality(Peers) <= PEX_MAX_RECEIVED_PER_LINK =>
        \A id \in Keys(hints) : id \in Keys(links[hints[id].source].received)

(* No partner can pin a hint with a last_seen in the future (SPEC 3.3): as
   long as the clock does not step back, nothing held is from the future. *)
NothingFromTheFuture ==
    /\ \A id \in Keys(hints) : hints[id].last_seen <= NowSecs
    /\ \A p \in Keys(links) : \A id \in Keys(links[p].received) :
           links[p].received[id] <= NowSecs

(* The abstract gate, for the direction from partner p. *)
Gate(p) == INSTANCE PexGate WITH
    Limit   <- PEX_VIOLATION_LIMIT,
    Ids     <- PeerIds,
    gate    <- IF links[p] = None THEN "Closed"
               ELSE IF links[p].muted THEN "Muted"
               ELSE links[p].phase,
    strikes <- Link(p).strikes,
    heard   <- Keys(Link(p).received)

(* The handlers together implement the abstract gate on every link: no order
   of messages, reports and link churn opens a gate early, reopens a muted one
   or forgets its strikes before the link is down, or lets a muted one hear. *)
ImplementsGate ==
    /\ \A p \in Partners : Gate(p)!GateInit
    /\ [][\A p \in Partners : [Gate(p)!GateNext]_(Gate(p)!gateVars)]_vars

(* An entry surfaces as a candidate only if it beats the hint that was held
   (SPEC 9.2: no re-dialing of stale duplicates), unless hints had to be
   evicted to make room; and it is never the engine itself or the sender. *)
CandidatesAreNews ==
    [][\A i \in DOMAIN out'.candidates :
          LET c == out'.candidates[i] IN
          /\ c.peer_id \notin {LocalPeerId, out'.peer}
          /\ \/ c.peer_id \notin Keys(hints)
             \/ c.last_seen > hints[c.peer_id].last_seen
             \/ Cardinality(Keys(hints)) + Len(out'.candidates) > PEX_MAX_HINTS]_vars

(* A hint whose source still vouches for it is not lost or set back by what
   another link says, drops or suffers: only a fresher entry replaces it
   (SPEC 8.3), unless hints had to be evicted to make room. *)
HintsOnlyBeaten ==
    [][\A id \in Keys(hints) :
          LET s == hints[id].source IN
          /\ s \in Keys(links')
          /\ id \in Keys(links'[s].received)
          /\ Cardinality(Keys(hints)) + Len(out'.candidates) <= PEX_MAX_HINTS
          => /\ id \in Keys(hints')
             /\ \/ hints'[id].last_seen > hints[id].last_seen
                \/ hints'[id] = hints[id]]_vars

-----------------------------------------------------------------------------
(* What the sender tells.                                                    *)

(* A cache that would be used is right: its key changes with every mutation
   of the first-hand set and with every second (engine.rs:725). *)
CacheCoherent == CacheHit => advertisable_cache.list = advertisable_base

Deltas == {m \in out.sent : m.type = "pex_delta"}

(* The delta m, as against the state it is sent in. *)
Honest(m) ==
    LET told == links[m.to].told IN
    /\ m.added # {} \/ m.dropped # {}
    /\ m.dropped \subseteq Keys(told)
    /\ \A e \in m.added :
          /\ e.peer_id \notin m.dropped \cup {LocalPeerId, m.to}
          /\ e.peer_id \in Keys(known) /\ e = known[e.peer_id]
          /\ ~Stale(e, NowSecs)
          /\ e.peer_id \in Keys(told) => told[e.peer_id] # fingerprint_hash(e)
          /\ links'[m.to].told[e.peer_id] = fingerprint_hash(e)

(* PEX-07, PEX-08, PEX-11 and SPEC 4.4 of every delta: it says something, no
   id is both added and dropped, only told ids are dropped, and each added
   entry is new to the link, current, fresh, and about a third party
   (engine.rs:766-796 through the cache of 725). *)
DeltasAreHonest == [][\A m \in Deltas' : Honest(m)]_vars

(* The message m carries what the link now counts as told about id. *)
Carries(m, id) ==
    LET told == links'[m.to].told[id] IN
    CASE m.type = "pex_snapshot" ->
             \E e \in m.peers : e.peer_id = id /\ told = fingerprint_hash(e)
      [] m.type = "pex_delta" ->
             \/ \E e \in m.added : e.peer_id = id /\ told = fingerprint_hash(e)
             \/ told = None /\ id \in m.dropped
      [] OTHER -> FALSE

(* Nothing counts as told, or as withdrawn, that did not leave: the tail a
   snapshot had to leave out, an entry over PEX_MAX_ADDED and an id over
   PEX_MAX_DROPPED stay to be sent (engine.rs:213-228, 326-334).  A mark on
   one of them would hide it from the partner as long as the link is up. *)
ToldIsSent ==
    [][\A p \in Keys(links') : \A id \in PeerIds :
          links'[p].told[id] # Link(p).told[id] =>
              \E m \in out'.sent : m.to = p /\ Carries(m, id)]_vars

(* Senders cap their messages (PEX-04, SPEC 7.2), the snapshot by its bytes
   too. *)
SentWithinCaps ==
    \A m \in out.sent :
        /\ m.type = "pex_delta" =>
               /\ Cardinality(m.added) <= PEX_MAX_ADDED
               /\ Cardinality(m.dropped) <= PEX_MAX_DROPPED
        /\ m.type = "pex_snapshot" =>
               /\ Cardinality(m.peers) <= PEX_MAX_SNAPSHOT
               /\ EncodedBytes(m.peers) <= PEX_MAX_FRAME

(* The delta m leaves long enough after the last data message on its link. *)
Spaced(m) ==
    LET link == links[m.to] IN
    /\ link.last_data_send_ms # None
    /\ now - link.last_data_send_ms
           >= effective_interval_secs(Interval, link.remote_declared_secs) * 1000
    /\ now - link.last_data_send_ms > arrival_floor_ms(Interval)
    /\ links'[m.to].last_data_send_ms = now

(* PEX-06: after the snapshot, a delta never leaves sooner after the previous
   data message than the interval we declared, or the one the partner asked
   for, whatever back-offs did to the link in between.  So it never falls
   under the floor a conformant receiver enforces (engine.rs:315). *)
SendsAreSpaced == [][\A m \in Deltas' : Spaced(m)]_vars

(* This step backs off the link to p. *)
BackoffApplied(p) ==
    /\ p \in Keys(links) /\ p \in Keys(links')
    /\ links'[p].last_backoff_applied_ms # links[p].last_backoff_applied_ms

-----------------------------------------------------------------------------
(* Liveness.                                                                 *)

(* What partner p should have been told about id by now. *)
Wanted(p, id) ==
    IF known[id] # None /\ id # p /\ ~Stale(known[id], NowSecs)
    THEN fingerprint_hash(known[id])
    ELSE None

Pending(p, id) ==
    /\ p \in Keys(links)
    /\ links[p].snapshot_sent
    /\ links[p].told[id] # Wanted(p, id)

(* The longest a change can wait to be due: the longest interval and its jitter. *)
Horizon == PEX_MAX_INTERVAL * 1100

(* SPEC 6.1: a change on a link that was told its snapshot is told at a tick
   in the end, or is undone.  Only for changes early enough that the bounded
   clock of the model can still reach the tick. *)
ChangesAreTold ==
    \A p \in Partners : \A id \in Peers :
        (Pending(p, id) /\ now + Horizon <= MaxTime) ~> ~Pending(p, id)

-----------------------------------------------------------------------------
(* Statements of the documents that the code does not keep.                  *)

(* SPEC 9.2: for duplicates from different senders the newest last_seen wins
   as the current hint. *)
NewestHintWins ==
    \A p \in Keys(links) : \A id \in Keys(links[p].received) :
        id \in Keys(hints) => hints[id].last_seen >= links[p].received[id]

(* SPEC 6.4: a code 3 doubles the effective interval on the link, capped. *)
BackoffDoublesEffective ==
    [][\A p \in Partners :
          BackoffApplied(p) =>
              Effective(links'[p]) = Smaller(2 * Effective(links[p]), PEX_MAX_INTERVAL)]_vars
===============================================================================
