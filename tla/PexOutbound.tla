----------------------------- MODULE PexOutbound ------------------------------
(***************************************************************************)
(* The sending direction of the engine: the first-hand set, the advertise  *)
(* list with its cache, link_up with its snapshot, and tick with its       *)
(* deltas.  A list the code sends in freshest-first order is the set of    *)
(* its entries: Before orders it.                                          *)
(***************************************************************************)
EXTENDS PexInbound, FiniteSetsExt

CONSTANTS
    FirstHand,          \* the entries the host may upsert
    MaxEpoch,           \* bound: mutations of the first-hand set
    PEX_MAX_FRAME,      \* caps.rs: 262144 bytes
    EnvelopeSize        \* the bytes of a message with empty lists

ASSUME OutboundAssumption ==
    /\ FirstHand \subseteq Entry
    /\ PEX_MAX_FRAME \in Nat
    /\ EnvelopeSize \in Nat /\ EnvelopeSize <= PEX_MAX_FRAME

InboundUnchanged == UNCHANGED <<now, hints>>

-----------------------------------------------------------------------------
(* The first-hand set.                                                       *)

(* Mutant of upsert_known: the engine itself is not refused. *)
upsert_known_self(entry) ==
    /\ known_epoch < MaxEpoch
    /\ known' = [known EXCEPT ![entry.peer_id] = entry]
    /\ known_epoch' = known_epoch + 1
    /\ out' = Quiet
    /\ UNCHANGED <<links, advertisable_cache>>
    /\ InboundUnchanged

upsert_known(entry) ==
    /\ known_epoch < MaxEpoch
    /\ IF entry.peer_id = LocalPeerId
       THEN UNCHANGED <<known, known_epoch>>
       ELSE /\ known' = [known EXCEPT ![entry.peer_id] = entry]
            /\ known_epoch' = known_epoch + 1
    /\ out' = Quiet
    /\ UNCHANGED <<links, advertisable_cache>>
    /\ InboundUnchanged

(* Mutant of remove_known: the cache is not invalidated. *)
remove_known_quietly(id) ==
    /\ known' = Remove(known, {id})
    /\ out' = Quiet
    /\ UNCHANGED <<links, known_epoch, advertisable_cache>>
    /\ InboundUnchanged

remove_known(id) ==
    /\ known_epoch < MaxEpoch
    /\ known' = Remove(known, {id})
    /\ known_epoch' = known_epoch + 1
    /\ out' = Quiet
    /\ UNCHANGED <<links, advertisable_cache>>
    /\ InboundUnchanged

-----------------------------------------------------------------------------
(* The advertise list.                                                       *)

(* advertisable_base: what may be advertised to anyone but its own subject. *)
advertisable_base ==
    {e \in {known[id] : id \in Keys(known)} :
        e.peer_id # LocalPeerId /\ ~Stale(e, NowSecs)}

(* Mutant of CacheHit: the list is reused in later seconds. *)
CacheHit_timeless == advertisable_cache # None /\ advertisable_cache.epoch = known_epoch

CacheHit ==
    /\ advertisable_cache # None
    /\ advertisable_cache.epoch = known_epoch
    /\ advertisable_cache.secs = NowSecs

(* advertisable_cached: the list, and the cache it leaves behind. *)
advertisable_cached == IF CacheHit THEN advertisable_cache.list ELSE advertisable_base

RefreshedCache == [epoch |-> known_epoch, secs |-> NowSecs, list |-> advertisable_cached]

advertisable_for(partner) == {e \in advertisable_cached : e.peer_id # partner}

-----------------------------------------------------------------------------
(* link_up.                                                                  *)

EncodedBytes(entries) == EnvelopeSize + MapThenSumSet(LAMBDA e : EncodedSize[e.content], entries)

(* Mutant of trim_to_frame_budget: the entry count is the only cap. *)
trim_to_frame_budget_not(S) == S

(* trim_to_frame_budget: drop the tail from the first entry that does not fit. *)
trim_to_frame_budget(S) ==
    {e \in S : EncodedBytes({x \in S : x = e \/ Before(x, e)}) <= PEX_MAX_FRAME}

Snapshot(peer) == trim_to_frame_budget(Freshest(advertisable_for(peer), PEX_MAX_SNAPSHOT))

(* told after entries were sent and ids were withdrawn. *)
Told(told, entries, ids) ==
    LET sent == {e.peer_id : e \in entries}
    IN  [id \in PeerIds |->
            IF id \in ids THEN None
            ELSE IF id \in sent
            THEN fingerprint_hash(CHOOSE e \in entries : e.peer_id = id)
            ELSE told[id]]

Handshake(peer) ==
    [to |-> peer, type |-> "pex_handshake", version |-> PEX_VERSION,
     network_id |-> NetworkId, interval |-> Interval]

(* Mutant of link_up: the tail trimmed off the snapshot counts as told. *)
link_up_whole(peer) ==
    /\ \E jitter \in jitter_ms(effective_interval_secs(Interval, Link(peer).remote_declared_secs)) :
           links' = [links EXCEPT ![peer] =
               [Link(peer) EXCEPT !.self_interval_secs = Interval,
                                  !.handshake_sent = TRUE,
                                  !.told = Told(@, Freshest(advertisable_for(peer), PEX_MAX_SNAPSHOT), {}),
                                  !.snapshot_sent = TRUE,
                                  !.last_data_send_ms = now,
                                  !.send_jitter_ms = jitter]]
    /\ advertisable_cache' = RefreshedCache
    /\ out' = [Quiet EXCEPT !.peer = peer,
                   !.sent = {Handshake(peer),
                             [to |-> peer, type |-> "pex_snapshot", peers |-> Snapshot(peer)]}]
    /\ UNCHANGED <<known, known_epoch>>
    /\ InboundUnchanged

link_up(peer) ==
    /\ \E jitter \in jitter_ms(effective_interval_secs(Interval, Link(peer).remote_declared_secs)) :
           links' = [links EXCEPT ![peer] =
               [Link(peer) EXCEPT !.self_interval_secs = Interval,
                                  !.handshake_sent = TRUE,
                                  !.told = Told(@, Snapshot(peer), {}),
                                  !.snapshot_sent = TRUE,
                                  !.last_data_send_ms = now,
                                  !.send_jitter_ms = jitter]]
    /\ advertisable_cache' = RefreshedCache
    /\ out' = [Quiet EXCEPT !.peer = peer,
                   !.sent = {Handshake(peer),
                             [to |-> peer, type |-> "pex_snapshot", peers |-> Snapshot(peer)]}]
    /\ UNCHANGED <<known, known_epoch>>
    /\ InboundUnchanged

(* Mutant of link_down: the hints the link sourced stay. *)
link_down_keeping(peer) ==
    /\ links' = Remove(links, {peer})
    /\ out' = Quiet
    /\ UNCHANGED <<now, hints, known, known_epoch, advertisable_cache>>

(* Mutant of link_down: the state of the link stays. *)
link_down_hints(peer) ==
    /\ hints' = HintsNotFrom(peer)
    /\ out' = Quiet
    /\ UNCHANGED <<now, links, known, known_epoch, advertisable_cache>>

(* link_down: everything about the link goes, and the hints it sourced. *)
link_down(peer) ==
    /\ links' = Remove(links, {peer})
    /\ hints' = HintsNotFrom(peer)
    /\ out' = Quiet
    /\ UNCHANGED <<now, known, known_epoch, advertisable_cache>>

-----------------------------------------------------------------------------
(* tick.                                                                     *)

(* Mutant of Effective: the partner's declared interval is not honored. *)
Effective_own(link) == clamp_interval(link.self_interval_secs)

Effective(link) == effective_interval_secs(link.self_interval_secs, link.remote_declared_secs)

Eligible(link) ==
    /\ link.snapshot_sent
    /\ now >= (IF link.last_data_send_ms = None THEN 0 ELSE link.last_data_send_ms)
                  + Effective(link) * 1000 + link.send_jitter_ms

(* Mutant of Changed: an update of a told entry is not noticed. *)
Changed_new(peer) == {e \in advertisable_for(peer) : links[peer].told[e.peer_id] = None}

(* build_delta.  The entries to add: not told yet, or told otherwise. *)
Changed(peer) ==
    {e \in advertisable_for(peer) :
        \/ links[peer].told[e.peer_id] = None
        \/ links[peer].told[e.peer_id] # fingerprint_hash(e)}

Added(peer) == Freshest(Changed(peer), PEX_MAX_ADDED)

(* The ids to drop: told, and no longer advertisable.  Beyond the cap, which
   of them are dropped now is up to the iteration order of a HashMap. *)
Gone(peer) == Keys(links[peer].told) \ {e.peer_id : e \in advertisable_for(peer)}

DroppedPicks(gone) ==
    {pick \in SUBSET gone :
        Cardinality(pick) = Smaller(PEX_MAX_DROPPED, Cardinality(gone))}

Due == {p \in Keys(links) : Eligible(links[p])}
Sending == {p \in Due : Added(p) # {} \/ \E pick \in DroppedPicks(Gone(p)) : pick # {}}

(* Mutant of AfterDelta: the send is not clocked. *)
AfterDelta_unclocked(peer, dropped, jitter) ==
    [links[peer] EXCEPT !.told = Told(@, Added(peer), dropped), !.send_jitter_ms = jitter]

(* Mutant of AfterDelta: ids beyond the cap are forgotten with those dropped. *)
AfterDelta_forgetful(peer, dropped, jitter) ==
    [links[peer] EXCEPT !.told = Told(@, Added(peer), Gone(peer)),
                        !.last_data_send_ms = now,
                        !.send_jitter_ms = jitter]

AfterDelta(peer, dropped, jitter) ==
    [links[peer] EXCEPT !.told = Told(@, Added(peer), dropped),
                        !.last_data_send_ms = now,
                        !.send_jitter_ms = jitter]

tick ==
    /\ \E dropped \in [Sending -> SUBSET PeerIds], jitter \in [Sending -> JitterSamples] :
          /\ \A p \in Sending : /\ dropped[p] \in DroppedPicks(Gone(p))
                                /\ jitter[p] \in jitter_ms(Effective(links[p]))
          /\ links' = [p \in Partners |->
                          IF p \in Sending THEN AfterDelta(p, dropped[p], jitter[p]) ELSE links[p]]
          /\ out' = [Quiet EXCEPT !.sent =
                        {[to |-> p, type |-> "pex_delta",
                          added |-> Added(p), dropped |-> dropped[p]] : p \in Sending}]
    /\ advertisable_cache' = IF Due = {} THEN advertisable_cache ELSE RefreshedCache
    /\ UNCHANGED <<known, known_epoch>>
    /\ InboundUnchanged
===============================================================================
