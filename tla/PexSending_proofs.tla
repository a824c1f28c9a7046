----------------------------- MODULE PexSending_proofs ------------------------
(***************************************************************************)
(* Proofs about when the engine sends, when it backs off, and what it      *)
(* tells, for every declared interval, first-hand set, clock and sequence  *)
(* of calls.                                                               *)
(***************************************************************************)
EXTENDS PexEngine_proofs, PexRatchet

(* How a call can change the sending side of a link from k to l. *)
SameSender(k, l) ==
    /\ l.snapshot_sent = k.snapshot_sent
    /\ l.last_data_send_ms = k.last_data_send_ms
    /\ l.self_interval_secs = k.self_interval_secs
    /\ l.last_backoff_applied_ms = k.last_backoff_applied_ms
    /\ l.told = k.told

SenderBackedOff(k, l) ==
    /\ Plausible(k) /\ ~RateLimited(k)
    /\ l.snapshot_sent = k.snapshot_sent
    /\ l.last_data_send_ms = k.last_data_send_ms
    /\ l.last_backoff_applied_ms = now
    /\ l.told = k.told
    /\ l.self_interval_secs = clamp_interval(Smaller(2 * k.self_interval_secs, PEX_MAX_INTERVAL))

SenderUp(k, l) ==
    /\ l.last_data_send_ms = now
    /\ l.self_interval_secs = Interval
    /\ l.last_backoff_applied_ms = k.last_backoff_applied_ms

SenderTold(k, l) ==
    /\ l.snapshot_sent = k.snapshot_sent
    /\ l.last_data_send_ms = now
    /\ l.self_interval_secs = k.self_interval_secs
    /\ l.last_backoff_applied_ms = k.last_backoff_applied_ms

SenderStep(k, l) ==
    SameSender(k, l) \/ SenderBackedOff(k, l) \/ SenderUp(k, l) \/ SenderTold(k, l)

SenderSteps == \A q \in Keys(links') : SenderStep(Link(q), links'[q])

(* A change in which nothing is sent. *)
QuietStep(k, l) == SameSender(k, l) \/ SenderBackedOff(k, l)

QuietSteps == \A q \in Keys(links') : QuietStep(Link(q), links'[q])

LEMMA QuietIsStep == QuietSteps => SenderSteps
BY DEF QuietSteps, QuietStep, SenderSteps, SenderStep

-----------------------------------------------------------------------------
(* Every call changes the sending side of every link in one of these ways.   *)

LEMMA OneLinkSteps ==
  ASSUME Inv, NEW p \in Partners, NEW l,
         links' = [links EXCEPT ![p] = l], SenderStep(Link(p), l)
  PROVE  SenderSteps
<1>1. \A q \in Keys(links') : q \in Partners /\ (q = p \/ links'[q] = Link(q))
  BY DEF Keys, Link, Inv, TypeOK
<1>2. links'[p] = l
  BY DEF Inv, TypeOK
<1>3. \A k : SameSender(k, k)
  BY DEF SameSender
<1> QED
  BY <1>1, <1>2, <1>3 DEF SenderSteps, SenderStep

LEMMA OneLinkQuiet ==
  ASSUME Inv, NEW p \in Partners, NEW l,
         links' = [links EXCEPT ![p] = l], QuietStep(Link(p), l)
  PROVE  QuietSteps
<1>1. \A q \in Keys(links') : q \in Partners /\ (q = p \/ links'[q] = Link(q))
  BY DEF Keys, Link, Inv, TypeOK
<1>2. links'[p] = l
  BY DEF Inv, TypeOK
<1>3. \A k : SameSender(k, k)
  BY DEF SameSender
<1> QED
  BY <1>1, <1>2, <1>3 DEF QuietSteps, QuietStep

LEMMA SameLinksSteps ==
  ASSUME Inv, \A q \in Keys(links') : q \in Keys(links) /\ links'[q] = links[q]
  PROVE  QuietSteps
BY DEF QuietSteps, QuietStep, SameSender, Link, Keys

LEMMA LinkInState ==
  ASSUME Inv, NEW p \in Partners
  PROVE  Link(p) \in LinkState
BY LinkSound DEF SoundLink

LEMMA StrikeSteps ==
  ASSUME Inv, NEW p \in Partners, NEW code,
         strike(p, code) \/ mute_mismatch(p, code)
  PROVE  QuietSteps
<1>1. SameSender(Link(p), struck(Link(p)))
  BY LinkInState DEF SameSender, struck, LinkState
<1>2. SameSender(Link(p), [Link(p) EXCEPT !.muted = TRUE, !.received = Empty(PeerIds)])
  BY LinkInState DEF SameSender, LinkState
<1> QED
  BY <1>1, <1>2, OneLinkQuiet DEF strike, mute_mismatch, QuietStep

LEMMA MessageSteps ==
  ASSUME Inv, NEW p \in Partners, NEW m, on_message(p, m)
  PROVE  QuietSteps
<1>1. CASE \E code : strike(p, code) \/ mute_mismatch(p, code)
  BY <1>1, StrikeSteps
<1>2. CASE OnMuted(p)
  BY <1>2, SameLinksSteps DEF OnMuted, Keys
<1>3. CASE on_pex_error(p, m)
  <2>1. CASE Honored(Link(p), m.code)
    <3>1. SenderBackedOff(Link(p), BackedOff(Link(p)))
      BY <2>1, LinkInState DEF SenderBackedOff, BackedOff, Honored, LinkState
    <3> QED
      BY <1>3, <2>1, <3>1, OneLinkQuiet DEF on_pex_error, QuietStep
  <2>2. CASE ~Honored(Link(p), m.code)
    <3>1. SameSender(Link(p), Link(p))
      BY DEF SameSender
    <3> QED
      BY <1>3, <2>2, <3>1, OneLinkQuiet DEF on_pex_error, QuietStep
  <2> QED
    BY <2>1, <2>2
<1>4. ASSUME NEW d, NEW phase,
             links' = [links EXCEPT ![p] = [Link(p) EXCEPT !.remote_declared_secs = d, !.phase = phase]]
      PROVE  QuietSteps
  <2>1. SameSender(Link(p), [Link(p) EXCEPT !.remote_declared_secs = d, !.phase = phase])
    BY LinkInState DEF SameSender, LinkState
  <2> QED
    BY <1>4, <2>1, OneLinkQuiet DEF QuietStep
<1>5. ASSUME NEW received,
             \/ links' = [links EXCEPT ![p] = [Link(p) EXCEPT !.phase = "Streaming",
                                                 !.last_arrival_ms = now, !.received = received]]
             \/ links' = [links EXCEPT ![p] = [Link(p) EXCEPT !.last_arrival_ms = now,
                                                 !.received = received]]
      PROVE  QuietSteps
  <2>1. /\ SameSender(Link(p), [Link(p) EXCEPT !.phase = "Streaming",
                                  !.last_arrival_ms = now, !.received = received])
        /\ SameSender(Link(p), [Link(p) EXCEPT !.last_arrival_ms = now, !.received = received])
    BY LinkInState DEF SameSender, LinkState
  <2> QED
    BY <1>5, <2>1, OneLinkQuiet DEF QuietStep
<1>6. CASE on_handshake(p, m)
  BY <1>1, <1>4, <1>6, Zenon DEF on_handshake
<1>7. CASE on_snapshot(p, m)
  BY <1>1, <1>5, <1>7, Zenon DEF on_snapshot
<1>8. CASE on_delta(p, m)
  BY <1>1, <1>5, <1>8, Zenon DEF on_delta
<1> QED
  BY <1>2, <1>3, <1>6, <1>7, <1>8, Zenon DEF on_message

LEMMA LinkUpSteps ==
  ASSUME Inv, NEW p \in Partners, link_up(p)
  PROVE  SenderSteps
<1>1. PICK jitter : links' = [links EXCEPT ![p] =
               [Link(p) EXCEPT !.self_interval_secs = Interval,
                               !.handshake_sent = TRUE,
                               !.told = Told(@, Snapshot(p), {}),
                               !.snapshot_sent = TRUE,
                               !.last_data_send_ms = now,
                               !.send_jitter_ms = jitter]]
  BY DEF link_up
<1> DEFINE l == [Link(p) EXCEPT !.self_interval_secs = Interval,
                               !.handshake_sent = TRUE,
                               !.told = Told(@, Snapshot(p), {}),
                               !.snapshot_sent = TRUE,
                               !.last_data_send_ms = now,
                               !.send_jitter_ms = jitter]
<1>2. SenderUp(Link(p), l)
  BY LinkInState DEF SenderUp, LinkState
<1> HIDE DEF l
<1> QED
  BY <1>1, <1>2, OneLinkSteps DEF SenderStep, l

LEMMA TickSteps ==
  ASSUME Inv, tick
  PROVE  SenderSteps
<1>1. PICK dropped \in [Sending -> SUBSET PeerIds], jitter \in [Sending -> JitterSamples] :
          links' = [p \in Partners |->
                       IF p \in Sending THEN AfterDelta(p, dropped[p], jitter[p]) ELSE links[p]]
  BY DEF tick
<1> SUFFICES ASSUME NEW q \in Keys(links') PROVE SenderStep(Link(q), links'[q])
  BY DEF SenderSteps, Keys
<1>2. q \in Partners
  BY <1>1 DEF Keys
<1>3. CASE q \in Sending
  <2>1. links'[q] = AfterDelta(q, dropped[q], jitter[q])
    BY <1>1, <1>2, <1>3
  <2>2. links[q] = Link(q) /\ Link(q) \in LinkState
    BY <1>2, <1>3, LinkInState DEF Sending, Due, Keys, Link
  <2>3. SenderTold(Link(q), AfterDelta(q, dropped[q], jitter[q]))
    BY <2>2 DEF SenderTold, AfterDelta, LinkState
  <2> QED
    BY <2>1, <2>3 DEF SenderStep
<1>4. CASE q \notin Sending
  <2>1. links'[q] = links[q] /\ links[q] = Link(q)
    BY <1>1, <1>2, <1>4 DEF Keys, Link
  <2> QED
    BY <2>1 DEF SenderStep, SameSender
<1> QED
  BY <1>3, <1>4

LEMMA CallSteps ==
  ASSUME Inv, [Next]_vars
  PROVE  QuietSteps \/ tick \/ \E p \in Speaking : link_up(p)
<1>1. ASSUME UNCHANGED links PROVE QuietSteps
  BY <1>1, SameLinksSteps DEF Keys
<1>2. ASSUME NEW p \in Partners, link_down(p) PROVE QuietSteps
  BY <1>2, SameLinksSteps DEF link_down, Remove, Keys, Inv, TypeOK
<1>3. ASSUME NEW d \in ClockSteps, ClockMoves(d) PROVE QuietSteps
  BY <1>1, <1>3 DEF ClockMoves
<1>4. CASE \E e \in FirstHand : upsert_known(e) \/ remove_known(e.peer_id)
  BY <1>1, <1>4 DEF upsert_known, remove_known
<1>5. ASSUME NEW p \in Partners, NEW m \in Inbox, on_message(p, m) PROVE QuietSteps
  BY <1>5, MessageSteps
<1>6. ASSUME NEW p \in Partners, NEW code \in Reported, record_violation(p, code) PROVE QuietSteps
  BY <1>6, StrikeSteps DEF record_violation
<1>7. CASE UNCHANGED vars
  BY <1>1, <1>7 DEF vars
<1> QED
  BY <1>2, <1>3, <1>4, <1>5, <1>6, <1>7, Zenon DEF Next

LEMMA NextSteps ==
  ASSUME Inv, [Next]_vars
  PROVE  SenderSteps
<1>1. ASSUME NEW p \in Speaking, link_up(p) PROVE SenderSteps
  BY <1>1, LinkUpSteps, EngineAssumption
<1> QED
  BY <1>1, CallSteps, QuietIsStep, TickSteps

(* What tick does, link by link. *)
LEMMA TickSends ==
  ASSUME Inv, tick
  PROVE  /\ \A p \in Keys(links') \ Sending : links'[p] = links[p] /\ p \in Keys(links)
         /\ \A p \in Sending :
               \E dropped \in SUBSET PeerIds, jitter \in JitterSamples :
                  /\ links'[p] = AfterDelta(p, dropped, jitter)
                  /\ [to |-> p, type |-> "pex_delta", added |-> Added(p), dropped |-> dropped]
                        \in out'.sent
<1>1. PICK dropped \in [Sending -> SUBSET PeerIds], jitter \in [Sending -> JitterSamples] :
        /\ links' = [p \in Partners |->
                       IF p \in Sending THEN AfterDelta(p, dropped[p], jitter[p]) ELSE links[p]]
        /\ out' = [Quiet EXCEPT !.sent =
                      {[to |-> p, type |-> "pex_delta",
                        added |-> Added(p), dropped |-> dropped[p]] : p \in Sending}]
  BY DEF tick
<1>2. out'.sent = {[to |-> p, type |-> "pex_delta",
                    added |-> Added(p), dropped |-> dropped[p]] : p \in Sending}
  BY <1>1 DEF Quiet
<1>3. ASSUME NEW p \in Keys(links') \ Sending
      PROVE  links'[p] = links[p] /\ p \in Keys(links)
  BY <1>1 DEF Keys, Inv, TypeOK
<1>4. ASSUME NEW p \in Sending
      PROVE  /\ links'[p] = AfterDelta(p, dropped[p], jitter[p])
             /\ [to |-> p, type |-> "pex_delta", added |-> Added(p), dropped |-> dropped[p]]
                   \in out'.sent
  <2>1. p \in Partners
    BY DEF Sending, Due, Keys, Inv, TypeOK
  <2> QED
    BY <1>1, <1>2, <2>1
<1> QED
  BY <1>3, <1>4

(* A link on which nothing is sent keeps its clock and what it told. *)
LEMMA UnsentStep ==
  ASSUME Inv, Next, NEW p \in Keys(links'), ~DataSent(p)
  PROVE  QuietStep(Link(p), links'[p])
<1>1. CASE QuietSteps
  BY <1>1 DEF QuietSteps
<1>2. ASSUME links'[p] = links[p], p \in Keys(links)
      PROVE  QuietStep(Link(p), links'[p])
  BY <1>2 DEF QuietStep, SameSender, Link, Keys
<1>3. ASSUME NEW q \in Speaking, link_up(q)
      PROVE  QuietStep(Link(p), links'[p])
  <2>1. q # p
    BY <1>3 DEF DataSent, link_up, Quiet
  <2> QED
    BY <1>2, <1>3, <2>1 DEF link_up, Keys, Inv, TypeOK
<1>4. CASE tick
  <2>1. p \notin Sending
    BY <1>4, TickSends DEF DataSent
  <2> QED
    BY <1>2, <1>4, <2>1, TickSends
<1> QED
  BY <1>1, <1>3, <1>4, CallSteps

-----------------------------------------------------------------------------
(* The pace of a link: no interval shorter than the declared one, and a clock
   that started with the snapshot.                                           *)

Paced(l) ==
    /\ clamp_interval(l.self_interval_secs) >= clamp_interval(Interval)
    /\ l.snapshot_sent => l.last_data_send_ms # None

PacedLinks == \A p \in Keys(links) : Paced(links[p])

LEMMA PacedStep ==
  ASSUME now \in Nat, NEW k \in LinkState, NEW l, Paced(k), SenderStep(k, l)
  PROVE  Paced(l)
<1>1. k.self_interval_secs \in Nat /\ Interval \in Nat /\ now # None
  BY StateAssumption, NoneAssumption DEF LinkState
<1>2. CASE SameSender(k, l) \/ SenderTold(k, l)
  BY <1>1, <1>2 DEF SameSender, SenderTold, Paced
<1>3. CASE SenderUp(k, l)
  BY <1>1, <1>3, ClampType DEF SenderUp, Paced
<1>4. CASE SenderBackedOff(k, l)
  <2> DEFINE s == k.self_interval_secs
             t == clamp_interval(Smaller(2 * s, PEX_MAX_INTERVAL))
  <2>1. clamp_interval(t) >= clamp_interval(s)
    BY <1>1, IntervalAssumption DEF clamp_interval, Smaller, Larger
  <2>2. /\ clamp_interval(t) \in Nat /\ clamp_interval(s) \in Nat
        /\ clamp_interval(Interval) \in Nat
    BY <1>1, IntervalAssumption DEF clamp_interval, Smaller, Larger
  <2>3. l.self_interval_secs = t
    BY <1>4 DEF SenderBackedOff
  <2>4. clamp_interval(l.self_interval_secs) >= clamp_interval(Interval)
    BY <2>1, <2>2, <2>3 DEF Paced
  <2> QED
    BY <1>4, <2>4 DEF SenderBackedOff, Paced
<1> QED
  BY <1>2, <1>3, <1>4 DEF SenderStep

LEMMA PacedLink ==
  ASSUME PacedLinks, NEW p \in Partners, Inv
  PROVE  Paced(Link(p))
<1>1. CASE links[p] = None
  BY <1>1, StateAssumption, ClampType DEF Link, NewLink, Paced
<1>2. CASE links[p] # None
  BY <1>2 DEF Link, PacedLinks, Keys, Inv, TypeOK
<1> QED
  BY <1>1, <1>2

LEMMA PacedSteps ==
  ASSUME Inv, PacedLinks, Inv', SenderSteps
  PROVE  PacedLinks'
<1> SUFFICES ASSUME NEW p \in Keys(links') PROVE Paced(links'[p])
  BY DEF PacedLinks, Keys
<1>1. p \in Partners
  BY DEF Keys, Inv, TypeOK
<1>2. SenderStep(Link(p), links'[p])
  BY DEF SenderSteps
<1> QED
  BY <1>1, <1>2, PacedStep, PacedLink, LinkInState DEF Inv, TypeOK

LEMMA PacedNext ==
  ASSUME Inv, PacedLinks, [Next]_vars
  PROVE  PacedLinks'
BY NextInv, NextSteps, PacedSteps

LEMMA PacedInit == Init => PacedLinks
BY DEF Init, PacedLinks, Keys, Empty

(* The pace of every link is kept, whatever the host calls. *)
THEOREM Pace == Spec => [](Inv /\ PacedLinks)
<1>1. Inv /\ PacedLinks /\ [Next]_vars => PacedLinks'
  BY PacedNext
<1> QED
  BY <1>1, PacedInit, InitInv, NextInv, PTL DEF Spec
-----------------------------------------------------------------------------
(* Back-offs.                                                                *)

(* n doublings of the interval of link l since its last data message. *)
RatchetedLink(l, n) ==
    \/ n = 0
    \/ /\ n = 1 /\ l # None
       /\ l.self_interval_secs \in PEX_MIN_INTERVAL..PEX_MAX_INTERVAL
       /\ l.last_data_send_ms \in Nat /\ l.last_backoff_applied_ms \in Nat
       /\ l.last_data_send_ms <= l.last_backoff_applied_ms

RatchetInv == \A p \in Partners : RatchetedLink(links[p], ratchets[p])

(* A doubling at or after the last data message leaves no room for another: the
   rate limit ends when an error has long ceased to be plausible. *)
LEMMA NoSecondRatchet ==
  ASSUME now \in Nat, NEW k \in LinkState, RatchetedLink(k, 1), Plausible(k)
  PROVE  RateLimited(k)
<1> DEFINE s == k.self_interval_secs
           sent == k.last_data_send_ms
           backed == k.last_backoff_applied_ms
<1>1. /\ s \in Nat /\ sent \in Nat /\ backed \in Nat /\ backed # None
      /\ sent <= backed /\ PEX_MIN_INTERVAL <= s /\ s <= PEX_MAX_INTERVAL
  BY IntervalAssumption, NoneAssumption DEF RatchetedLink, LinkState
<1>2. arrival_floor_ms(s) = (s - PEX_ARRIVAL_GRACE) * 1000
  BY <1>1, IntervalAssumption DEF arrival_floor_ms, clamp_interval, Larger, Smaller
<1>3. saturating_sub(now, sent) < (s - PEX_ARRIVAL_GRACE) * 1000
  BY <1>2 DEF Plausible
<1> HIDE DEF s, sent, backed
<1>4. saturating_sub(now, backed) <= saturating_sub(now, sent)
  BY <1>1 DEF saturating_sub
<1>5. saturating_sub(now, backed) \in Nat /\ saturating_sub(now, sent) \in Nat
  BY <1>1 DEF saturating_sub
<1>6. saturating_sub(now, backed) < s * 1000
  BY <1>1, <1>3, <1>4, <1>5, IntervalAssumption
<1> QED
  BY <1>1, <1>6 DEF RateLimited, s, backed

LEMMA RatchetStep ==
  ASSUME Inv, Inv', RatchetInv, RatchetNext, NEW p \in Partners
  PROVE  RatchetedLink(links'[p], ratchets'[p])
<1> DEFINE k == links[p]
           l == links'[p]
           n == ratchets[p]
<1>1. ratchets'[p] = IF l = None \/ DataSent(p) THEN 0
                     ELSE IF Ratchets(p) THEN n + 1 ELSE n
  BY DEF RatchetNext
<1>2. CASE l = None \/ DataSent(p)
  BY <1>1, <1>2 DEF RatchetedLink
<1>3. CASE l # None /\ ~DataSent(p) /\ k = None
  <2>1. n = 0
    BY <1>3 DEF RatchetInv, RatchetedLink
  <2>2. ~Ratchets(p)
    BY <1>3 DEF Ratchets, Keys
  <2> QED
    BY <1>1, <1>3, <2>1, <2>2 DEF RatchetedLink
<1>4. CASE l # None /\ ~DataSent(p) /\ k # None
  <2>1. k = Link(p) /\ k \in LinkState /\ l \in LinkState
    BY <1>4, LinkInState DEF Link, Inv, TypeOK, Option
  <2>2. QuietStep(k, l)
    <3>1. p \in Keys(links')
      BY <1>4 DEF Keys, Inv, TypeOK
    <3> QED
      BY <1>4, <2>1, <3>1, UnsentStep DEF RatchetNext
  <2>3. RatchetedLink(k, n)
    BY DEF RatchetInv
  <2>4. k.self_interval_secs \in Nat /\ now \in Nat
    BY <2>1 DEF LinkState, Inv, TypeOK
  <2>5. CASE SameSender(k, l)
    <3>1. ~Ratchets(p)
      BY <2>4, <2>5 DEF SameSender, Ratchets
    <3> QED
      BY <1>1, <1>4, <2>3, <2>5, <3>1 DEF SameSender, RatchetedLink
  <2>6. CASE SenderBackedOff(k, l)
    <3>1. n = 0
      BY <2>1, <2>3, <2>4, <2>6, NoSecondRatchet DEF SenderBackedOff, RatchetedLink
    <3>2. l.self_interval_secs \in PEX_MIN_INTERVAL..PEX_MAX_INTERVAL
      BY <2>4, <2>6, IntervalAssumption DEF SenderBackedOff, clamp_interval, Larger, Smaller
    <3>3. l.last_backoff_applied_ms = now /\ l.last_data_send_ms = k.last_data_send_ms
      BY <2>6 DEF SenderBackedOff
    <3>4. k.last_data_send_ms \in Nat /\ k.last_data_send_ms # None
      BY <2>1, <2>6 DEF SenderBackedOff, Plausible, LinkState, Option
    <3>5. CASE ~Ratchets(p)
      BY <1>1, <1>4, <3>1, <3>5 DEF RatchetedLink
    <3>6. CASE Ratchets(p)
      BY <1>1, <1>4, <2>4, <3>1, <3>2, <3>3, <3>4, <3>6 DEF Ratchets, RatchetedLink
    <3> QED
      BY <3>5, <3>6
  <2> QED
    BY <2>2, <2>5, <2>6 DEF QuietStep
<1> QED
  BY <1>2, <1>3, <1>4

(* PEX-16 for every declared interval, legal or not, every clock and every
   sequence of calls: from one data message on a link to the next, errors
   double its interval once, those read while the clock is behind the message
   not counted. *)
THEOREM RatchetedOnce == RatchetSpec => []ErrorsRatchetOnce
<1>1. RatchetInit => Inv /\ RatchetInv
  BY InitInv DEF RatchetInit, RatchetInv, RatchetedLink
<1>2. Inv /\ RatchetInv /\ [RatchetNext]_ratchetVars => (Inv /\ RatchetInv)'
  <2> SUFFICES ASSUME Inv, RatchetInv, [RatchetNext]_ratchetVars
               PROVE  Inv' /\ RatchetInv'
    OBVIOUS
  <2>1. Inv'
    BY NextInv DEF RatchetNext, ratchetVars
  <2>2. CASE RatchetNext
    BY <2>1, <2>2, RatchetStep DEF RatchetInv
  <2>3. CASE UNCHANGED ratchetVars
    <3>1. links' = links /\ ratchets' = ratchets
      BY <2>3 DEF ratchetVars, vars
    <3>2. ASSUME NEW p \in Partners PROVE RatchetedLink(links'[p], ratchets'[p])
      BY <3>1 DEF RatchetInv
    <3> QED
      BY <2>1, <3>2 DEF RatchetInv
  <2> QED
    BY <2>1, <2>2, <2>3
<1>3. RatchetInv => ErrorsRatchetOnce
  BY DEF RatchetInv, RatchetedLink, ErrorsRatchetOnce
<1> QED
  BY <1>1, <1>2, <1>3, PTL DEF RatchetSpec

-----------------------------------------------------------------------------
(* Sends.                                                                    *)

LEMMA DeltasFromTick ==
  ASSUME Next, Deltas' # {}
  PROVE  tick
<1>1. Quiet.sent = {}
  BY DEF Quiet
<1>2. ASSUME out'.sent = {} PROVE FALSE
  BY <1>2 DEF Deltas
<1>3. ASSUME out' = Quiet PROVE FALSE
  BY <1>1, <1>2, <1>3
<1>4. ASSUME NEW d \in ClockSteps, ClockMoves(d) PROVE FALSE
  BY <1>3, <1>4 DEF ClockMoves
<1>5. ASSUME NEW e, upsert_known(e) \/ remove_known(e.peer_id) PROVE FALSE
  BY <1>3, <1>5 DEF upsert_known, remove_known
<1>6. ASSUME NEW p, link_up(p) PROVE FALSE
  BY <1>6 DEF link_up, Deltas, Handshake, Quiet
<1>7. ASSUME NEW p, link_down(p) PROVE FALSE
  BY <1>3, <1>7 DEF link_down
<1>8. ASSUME NEW p, NEW code, strike(p, code) \/ mute_mismatch(p, code) PROVE FALSE
  BY <1>2, <1>8 DEF strike, mute_mismatch, Quiet
<1>9. ASSUME NEW p, NEW code, record_violation(p, code) PROVE FALSE
  BY <1>8, <1>9 DEF record_violation
<1>10. ASSUME NEW p, NEW m, on_message(p, m) PROVE FALSE
  <2>1. CASE OnMuted(p)
    BY <1>3, <2>1 DEF OnMuted
  <2>2. CASE on_pex_error(p, m)
    BY <1>3, <2>2 DEF on_pex_error
  <2>3. CASE on_handshake(p, m)
    BY <1>3, <1>8, <2>3, Zenon DEF on_handshake
  <2>4. ASSUME NEW peer, NEW candidates, NEW attributed,
               \/ out' = [Quiet EXCEPT !.peer = peer, !.candidates = candidates]
               \/ out' = [Quiet EXCEPT !.peer = peer, !.candidates = candidates,
                                       !.attributed = attributed]
        PROVE FALSE
    BY <1>2, <2>4 DEF Quiet
  <2>5. CASE on_snapshot(p, m)
    BY <1>8, <2>4, <2>5, Zenon DEF on_snapshot
  <2>6. CASE on_delta(p, m)
    BY <1>8, <2>4, <2>6, Zenon DEF on_delta
  <2> QED
    BY <1>10, <2>1, <2>2, <2>3, <2>5, <2>6, Zenon DEF on_message
<1> QED
  BY <1>4, <1>5, <1>6, <1>7, <1>9, <1>10, Zenon DEF Next

(* The wait of a link is no shorter than what we declared and what the partner
   asked for, and longer than the floor of a conformant receiver. *)
LEMMA EligibleMeansSpaced ==
  ASSUME now \in Nat, NEW k \in LinkState, Paced(k), Eligible(k)
  PROVE  /\ k.last_data_send_ms # None
         /\ now - k.last_data_send_ms
                >= effective_interval_secs(Interval, k.remote_declared_secs) * 1000
         /\ now - k.last_data_send_ms > arrival_floor_ms(Interval)
<1> DEFINE remote == IF k.remote_declared_secs = None THEN 0
                     ELSE clamp_interval(k.remote_declared_secs)
           own == clamp_interval(Interval)
           wait == effective_interval_secs(Interval, k.remote_declared_secs)
<1>1. /\ k.last_data_send_ms \in Nat /\ k.last_data_send_ms # None
      /\ k.send_jitter_ms \in Nat /\ k.self_interval_secs \in Nat
  BY DEF LinkState, Paced, Eligible, Option
<1>2. remote \in Nat
  BY ClampType DEF LinkState, Option
<1>3. own \in Nat /\ clamp_interval(k.self_interval_secs) \in Nat
  BY <1>1, ClampType, StateAssumption
<1>4. /\ wait = Larger(Larger(own, remote), PEX_MIN_INTERVAL)
      /\ Effective(k) = Larger(Larger(clamp_interval(k.self_interval_secs), remote), PEX_MIN_INTERVAL)
  BY DEF effective_interval_secs, Effective
<1>5. own <= clamp_interval(k.self_interval_secs)
  BY <1>3 DEF Paced
<1> HIDE DEF remote, own
<1>6. /\ wait \in Nat /\ Effective(k) \in Nat /\ wait <= Effective(k)
      /\ own <= wait /\ PEX_MIN_INTERVAL <= wait
  BY <1>2, <1>3, <1>4, <1>5, IntervalAssumption DEF Larger
<1>7. now >= k.last_data_send_ms + Effective(k) * 1000 + k.send_jitter_ms
  BY <1>1 DEF Eligible
<1>8. now - k.last_data_send_ms >= wait * 1000
  BY <1>1, <1>6, <1>7
<1>9. arrival_floor_ms(Interval) = (Larger(own, PEX_MIN_INTERVAL) - PEX_ARRIVAL_GRACE) * 1000
  BY DEF arrival_floor_ms, own
<1>10. arrival_floor_ms(Interval) < wait * 1000 /\ arrival_floor_ms(Interval) \in Int
  BY <1>3, <1>6, <1>9, IntervalAssumption DEF Larger
<1> QED
  BY <1>1, <1>6, <1>8, <1>10

LEMMA SpacedNext ==
  ASSUME Inv, PacedLinks, [Next]_vars, ~UNCHANGED vars, NEW m \in Deltas'
  PROVE  Spaced(m)
<1>1. tick
  BY DeltasFromTick
<1>2. PICK dropped \in [Sending -> SUBSET PeerIds], jitter \in [Sending -> JitterSamples] :
        /\ links' = [p \in Partners |->
                       IF p \in Sending THEN AfterDelta(p, dropped[p], jitter[p]) ELSE links[p]]
        /\ out' = [Quiet EXCEPT !.sent =
                      {[to |-> p, type |-> "pex_delta",
                        added |-> Added(p), dropped |-> dropped[p]] : p \in Sending}]
  BY <1>1 DEF tick
<1>3. m.to \in Sending
  BY <1>2 DEF Deltas, Quiet
<1> DEFINE p == m.to
<1>4. /\ p \in Keys(links) /\ p \in Partners /\ Eligible(links[p])
      /\ links[p] \in LinkState /\ links[p] = Link(p)
  BY <1>3, LinkInState DEF Sending, Due, Keys, Link, Inv, TypeOK
<1>5. links'[p].last_data_send_ms = now
  BY <1>2, <1>3, <1>4 DEF AfterDelta, LinkState
<1>6. Paced(links[p])
  BY <1>4 DEF PacedLinks
<1> QED
  BY <1>4, <1>5, <1>6, EligibleMeansSpaced DEF Spaced, Inv, TypeOK

(* PEX-06 for every declared interval, legal or not, every interval a partner
   declares, every back-off and every clock: no delta leaves too soon. *)
THEOREM SendsSpaced == Spec => SendsAreSpaced
<1>1. Inv /\ PacedLinks /\ [Next]_vars => [\A m \in Deltas' : Spaced(m)]_vars
  BY SpacedNext
<1> QED
  BY <1>1, Pace, PTL DEF Spec, SendsAreSpaced

-----------------------------------------------------------------------------
(* What is told.                                                           *)

(* What may be advertised in the second secs. *)
BaseAt(secs) ==
    {e \in {known[id] : id \in Keys(known)} :
        e.peer_id # LocalPeerId /\ ~Stale(e, secs)}

(* The cache is of an earlier first-hand set, or right for its second. *)
CacheInv ==
    advertisable_cache # None =>
        /\ advertisable_cache.epoch <= known_epoch
        /\ advertisable_cache.epoch = known_epoch =>
               advertisable_cache.list = BaseAt(advertisable_cache.secs)

LEMMA CacheInvCoherent ==
  ASSUME CacheInv
  PROVE  CacheCoherent
BY DEF CacheInv, CacheCoherent, CacheHit, BaseAt, advertisable_base

LEMMA CachedIsBase ==
  ASSUME CacheInv
  PROVE  advertisable_cached = BaseAt(NowSecs)
BY DEF CacheInv, advertisable_cached, CacheHit, BaseAt, advertisable_base

LEMMA RefreshedInv ==
  ASSUME TypeOK, CacheInv, UNCHANGED <<known, known_epoch>>,
         advertisable_cache' \in {advertisable_cache, RefreshedCache}
  PROVE  CacheInv'
<1>1. \A secs : BaseAt(secs)' = BaseAt(secs)
  BY DEF BaseAt, Keys
<1>2. CASE advertisable_cache' = advertisable_cache
  BY <1>1, <1>2 DEF CacheInv
<1>3. CASE advertisable_cache' = RefreshedCache
  <2>1. /\ RefreshedCache.epoch = known_epoch
        /\ RefreshedCache.secs = NowSecs
        /\ RefreshedCache.list = BaseAt(NowSecs)
    BY CachedIsBase DEF RefreshedCache
  <2> QED
    BY <1>1, <1>3, <2>1 DEF CacheInv, TypeOK
<1> QED
  BY <1>2, <1>3

LEMMA MutationInv ==
  ASSUME TypeOK, CacheInv, UNCHANGED advertisable_cache, known_epoch' = known_epoch + 1
  PROVE  CacheInv'
<1>1. advertisable_cache # None => advertisable_cache.epoch \in Nat
  BY DEF TypeOK, Option
<1> QED
  BY <1>1 DEF CacheInv, TypeOK

LEMMA CacheNext ==
  ASSUME Inv, CacheInv, [Next]_vars
  PROVE  CacheInv'
<1>0. TypeOK
  BY DEF Inv
<1>1. ASSUME UNCHANGED <<known, known_epoch, advertisable_cache>> PROVE CacheInv'
  BY <1>0, <1>1, RefreshedInv
<1>2. ASSUME NEW d \in ClockSteps, ClockMoves(d) PROVE CacheInv'
  BY <1>1, <1>2 DEF ClockMoves
<1>3. ASSUME NEW e \in FirstHand, upsert_known(e) \/ remove_known(e.peer_id) PROVE CacheInv'
  BY <1>0, <1>1, <1>3, MutationInv DEF upsert_known, remove_known
<1>4. ASSUME NEW p \in Speaking, link_up(p) PROVE CacheInv'
  BY <1>0, <1>4, RefreshedInv DEF link_up
<1>5. ASSUME NEW p \in Partners, link_down(p) PROVE CacheInv'
  BY <1>1, <1>5 DEF link_down
<1>6. ASSUME NEW p \in Partners, NEW m \in Inbox, on_message(p, m) PROVE CacheInv'
  BY <1>1, <1>6 DEF on_message, OutboundUnchanged
<1>7. ASSUME NEW p \in Partners, NEW code \in Reported, record_violation(p, code) PROVE CacheInv'
  BY <1>1, <1>7 DEF record_violation, OutboundUnchanged
<1>8. CASE tick
  BY <1>0, <1>8, RefreshedInv DEF tick
<1>9. CASE UNCHANGED vars
  BY <1>1, <1>9 DEF vars
<1> QED
  BY <1>2, <1>3, <1>4, <1>5, <1>6, <1>7, <1>8, <1>9, Zenon DEF Next

LEMMA CacheInit == Init => CacheInv
BY DEF Init, CacheInv

LEMMA CacheKept == Spec => [](Inv /\ CacheInv)
<1>1. Inv /\ CacheInv /\ [Next]_vars => CacheInv'
  BY CacheNext
<1> QED
  BY <1>1, CacheInit, InitInv, NextInv, PTL DEF Spec

(* Whenever the cached list would be used it is the list that would be built
   anew: the epoch and the second are enough of a key, even when the clock
   steps back to a second the cache was built in. *)
THEOREM CacheNeverStale == Spec => []CacheCoherent
<1>1. Inv /\ CacheInv => CacheCoherent
  BY CacheInvCoherent
<1> QED
  BY <1>1, CacheKept, PTL

-----------------------------------------------------------------------------
(* Deltas.                                                                   *)

(* An entry that may go to a partner: known, current, fresh, and about
   neither side. *)
LEMMA AdvertisedIsKnown ==
  ASSUME Inv, CacheInv, NEW p, NEW e \in advertisable_for(p)
  PROVE  /\ e.peer_id \notin {LocalPeerId, p}
         /\ e.peer_id \in Keys(known) /\ e = known[e.peer_id]
         /\ ~Stale(e, NowSecs)
<1>1. e \in BaseAt(NowSecs) /\ e.peer_id # p
  BY CachedIsBase DEF advertisable_for
<1>2. PICK id \in Keys(known) : e = known[id]
  BY <1>1 DEF BaseAt
<1>3. known[id].peer_id = id
  BY <1>2 DEF Inv, TypeOK
<1> QED
  BY <1>1, <1>2, <1>3 DEF BaseAt

(* Told after a delta: each added entry is told as it is. *)
LEMMA AddedIsTold ==
  ASSUME Inv, CacheInv, NEW p, NEW e \in Added(p), NEW told, NEW ids,
         e.peer_id \notin ids, e.peer_id \in PeerIds
  PROVE  Told(told, Added(p), ids)[e.peer_id] = fingerprint_hash(e)
<1>1. Added(p) \subseteq advertisable_for(p)
  BY DEF Added, Freshest, Changed
<1>2. \A x \in Added(p) : x.peer_id = e.peer_id => x = e
  BY <1>1, AdvertisedIsKnown
<1>3. (CHOOSE x \in Added(p) : x.peer_id = e.peer_id) = e
  BY <1>2
<1> QED
  BY <1>3 DEF Told

(* All picks of ids to drop have one size: if one drops something, all do. *)
LEMMA PicksAlike ==
  ASSUME Inv, NEW p \in Keys(links),
         NEW a \in DroppedPicks(Gone(p)), NEW b \in DroppedPicks(Gone(p)), a # {}
  PROVE  b # {}
<1>1. IsFiniteSet(PeerIds)
  BY EntryAssumption, FS_AddElement DEF PeerIds
<1>2. Gone(p) \subseteq PeerIds
  BY DEF Gone, Keys, Inv, TypeOK, Option, LinkState
<1>3. a \subseteq Gone(p) /\ b \subseteq Gone(p) /\ Cardinality(a) = Cardinality(b)
  BY DEF DroppedPicks
<1>4. IsFiniteSet(a) /\ IsFiniteSet(b)
  BY <1>1, <1>2, <1>3, FS_Subset
<1> QED
  BY <1>3, <1>4, FS_EmptySet

LEMMA HonestNext ==
  ASSUME Inv, CacheInv, [Next]_vars, ~UNCHANGED vars, NEW m \in Deltas'
  PROVE  Honest(m)
<1>1. tick
  BY DeltasFromTick
<1>2. PICK dropped \in [Sending -> SUBSET PeerIds], jitter \in [Sending -> JitterSamples] :
        /\ \A p \in Sending : dropped[p] \in DroppedPicks(Gone(p))
        /\ links' = [p \in Partners |->
                       IF p \in Sending THEN AfterDelta(p, dropped[p], jitter[p]) ELSE links[p]]
        /\ out' = [Quiet EXCEPT !.sent =
                      {[to |-> p, type |-> "pex_delta",
                        added |-> Added(p), dropped |-> dropped[p]] : p \in Sending}]
  BY <1>1 DEF tick
<1>3. PICK p \in Sending : m = [to |-> p, type |-> "pex_delta",
                                added |-> Added(p), dropped |-> dropped[p]]
  BY <1>2 DEF Deltas, Quiet
<1>4. /\ m.to = p /\ m.added = Added(p) /\ m.dropped = dropped[p]
      /\ dropped[p] \in DroppedPicks(Gone(p))
  BY <1>2, <1>3
<1>5. /\ p \in Keys(links) /\ p \in Partners /\ links[p] \in LinkState
  BY <1>3, LinkInState DEF Sending, Due, Keys, Link, Inv, TypeOK
<1>6. Added(p) # {} \/ dropped[p] # {}
  BY <1>3, <1>4, <1>5, PicksAlike DEF Sending
<1>7. dropped[p] \subseteq Gone(p) /\ Gone(p) \subseteq Keys(links[p].told)
  BY <1>4 DEF DroppedPicks, Gone
<1>8. links'[p].told = Told(links[p].told, Added(p), dropped[p])
  BY <1>2, <1>3, <1>5 DEF AfterDelta, LinkState
<1>9. ASSUME NEW e \in Added(p)
      PROVE  /\ e.peer_id \notin dropped[p] \cup {LocalPeerId, p}
             /\ e.peer_id \in Keys(known) /\ e = known[e.peer_id]
             /\ ~Stale(e, NowSecs)
             /\ e.peer_id \in Keys(links[p].told) =>
                    links[p].told[e.peer_id] # fingerprint_hash(e)
             /\ links'[p].told[e.peer_id] = fingerprint_hash(e)
  <2>1. e \in Changed(p) /\ e \in advertisable_for(p)
    BY DEF Added, Freshest, Changed
  <2>2. /\ e.peer_id \notin {LocalPeerId, p}
        /\ e.peer_id \in Keys(known) /\ e = known[e.peer_id]
        /\ ~Stale(e, NowSecs)
    BY <2>1, AdvertisedIsKnown
  <2>3. e.peer_id \notin dropped[p]
    BY <1>7, <2>1 DEF Gone
  <2>4. e.peer_id \in Keys(links[p].told) => links[p].told[e.peer_id] # fingerprint_hash(e)
    BY <2>1 DEF Changed, Keys
  <2>5. e.peer_id \in PeerIds
    BY <2>2 DEF Keys, Inv, TypeOK
  <2>6. links'[p].told[e.peer_id] = fingerprint_hash(e)
    BY <1>8, <2>3, <2>5, AddedIsTold
  <2> QED
    BY <2>2, <2>3, <2>4, <2>6
<1> QED
  BY <1>4, <1>6, <1>7, <1>9 DEF Honest

(* Every delta says something, drops only what was told, and adds only entries
   that are known, current, fresh, about a third party and new to the link,
   which it records as told: for every first-hand set and history. *)
THEOREM HonestDeltas == Spec => DeltasAreHonest
<1>1. Inv /\ CacheInv /\ [Next]_vars => [\A m \in Deltas' : Honest(m)]_vars
  BY HonestNext
<1> QED
  BY <1>1, CacheKept, PTL DEF Spec, DeltasAreHonest

(* What a list of entries and of ids can do to the told state. *)
LEMMA ToldByList ==
  ASSUME NEW told, NEW entries, NEW ids, NEW id \in PeerIds,
         Told(told, entries, ids)[id] # told[id]
  PROVE  \/ Told(told, entries, ids)[id] = None /\ id \in ids
         \/ \E e \in entries : /\ e.peer_id = id
                             /\ Told(told, entries, ids)[id] = fingerprint_hash(e)
<1> DEFINE sent == {e.peer_id : e \in entries}
           pick == CHOOSE e \in entries : e.peer_id = id
<1>1. CASE id \in ids
  BY <1>1 DEF Told
<1>2. CASE id \notin ids /\ id \in sent
  <2>1. pick \in entries /\ pick.peer_id = id
    BY <1>2
  <2>2. Told(told, entries, ids)[id] = fingerprint_hash(pick)
    BY <1>2 DEF Told
  <2> QED
    BY <2>1, <2>2
<1>3. CASE id \notin ids /\ id \notin sent
  BY <1>3 DEF Told
<1> QED
  BY <1>1, <1>2, <1>3

LEMMA CarriedNext ==
  ASSUME Inv, [Next]_vars, NEW p \in Keys(links'), NEW id \in PeerIds,
         links'[p].told[id] # Link(p).told[id]
  PROVE  \E m \in out'.sent : m.to = p /\ Carries(m, id)
<1>1. ~QuietSteps
  BY DEF QuietSteps, QuietStep, SameSender, SenderBackedOff
<1>2. ~(p \in Keys(links) /\ links'[p] = links[p])
  BY DEF Link, Keys
<1>3. ASSUME NEW q \in Speaking, link_up(q)
      PROVE  \E m \in out'.sent : m.to = p /\ Carries(m, id)
  <2>1. q = p /\ p \in Partners
    BY <1>2, <1>3 DEF link_up, Keys, Inv, TypeOK
  <2> DEFINE m == [to |-> p, type |-> "pex_snapshot", peers |-> Snapshot(p)]
  <2>2. m \in out'.sent
    BY <1>3, <2>1 DEF link_up, Quiet
  <2>3. links'[p].told = Told(Link(p).told, Snapshot(p), {})
    BY <1>3, <2>1, LinkInState DEF link_up, LinkState, Inv, TypeOK
  <2>4. \E e \in Snapshot(p) : e.peer_id = id /\ links'[p].told[id] = fingerprint_hash(e)
    BY <2>3, ToldByList
  <2>5. Carries(m, id)
    BY <2>4 DEF Carries
  <2> QED
    BY <2>2, <2>5
<1>4. CASE tick
  <2>1. p \in Sending
    BY <1>2, <1>4, TickSends
  <2>2. PICK dropped \in SUBSET PeerIds, jitter \in JitterSamples :
            /\ links'[p] = AfterDelta(p, dropped, jitter)
            /\ [to |-> p, type |-> "pex_delta", added |-> Added(p), dropped |-> dropped]
                   \in out'.sent
    BY <1>4, <2>1, TickSends
  <2> DEFINE m == [to |-> p, type |-> "pex_delta", added |-> Added(p), dropped |-> dropped]
  <2>3. links[p] = Link(p) /\ Link(p) \in LinkState
    BY <2>1, LinkInState DEF Sending, Due, Keys, Link, Inv, TypeOK
  <2>4. links'[p].told = Told(Link(p).told, Added(p), dropped)
    BY <2>2, <2>3 DEF AfterDelta, LinkState
  <2>5. \/ links'[p].told[id] = None /\ id \in dropped
        \/ \E e \in Added(p) : e.peer_id = id /\ links'[p].told[id] = fingerprint_hash(e)
    BY <2>4, ToldByList
  <2>6. Carries(m, id)
    BY <2>5 DEF Carries
  <2> QED
    BY <2>2, <2>6
<1> QED
  BY <1>1, <1>3, <1>4, CallSteps

(* What a link counts as told or withdrawn has left in a message of the same
   call: for every list length, byte budget, first-hand set and history. *)
THEOREM OnlySentIsTold == Spec => ToldIsSent
<1>1. Inv /\ [Next]_vars =>
        [\A p \in Keys(links') : \A id \in PeerIds :
            links'[p].told[id] # Link(p).told[id] =>
                \E m \in out'.sent : m.to = p /\ Carries(m, id)]_vars
  BY CarriedNext
<1> QED
  BY <1>1, Invariance, PTL DEF Spec, ToldIsSent

-----------------------------------------------------------------------------
(* Caps.  A list is ordered by Before, which is total where no two entries *)
(* are about one peer.                                                     *)

OnePerPeer(S) == S \subseteq Entry /\ \A x, y \in S : x.peer_id = y.peer_id => x = y

LEMMA BeforeOrders ==
  ASSUME NEW S, OnePerPeer(S)
  PROVE  /\ \A x, y \in S : x = y \/ Before(x, y) \/ Before(y, x)
         /\ \A x \in S : ~Before(x, x)
         /\ \A x, y, z \in S : Before(x, y) /\ Before(y, z) => Before(x, z)
<1>1. \A x \in S : x.last_seen \in Nat /\ x.peer_id \in Nat
  BY EntryAssumption DEF OnePerPeer, Entry, PeerIds
<1> QED
  BY <1>1 DEF OnePerPeer, Before

HasLast(S) == \E e \in S : \A x \in S : x = e \/ Before(x, e)

LEMMA LastEntry ==
  ASSUME NEW S, IsFiniteSet(S), OnePerPeer(S), S # {}
  PROVE  HasLast(S)
<1> DEFINE Fails == {n \in Nat : \E T \in SUBSET S : Cardinality(T) = n /\ T # {} /\ ~HasLast(T)}
<1>1. SUFFICES ASSUME Fails # {} PROVE FALSE
  <2>1. Cardinality(S) \in Nat
    BY FS_CardinalityType
  <2> QED
    BY <1>1, <2>1
<1>2. PICK n \in Fails : \A m \in Fails : n <= m
  <2>1. Fails \in SUBSET Nat
    OBVIOUS
  <2> QED
    BY <1>1, <2>1, LeastNat
<1>3. PICK T \in SUBSET S : Cardinality(T) = n /\ T # {} /\ ~HasLast(T)
  BY <1>2
<1>4. PICK t \in T : TRUE
  BY <1>3
<1> DEFINE U == T \ {t}
<1>5. U # {} => HasLast(U)
  <2>1. IsFiniteSet(T) /\ n \in Nat
    BY <1>2, FS_Subset
  <2>2. Cardinality(U) = n - 1 /\ IsFiniteSet(U)
    BY <2>1, <1>3, <1>4, FS_RemoveElement
  <2>3. Cardinality(U) \in Nat /\ ~(n <= Cardinality(U)) /\ U \in SUBSET S
    BY <2>1, <2>2, FS_CardinalityType
  <2> HIDE DEF U, Fails
  <2>4. Cardinality(U) \notin Fails
    BY <1>2, <2>3
  <2> QED
    BY <2>3, <2>4 DEF Fails
<1>6. CASE U = {}
  <2>1. \A x \in T : x = t
    BY <1>6
  <2> QED
    BY <1>3, <1>4, <2>1 DEF HasLast
<1>7. CASE U # {}
  <2>1. PICK e \in U : \A x \in U : x = e \/ Before(x, e)
    BY <1>5, <1>7 DEF HasLast
  <2>2. e \in T /\ t \in T /\ e \in S /\ t \in S /\ \A x \in T : x \in S /\ (x = t \/ x \in U)
    BY <2>1, <1>4
  <2>3. CASE Before(t, e)
    <3>1. \A x \in T : x = e \/ Before(x, e)
      BY <2>1, <2>2, <2>3
    <3> QED
      BY <3>1, <2>2, <1>3 DEF HasLast
  <2>4. CASE Before(e, t) \/ e = t
    <3>1. \A x \in T : x = t \/ Before(x, t)
      BY <2>1, <2>2, <2>4, BeforeOrders
    <3> QED
      BY <3>1, <2>2, <1>3 DEF HasLast
  <2> QED
    BY <2>2, <2>3, <2>4, BeforeOrders
<1> QED
  BY <1>6, <1>7

(* The first k entries are at most k. *)
LEMMA FreshestFew ==
  ASSUME NEW S, IsFiniteSet(S), OnePerPeer(S), NEW k \in Nat
  PROVE  /\ Freshest(S, k) \subseteq S /\ IsFiniteSet(Freshest(S, k))
         /\ Cardinality(Freshest(S, k)) <= k
<1> DEFINE F == Freshest(S, k)
<1>1. F \subseteq S /\ IsFiniteSet(F) /\ OnePerPeer(F)
  <2>1. F \subseteq S
    BY DEF Freshest
  <2> HIDE DEF F
  <2> QED
    BY <2>1, FS_Subset DEF OnePerPeer
<1>2. CASE F = {}
  BY <1>1, <1>2, FS_EmptySet
<1>3. CASE F # {}
  <2>1. PICK e \in F : \A x \in F : x = e \/ Before(x, e)
    <3> HIDE DEF F
    <3> QED
      BY <1>1, <1>3, LastEntry DEF HasLast
  <2> DEFINE B == {x \in S : Before(x, e)}
  <2>2. Cardinality(B) < k
    BY <2>1 DEF Freshest
  <2>3. F \ {e} \subseteq B
    BY <1>1, <2>1
  <2> HIDE DEF F
  <2>4. IsFiniteSet(B)
    BY FS_Subset
  <2> HIDE DEF B
  <2>5. Cardinality(F \ {e}) <= Cardinality(B) /\ Cardinality(B) \in Nat
    BY <2>3, <2>4, FS_Subset, FS_CardinalityType
  <2>6. Cardinality(F \ {e}) = Cardinality(F) - 1 /\ Cardinality(F) \in Nat
    BY <1>1, <2>1, FS_RemoveElement, FS_CardinalityType
  <2>7. Cardinality(F) <= k
    BY <2>2, <2>5, <2>6
  <2> QED
    BY <1>1, <2>7 DEF F
<1> QED
  BY <1>2, <1>3

-----------------------------------------------------------------------------
(* The bytes of a list are the sum of what its entries encode to.          *)

Weight(e) == EncodedSize[e.content]

Some(S) == CHOOSE x \in S : TRUE

SizeStep(g, s) == IF s = {} THEN 0 ELSE Weight(Some(s)) + g[s \ {Some(s)}]

IsSize(S, g) == g = [s \in SUBSET S |-> SizeStep(g, s)]

Sized(S) == \E g \in [SUBSET S -> Nat] : IsSize(S, g)

LEMMA SizesAgree ==
  ASSUME NEW S, NEW T, NEW g, NEW h, IsSize(S, g), IsSize(T, h),
         NEW U, U \subseteq S, U \subseteq T, IsFiniteSet(U)
  PROVE  g[U] = h[U]
<1> DEFINE Fails == {n \in Nat : \E V \in SUBSET U : Cardinality(V) = n /\ g[V] # h[V]}
<1>1. SUFFICES ASSUME Fails # {} PROVE FALSE
  <2>1. Cardinality(U) \in Nat
    BY FS_CardinalityType
  <2> QED
    BY <1>1, <2>1
<1>2. PICK n \in Fails : \A m \in Fails : n <= m
  <2>1. Fails \in SUBSET Nat
    OBVIOUS
  <2> QED
    BY <1>1, <2>1, LeastNat
<1>3. PICK V \in SUBSET U : Cardinality(V) = n /\ g[V] # h[V]
  BY <1>2
<1>4. g[V] = SizeStep(g, V) /\ h[V] = SizeStep(h, V)
  BY DEF IsSize
<1>5. V # {}
  BY <1>3, <1>4 DEF SizeStep
<1> DEFINE x == Some(V)
           W == V \ {x}
<1>6. x \in V
  BY <1>5 DEF Some
<1>7. Cardinality(W) \in Nat /\ ~(n <= Cardinality(W)) /\ W \in SUBSET U
  <2>1. IsFiniteSet(V) /\ n \in Nat
    BY <1>2, FS_Subset
  <2>2. Cardinality(W) = n - 1 /\ IsFiniteSet(W)
    BY <2>1, <1>3, <1>6, FS_RemoveElement
  <2> QED
    BY <2>1, <2>2, FS_CardinalityType
<1>8. g[W] = h[W]
  <2> HIDE DEF W, x, Fails
  <2>1. Cardinality(W) \notin Fails
    BY <1>2, <1>7
  <2> QED
    BY <1>7, <2>1 DEF Fails
<1> QED
  BY <1>3, <1>4, <1>5, <1>8 DEF SizeStep

LEMMA SizeExists ==
  ASSUME NEW S \in SUBSET Entry, IsFiniteSet(S)
  PROVE  Sized(S)
<1> DEFINE Fails == {n \in Nat : \E T \in SUBSET S : Cardinality(T) = n /\ ~Sized(T)}
<1>1. SUFFICES ASSUME Fails # {} PROVE FALSE
  <2>1. Cardinality(S) \in Nat
    BY FS_CardinalityType
  <2> QED
    BY <1>1, <2>1
<1>2. PICK n \in Fails : \A m \in Fails : n <= m
  <2>1. Fails \in SUBSET Nat
    OBVIOUS
  <2> QED
    BY <1>1, <2>1, LeastNat
<1>3. PICK T \in SUBSET S : Cardinality(T) = n /\ ~Sized(T)
  BY <1>2
<1>4. IsFiniteSet(T) /\ n \in Nat /\ T \subseteq Entry
  BY <1>2, FS_Subset
<1>5. ASSUME NEW U \in SUBSET T, U # T PROVE Sized(U) /\ IsFiniteSet(U)
  <2>1. IsFiniteSet(U) /\ Cardinality(U) <= n /\ Cardinality(U) # n
    BY <1>3, <1>4, <1>5, FS_Subset
  <2>2. Cardinality(U) \in Nat /\ ~(n <= Cardinality(U)) /\ U \in SUBSET S
    BY <1>4, <2>1, FS_CardinalityType
  <2> HIDE DEF Fails
  <2>3. Cardinality(U) \notin Fails
    BY <1>2, <2>2
  <2> QED
    BY <2>1, <2>2, <2>3 DEF Fails
<1> DEFINE G(U) == CHOOSE g \in [SUBSET U -> Nat] : IsSize(U, g)
           V(s) == IF s = {} THEN 0 ELSE Weight(Some(s)) + G(s \ {Some(s)})[s \ {Some(s)}]
           f == [s \in SUBSET T |-> V(s)]
<1>6. ASSUME NEW U \in SUBSET T, U # T PROVE G(U) \in [SUBSET U -> Nat] /\ IsSize(U, G(U))
  BY <1>5, <1>6 DEF Sized
<1> HIDE DEF G
<1>7. ASSUME NEW s \in SUBSET T, s # {}
      PROVE  Some(s) \in s /\ s \ {Some(s)} \in SUBSET T /\ s \ {Some(s)} # T
  <2>1. Some(s) \in s
    BY <1>7 DEF Some
  <2> QED
    BY <2>1
<1>8. ASSUME NEW s \in SUBSET T PROVE V(s) \in Nat
  <2>1. CASE s = {}
    BY <2>1
  <2>2. CASE s # {}
    <3>1. Weight(Some(s)) \in Nat
      BY <1>4, <1>7, <2>2, EntryAssumption DEF Weight, Entry
    <3>2. G(s \ {Some(s)})[s \ {Some(s)}] \in Nat
      <4> DEFINE r == s \ {Some(s)}
      <4>1. r \in SUBSET T /\ r # T
        BY <1>7, <2>2
      <4> HIDE DEF r
      <4>2. G(r) \in [SUBSET r -> Nat]
        BY <1>6, <4>1
      <4>3. G(r)[r] \in Nat
        BY <4>2
      <4> QED
        BY <4>3 DEF r
    <3> QED
      BY <2>2, <3>1, <3>2
  <2> QED
    BY <2>1, <2>2
<1>9. ASSUME NEW s \in SUBSET T, s # T PROVE V(s) = G(s)[s]
  <2>1. G(s)[s] = SizeStep(G(s), s)
    BY <1>6, <1>9 DEF IsSize
  <2>2. CASE s = {}
    BY <2>1, <2>2 DEF SizeStep
  <2>3. CASE s # {}
    <3> DEFINE r == s \ {Some(s)}
    <3>1. r \in SUBSET T /\ r # T /\ r \subseteq s
      BY <1>7, <2>3
    <3>2. IsFiniteSet(r) /\ IsSize(r, G(r)) /\ IsSize(s, G(s))
      BY <1>5, <1>6, <1>9, <3>1
    <3> HIDE DEF r
    <3>3. G(s)[r] = G(r)[r]
      BY <3>1, <3>2, SizesAgree
    <3> QED
      BY <2>1, <2>3, <3>3 DEF SizeStep, r
  <2> QED
    BY <2>2, <2>3
<1>10. \A s \in SUBSET T : f[s] = SizeStep(f, s)
  <2> TAKE s \in SUBSET T
  <2>1. CASE s = {}
    BY <2>1 DEF SizeStep
  <2>2. CASE s # {}
    <3> DEFINE r == s \ {Some(s)}
    <3>1. r \in SUBSET T /\ r # T
      BY <1>7, <2>2
    <3>2. f[r] = G(r)[r]
      BY <1>9, <3>1
    <3>3. f[s] = Weight(Some(s)) + G(r)[r]
      BY <2>2
    <3> HIDE DEF f, V
    <3> QED
      BY <2>2, <3>2, <3>3 DEF SizeStep
  <2> QED
    BY <2>1, <2>2
<1>11. f \in [SUBSET T -> Nat] /\ f = [s \in SUBSET T |-> f[s]]
  BY <1>8
<1> HIDE DEF f, V
<1>12. f = [s \in SUBSET T |-> SizeStep(f, s)]
  BY <1>10, <1>11
<1> QED
  BY <1>3, <1>11, <1>12 DEF Sized, IsSize

(* The bytes of the entries alone, and what EncodedBytes is of them. *)
Size(S) == EncodedBytes(S) - EnvelopeSize

LEMMA SizeIs ==
  ASSUME NEW S, NEW g \in [SUBSET S -> Nat], IsSize(S, g), IsFiniteSet(S)
  PROVE  EncodedBytes(S) = EnvelopeSize + g[S]
<1> DEFINE h == CHOOSE h : h = [s \in SUBSET S |-> SizeStep(h, s)]
<1>1. g = [s \in SUBSET S |-> SizeStep(g, s)]
  BY DEF IsSize
<1>2. IsSize(S, h)
  BY <1>1 DEF IsSize
<1>3. EncodedBytes(S) = EnvelopeSize + h[S]
  BY DEF EncodedBytes, MapThenSumSet, MapThenFoldSet, SizeStep, Some, Weight
<1> HIDE DEF h
<1>4. h[S] = g[S]
  BY <1>2, SizesAgree
<1> QED
  BY <1>3, <1>4

LEMMA SizeParts ==
  ASSUME NEW S \in SUBSET Entry, IsFiniteSet(S)
  PROVE  /\ EncodedBytes(S) \in Nat /\ EncodedBytes({}) = EnvelopeSize
         /\ S # {} => EncodedBytes(S) = Weight(Some(S)) + EncodedBytes(S \ {Some(S)})
<1>1. ASSUME NEW T \in SUBSET S
      PROVE  \E g \in [SUBSET T -> Nat] :
                 /\ g[T] \in Nat /\ EncodedBytes(T) = EnvelopeSize + g[T] /\ IsSize(T, g)
  <2>1. IsFiniteSet(T)
    BY FS_Subset
  <2>2. PICK g \in [SUBSET T -> Nat] : IsSize(T, g)
    BY <2>1, SizeExists DEF Sized
  <2>3. EncodedBytes(T) = EnvelopeSize + g[T] /\ g[T] \in Nat
    BY <2>1, <2>2, SizeIs
  <2> QED
    BY <2>2, <2>3
<1>2. EnvelopeSize \in Nat
  BY OutboundAssumption
<1>3. PICK g \in [SUBSET S -> Nat] :
          g[S] \in Nat /\ EncodedBytes(S) = EnvelopeSize + g[S] /\ IsSize(S, g)
  BY <1>1
<1>4. EncodedBytes({}) = EnvelopeSize
  <2>1. {} \in SUBSET S
    OBVIOUS
  <2>2. PICK h \in [SUBSET {} -> Nat] :
            h[{}] \in Nat /\ EncodedBytes({}) = EnvelopeSize + h[{}] /\ IsSize({}, h)
    BY <1>1, <2>1
  <2>3. h[{}] = SizeStep(h, {})
    BY <2>2 DEF IsSize
  <2> QED
    BY <1>2, <2>2, <2>3 DEF SizeStep
<1>5. ASSUME S # {} PROVE EncodedBytes(S) = Weight(Some(S)) + EncodedBytes(S \ {Some(S)})
  <2> DEFINE r == S \ {Some(S)}
  <2>1. r \in SUBSET S /\ Some(S) \in S
    BY <1>5 DEF Some
  <2>2. g[S] = Weight(Some(S)) + g[r]
    BY <1>3, <1>5 DEF IsSize, SizeStep
  <2> HIDE DEF r
  <2>3. PICK h \in [SUBSET r -> Nat] :
            h[r] \in Nat /\ EncodedBytes(r) = EnvelopeSize + h[r] /\ IsSize(r, h)
    BY <1>1, <2>1
  <2>4. g[r] = h[r]
    <3>1. IsFiniteSet(r)
      BY <2>1, FS_Subset
    <3> QED
      BY <1>3, <2>1, <2>3, <3>1, SizesAgree
  <2>5. Weight(Some(S)) \in Nat
    BY <2>1, EntryAssumption DEF Weight, Entry
  <2>6. EncodedBytes(S) = Weight(Some(S)) + EncodedBytes(r)
    BY <1>2, <1>3, <2>2, <2>3, <2>4, <2>5
  <2> QED
    BY <2>6 DEF r
<1> QED
  BY <1>2, <1>3, <1>4, <1>5

(* The order of summation does not matter. *)
LEMMA SizeOfAny ==
  ASSUME NEW S \in SUBSET Entry, IsFiniteSet(S), NEW e \in S
  PROVE  EncodedBytes(S) = Weight(e) + EncodedBytes(S \ {e})
<1> DEFINE Wrong(T) == \E x \in T : EncodedBytes(T) # Weight(x) + EncodedBytes(T \ {x})
           Fails == {n \in Nat : \E T \in SUBSET S : Cardinality(T) = n /\ Wrong(T)}
<1>1. SUFFICES ASSUME Fails # {} PROVE FALSE
  <2>1. Cardinality(S) \in Nat
    BY FS_CardinalityType
  <2> QED
    BY <1>1, <2>1
<1>2. PICK n \in Fails : \A m \in Fails : n <= m
  <2>1. Fails \in SUBSET Nat
    OBVIOUS
  <2> QED
    BY <1>1, <2>1, LeastNat
<1>a. PICK T \in SUBSET S : Cardinality(T) = n /\ Wrong(T)
  BY <1>2
<1>3. PICK x \in T : Cardinality(T) = n /\ EncodedBytes(T) # Weight(x) + EncodedBytes(T \ {x})
  BY <1>a
<1> DEFINE c == Some(T)
           U == T \ {x}
           V == T \ {c}
<1>4. T \in SUBSET Entry /\ IsFiniteSet(T) /\ n \in Nat
  BY <1>2, FS_Subset
<1>5. c \in T
  BY DEF Some
<1>6. EncodedBytes(T) = Weight(c) + EncodedBytes(V)
  BY <1>4, <1>5, SizeParts
<1>7. c # x
  BY <1>3, <1>6
<1>8. ASSUME NEW y \in T, NEW z \in T, y # z
      PROVE  EncodedBytes(T \ {y}) = Weight(z) + EncodedBytes((T \ {y}) \ {z})
  <2> DEFINE R == T \ {y}
  <2>1. IsFiniteSet(R) /\ Cardinality(R) = n - 1
    BY <1>3, <1>4, FS_RemoveElement
  <2>2. Cardinality(R) \in Nat /\ ~(n <= Cardinality(R)) /\ R \in SUBSET S /\ z \in R
    BY <1>4, <1>8, <2>1, FS_CardinalityType
  <2> HIDE DEF R, Fails
  <2>3. Cardinality(R) \notin Fails
    BY <1>2, <2>2
  <2>4. EncodedBytes(R) = Weight(z) + EncodedBytes(R \ {z})
    BY <2>2, <2>3 DEF Fails
  <2> QED
    BY <2>4 DEF R
<1>9. EncodedBytes(U) = Weight(c) + EncodedBytes(U \ {c})
  BY <1>5, <1>7, <1>8
<1>10. EncodedBytes(V) = Weight(x) + EncodedBytes(V \ {x})
  BY <1>5, <1>7, <1>8
<1>11. U \ {c} = V \ {x}
  OBVIOUS
<1>12. /\ EncodedBytes(U \ {c}) \in Nat /\ EncodedBytes(U) \in Nat /\ EncodedBytes(V) \in Nat
       /\ Weight(x) \in Nat /\ Weight(c) \in Nat
  <2>1. \A R \in SUBSET T : IsFiniteSet(R) /\ R \in SUBSET Entry
    BY <1>4, FS_Subset
  <2>2. \A R \in SUBSET T : EncodedBytes(R) \in Nat
    BY <2>1, SizeParts
  <2>3. \A y \in T : Weight(y) \in Nat
    BY <1>4, EntryAssumption DEF Weight, Entry
  <2> QED
    BY <2>2, <2>3, <1>5
<1> HIDE DEF c, U, V
<1>13. EncodedBytes(T) = Weight(x) + EncodedBytes(U)
  BY <1>6, <1>9, <1>10, <1>11, <1>12
<1> QED
  BY <1>3, <1>13 DEF U

(* Fewer entries, fewer bytes. *)
LEMMA SizeGrows ==
  ASSUME NEW S \in SUBSET Entry, IsFiniteSet(S), NEW T \in SUBSET S
  PROVE  EncodedBytes(T) <= EncodedBytes(S)
<1> DEFINE Fails == {n \in Nat : \E U \in SUBSET S :
                        /\ T \subseteq U /\ Cardinality(U) = n
                        /\ ~(EncodedBytes(T) <= EncodedBytes(U))}
<1>1. SUFFICES ASSUME Fails # {} PROVE FALSE
  <2>1. Cardinality(S) \in Nat
    BY FS_CardinalityType
  <2> QED
    BY <1>1, <2>1
<1>2. PICK n \in Fails : \A m \in Fails : n <= m
  <2>1. Fails \in SUBSET Nat
    OBVIOUS
  <2> QED
    BY <1>1, <2>1, LeastNat
<1>3. PICK U \in SUBSET S : /\ T \subseteq U /\ Cardinality(U) = n
                            /\ ~(EncodedBytes(T) <= EncodedBytes(U))
  BY <1>2
<1>4. U \in SUBSET Entry /\ IsFiniteSet(U) /\ n \in Nat
  BY <1>2, FS_Subset
<1>5. EncodedBytes(U) \in Nat /\ EncodedBytes(T) \in Nat
  <2>1. T \in SUBSET Entry /\ IsFiniteSet(T)
    BY FS_Subset
  <2> QED
    BY <1>4, <2>1, SizeParts
<1>6. PICK x \in U : x \notin T
  <2>1. T # U
    BY <1>3, <1>5
  <2> QED
    BY <1>3, <2>1
<1> DEFINE R == U \ {x}
<1>7. IsFiniteSet(R) /\ Cardinality(R) = n - 1 /\ R \in SUBSET S /\ T \subseteq R
      /\ R \in SUBSET Entry
  BY <1>3, <1>4, <1>6, FS_RemoveElement
<1>8. EncodedBytes(U) = Weight(x) + EncodedBytes(R)
  BY <1>4, SizeOfAny
<1> HIDE DEF R
<1>9. EncodedBytes(T) <= EncodedBytes(R)
  <2>1. Cardinality(R) \in Nat /\ ~(n <= Cardinality(R))
    BY <1>4, <1>7, FS_CardinalityType
  <2> HIDE DEF Fails
  <2>2. Cardinality(R) \notin Fails
    BY <1>2, <2>1
  <2> QED
    BY <1>7, <2>1, <2>2 DEF Fails
<1>10. EncodedBytes(R) \in Nat /\ Weight(x) \in Nat
  BY <1>4, <1>7, SizeParts, EntryAssumption DEF Weight, Entry
<1> QED
  BY <1>3, <1>5, <1>8, <1>9, <1>10

(* What is left of a list within the frame's bytes is within them. *)
LEMMA TrimFits ==
  ASSUME NEW S, IsFiniteSet(S), OnePerPeer(S)
  PROVE  /\ trim_to_frame_budget(S) \subseteq S
         /\ EncodedBytes(trim_to_frame_budget(S)) <= PEX_MAX_FRAME
<1> DEFINE T == trim_to_frame_budget(S)
           Upto(e) == {x \in S : x = e \/ Before(x, e)}
<1>1. T \subseteq S /\ \A e \in T : EncodedBytes(Upto(e)) <= PEX_MAX_FRAME
  BY DEF trim_to_frame_budget
<1> HIDE DEF T
<1>2. IsFiniteSet(T) /\ OnePerPeer(T) /\ S \in SUBSET Entry
  BY <1>1, FS_Subset DEF OnePerPeer
<1>3. CASE T = {}
  <2>1. EncodedBytes({}) = EnvelopeSize
    BY <1>2, SizeParts
  <2> QED
    BY <1>1, <1>3, <2>1, OutboundAssumption DEF T
<1>4. CASE T # {}
  <2>1. PICK e \in T : \A x \in T : x = e \/ Before(x, e)
    BY <1>2, <1>4, LastEntry DEF HasLast
  <2>2. T \subseteq Upto(e) /\ Upto(e) \subseteq S
    BY <1>1, <2>1
  <2>3. EncodedBytes(Upto(e)) <= PEX_MAX_FRAME
    BY <1>1, <2>1
  <2> HIDE DEF Upto
  <2>4. Upto(e) \in SUBSET Entry /\ IsFiniteSet(Upto(e))
    BY <1>2, <2>2, FS_Subset
  <2>5. EncodedBytes(T) <= EncodedBytes(Upto(e))
    BY <2>2, <2>4, SizeGrows
  <2>6. EncodedBytes(T) \in Nat /\ EncodedBytes(Upto(e)) \in Nat
    BY <1>1, <1>2, <2>4, SizeParts
  <2>7. EncodedBytes(T) <= PEX_MAX_FRAME
    BY <2>3, <2>5, <2>6, OutboundAssumption
  <2> QED
    BY <1>1, <2>7 DEF T
<1> QED
  BY <1>3, <1>4

LEMMA AdvertisedSet ==
  ASSUME Inv, CacheInv, NEW p
  PROVE  IsFiniteSet(advertisable_for(p)) /\ OnePerPeer(advertisable_for(p))
<1> DEFINE S == advertisable_for(p)
           g == [e \in S |-> e.peer_id]
<1>1. \A e \in S : e.peer_id \in Keys(known) /\ e = known[e.peer_id]
  BY AdvertisedIsKnown
<1>2. Keys(known) \subseteq PeerIds /\ \A id \in Keys(known) : known[id] \in Entry
  BY DEF Inv, TypeOK, Keys, Option
<1> HIDE DEF S
<1>3. OnePerPeer(S)
  BY <1>1, <1>2 DEF OnePerPeer
<1>4. IsFiniteSet(PeerIds)
  BY EntryAssumption, FS_AddElement DEF PeerIds
<1>5. g \in Injection(S, PeerIds)
  BY <1>1, <1>2 DEF Injection, IsInjective
<1>6. IsFiniteSet(S)
  BY <1>4, <1>5, FS_Injection
<1> QED
  BY <1>3, <1>6 DEF S

LEMMA SubsetOnePerPeer ==
  ASSUME NEW S, OnePerPeer(S), IsFiniteSet(S), NEW T \in SUBSET S
  PROVE  OnePerPeer(T) /\ IsFiniteSet(T)
BY FS_Subset DEF OnePerPeer

LEMMA SnapshotCapped ==
  ASSUME Inv, CacheInv, NEW p
  PROVE  Cardinality(Snapshot(p)) <= PEX_MAX_SNAPSHOT /\ EncodedBytes(Snapshot(p)) <= PEX_MAX_FRAME
<1> DEFINE F == Freshest(advertisable_for(p), PEX_MAX_SNAPSHOT)
           S == Snapshot(p)
<1>1. F \subseteq advertisable_for(p) /\ Cardinality(F) <= PEX_MAX_SNAPSHOT /\ IsFiniteSet(F)
  BY AdvertisedSet, FreshestFew, InboundAssumption
<1>2. OnePerPeer(F)
  BY <1>1, AdvertisedSet, SubsetOnePerPeer
<1> HIDE DEF F
<1>3. S \subseteq F /\ EncodedBytes(S) <= PEX_MAX_FRAME
  BY <1>1, <1>2, TrimFits DEF Snapshot, F
<1> HIDE DEF S
<1>4. Cardinality(S) <= Cardinality(F) /\ Cardinality(S) \in Nat /\ Cardinality(F) \in Nat
  BY <1>1, <1>3, FS_Subset, FS_CardinalityType
<1>5. Cardinality(S) <= PEX_MAX_SNAPSHOT
  BY <1>1, <1>4, InboundAssumption
<1> QED
  BY <1>3, <1>5 DEF S

LEMMA DeltaCapped ==
  ASSUME Inv, CacheInv, NEW p \in Keys(links), NEW dropped \in DroppedPicks(Gone(p))
  PROVE  Cardinality(Added(p)) <= PEX_MAX_ADDED /\ Cardinality(dropped) <= PEX_MAX_DROPPED
<1>1. Changed(p) \in SUBSET advertisable_for(p)
  BY DEF Changed
<1>2. Cardinality(Added(p)) <= PEX_MAX_ADDED
  BY <1>1, AdvertisedSet, SubsetOnePerPeer, FreshestFew, InboundAssumption DEF Added
<1>3. Cardinality(Gone(p)) \in Nat
  <2>1. IsFiniteSet(PeerIds)
    BY EntryAssumption, FS_AddElement DEF PeerIds
  <2>2. Gone(p) \subseteq PeerIds
    BY DEF Gone, Keys, Inv, TypeOK, Option, LinkState
  <2>3. IsFiniteSet(Gone(p))
    BY <2>1, <2>2, FS_Subset
  <2> QED
    BY <2>3, FS_CardinalityType
<1>4. Cardinality(dropped) <= PEX_MAX_DROPPED
  BY <1>3, InboundAssumption DEF DroppedPicks, Smaller
<1> QED
  BY <1>2, <1>4

LEMMA CappedNext ==
  ASSUME Inv, CacheInv, SentWithinCaps, [Next]_vars
  PROVE  SentWithinCaps'
<1>1. ASSUME out'.sent = {} PROVE SentWithinCaps'
  BY <1>1 DEF SentWithinCaps
<1>2. ASSUME NEW p, link_up(p) PROVE SentWithinCaps'
  <2> DEFINE S == Snapshot(p)
  <2>1. Cardinality(S) <= PEX_MAX_SNAPSHOT /\ EncodedBytes(S) <= PEX_MAX_FRAME
    BY SnapshotCapped
  <2> HIDE DEF S
  <2>2. out'.sent = {Handshake(p), [to |-> p, type |-> "pex_snapshot", peers |-> S]}
    BY <1>2 DEF link_up, Quiet, S
  <2>3. ASSUME NEW m \in out'.sent, m.type # "pex_handshake"
        PROVE  m.type = "pex_snapshot" /\ m.peers = S
    BY <2>2, <2>3 DEF Handshake
  <2> QED
    BY <2>1, <2>3 DEF SentWithinCaps
<1>3. CASE tick
  <2>1. PICK dropped \in [Sending -> SUBSET PeerIds] :
            /\ \A p \in Sending : dropped[p] \in DroppedPicks(Gone(p))
            /\ out' = [Quiet EXCEPT !.sent =
                          {[to |-> p, type |-> "pex_delta",
                            added |-> Added(p), dropped |-> dropped[p]] : p \in Sending}]
    BY <1>3 DEF tick
  <2>2. ASSUME NEW m \in out'.sent
        PROVE  /\ m.type = "pex_delta" /\ Cardinality(m.added) <= PEX_MAX_ADDED
               /\ Cardinality(m.dropped) <= PEX_MAX_DROPPED
    <3>1. PICK p \in Sending : m = [to |-> p, type |-> "pex_delta",
                                    added |-> Added(p), dropped |-> dropped[p]]
      BY <2>1 DEF Quiet
    <3>2. p \in Keys(links) /\ dropped[p] \in DroppedPicks(Gone(p))
      BY <2>1, <3>1 DEF Sending, Due
    <3>3. Cardinality(Added(p)) <= PEX_MAX_ADDED /\ Cardinality(dropped[p]) <= PEX_MAX_DROPPED
      BY <3>2, DeltaCapped
    <3> QED
      BY <3>1, <3>3
  <2> QED
    BY <2>2 DEF SentWithinCaps
<1>4. ASSUME NEW d \in ClockSteps, ClockMoves(d) PROVE SentWithinCaps'
  BY <1>1, <1>4 DEF ClockMoves, Quiet
<1>5. ASSUME NEW e \in FirstHand, upsert_known(e) \/ remove_known(e.peer_id)
      PROVE  SentWithinCaps'
  BY <1>1, <1>5 DEF upsert_known, remove_known, Quiet
<1>6. ASSUME NEW p \in Partners, link_down(p) PROVE SentWithinCaps'
  BY <1>1, <1>6 DEF link_down, Quiet
<1>7. ASSUME NEW p \in Partners, NEW m \in Inbox, on_message(p, m) PROVE SentWithinCaps'
  <2>1. out'.sent = {}
    <3>1. CASE OnMuted(p) \/ on_pex_error(p, m)
      BY <3>1 DEF OnMuted, on_pex_error, Quiet
    <3>2. CASE on_handshake(p, m)
      <4>1. ASSUME NEW code, strike(p, code) \/ mute_mismatch(p, code) PROVE out'.sent = {}
        BY <4>1 DEF strike, mute_mismatch, Quiet
      <4>2. ASSUME out' = Quiet PROVE out'.sent = {}
        BY <4>2 DEF Quiet
      <4>3. \/ strike(p, ProtocolViolation) \/ mute_mismatch(p, UnsupportedVersion)
            \/ mute_mismatch(p, NetworkMismatch) \/ out' = Quiet
        BY <3>2 DEF on_handshake
      <4> QED
        BY <4>1, <4>2, <4>3
    <3>3. CASE on_snapshot(p, m)
      BY <3>3 DEF on_snapshot, strike, Quiet
    <3>4. CASE on_delta(p, m)
      BY <3>4 DEF on_delta, strike, Quiet
    <3> QED
      BY <1>7, <3>1, <3>2, <3>3, <3>4 DEF on_message
  <2> QED
    BY <1>1, <2>1
<1>8. ASSUME NEW p \in Partners, NEW code \in Reported, record_violation(p, code)
      PROVE  SentWithinCaps'
  BY <1>1, <1>8 DEF record_violation, strike, Quiet
<1>9. CASE UNCHANGED vars
  BY <1>9 DEF vars, SentWithinCaps
<1> QED
  BY <1>2, <1>3, <1>4, <1>5, <1>6, <1>7, <1>8, <1>9, Zenon DEF Next

(* Every message that link_up and tick return keeps the caps on its entries,
   and a snapshot the bytes of a frame, for every first-hand set, contents and
   caps (engine.rs:202, 754, 780). *)
THEOREM SendsWithinCaps == Spec => []SentWithinCaps
<1>1. Init => SentWithinCaps
  BY DEF Init, SentWithinCaps, Quiet
<1>2. Inv /\ CacheInv /\ SentWithinCaps /\ [Next]_vars => SentWithinCaps'
  BY CappedNext
<1> QED
  BY <1>1, <1>2, CacheKept, PTL DEF Spec

===============================================================================
