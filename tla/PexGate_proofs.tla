----------------------------- MODULE PexGate_proofs ---------------------------
(***************************************************************************)
(* Proof that every incoming direction of the engine implements the        *)
(* abstract gate of PexGate, for any number of partners and any messages.  *)
(***************************************************************************)
EXTENDS PexEngine_proofs

(* The gate's state as a function of what the engine has for the link. *)
GateOf(l) == IF l = None THEN "Closed" ELSE IF l.muted THEN "Muted" ELSE l.phase
StrikesOf(l) == IF l = None THEN 0 ELSE l.strikes
HeardOf(l) == IF l = None THEN {} ELSE Keys(l.received)

SameGate(k, l) ==
    GateOf(l) = GateOf(k) /\ StrikesOf(l) = StrikesOf(k) /\ HeardOf(l) = HeardOf(k)

(* The step of the gate from k to l, one conjunction per action of PexGate. *)
Greets(k, l) ==
    /\ GateOf(k) \in {"Closed", "AwaitingHandshake"}
    /\ GateOf(l) = "AwaitingSnapshot"
    /\ StrikesOf(l) = StrikesOf(k) /\ HeardOf(l) = HeardOf(k)

SetsUp(k, l) ==
    /\ GateOf(k) = "Closed"
    /\ GateOf(l) = "AwaitingHandshake"
    /\ StrikesOf(l) = StrikesOf(k) /\ HeardOf(l) = HeardOf(k)

Hears(k, l) ==
    /\ GateOf(k) \in {"AwaitingSnapshot", "Streaming"}
    /\ GateOf(l) = "Streaming"
    /\ HeardOf(l) \in SUBSET PeerIds
    /\ StrikesOf(l) = StrikesOf(k)

Mismatches(k, l) ==
    /\ GateOf(k) \in {"Closed", "AwaitingHandshake"}
    /\ GateOf(l) = "Muted"
    /\ HeardOf(l) = {}
    /\ StrikesOf(l) = StrikesOf(k)

Strikes(k, l) ==
    /\ StrikesOf(l) = StrikesOf(k) + 1
    /\ \/ /\ StrikesOf(l) >= PEX_VIOLATION_LIMIT \/ GateOf(k) = "Muted"
          /\ GateOf(l) = "Muted"
          /\ HeardOf(l) = {}
       \/ /\ StrikesOf(l) < PEX_VIOLATION_LIMIT /\ GateOf(k) # "Muted"
          /\ GateOf(l) = IF GateOf(k) \in {"Closed", "AwaitingHandshake"}
                         THEN "AwaitingHandshake" ELSE GateOf(k)
          /\ HeardOf(l) = HeardOf(k)

GateStep(k, l) ==
    \/ SameGate(k, l) \/ SetsUp(k, l) \/ Greets(k, l) \/ Hears(k, l)
    \/ Mismatches(k, l) \/ Strikes(k, l) \/ l = None

-----------------------------------------------------------------------------
(* The step on the links is a step of the instance.                          *)

LEMMA GateRefines ==
  ASSUME NEW p \in Partners, GateStep(links[p], links'[p])
  PROVE  [Gate(p)!GateNext]_(Gate(p)!gateVars)
<1>1. /\ StrikesOf(links[p]) = Link(p).strikes
      /\ HeardOf(links[p]) = Keys(Link(p).received)
  BY DEF StrikesOf, HeardOf, Link, NewLink, Keys, Empty
<1>2. /\ StrikesOf(links'[p]) = Link(p)'.strikes
      /\ HeardOf(links'[p]) = Keys(Link(p)'.received)
  BY DEF StrikesOf, HeardOf, Link, NewLink, Keys, Empty
<1>3. CASE SameGate(links[p], links'[p])
  BY <1>1, <1>2, <1>3 DEF SameGate, GateOf, Gate!gateVars
<1>4. CASE SetsUp(links[p], links'[p])
  BY <1>1, <1>2, <1>4 DEF SetsUp, GateOf, Gate!GateNext, Gate!SetUp
<1>5. CASE Greets(links[p], links'[p])
  BY <1>1, <1>2, <1>5 DEF Greets, GateOf, Gate!GateNext, Gate!Greet, Gate!Ungreeted
<1>6. CASE Hears(links[p], links'[p])
  BY <1>1, <1>2, <1>6 DEF Hears, GateOf, Gate!GateNext, Gate!Hear
<1>7. CASE Mismatches(links[p], links'[p])
  BY <1>1, <1>2, <1>7 DEF Mismatches, GateOf, Gate!GateNext, Gate!Mismatch, Gate!Ungreeted
<1>8. CASE Strikes(links[p], links'[p])
  BY <1>1, <1>2, <1>8 DEF Strikes, GateOf, Gate!GateNext, Gate!Strike, Gate!Ungreeted
<1>9. CASE links'[p] = None
  BY <1>1, <1>2, <1>9 DEF GateOf, StrikesOf, HeardOf, Gate!GateNext, Gate!Close
<1> QED
  BY <1>3, <1>4, <1>5, <1>6, <1>7, <1>8, <1>9 DEF GateStep

-----------------------------------------------------------------------------
(* Every call makes such a step on every link.                               *)

GateSteps == \A q \in Partners : GateStep(links[q], links'[q])

LEMMA OneGateSteps ==
  ASSUME Inv, NEW p \in Partners, NEW l,
         links' = [links EXCEPT ![p] = l], GateStep(links[p], l)
  PROVE  GateSteps
<1>1. links'[p] = l /\ \A q \in Partners : q = p \/ links'[q] = links[q]
  BY DEF Inv, TypeOK
<1> QED
  BY <1>1 DEF GateSteps, GateStep, SameGate

LEMMA SameGateSteps ==
  ASSUME \A q \in Partners : links'[q] = links[q] \/ links'[q] = None
  PROVE  GateSteps
BY DEF GateSteps, GateStep, SameGate

(* The gate before a call on p: what Link(p) says, or closed. *)
LEMMA GateOfLink ==
  ASSUME Inv, NEW p \in Partners
  PROVE  /\ SoundLink(Link(p)) /\ Link(p) # None
         /\ StrikesOf(links[p]) = Link(p).strikes
         /\ HeardOf(links[p]) = Keys(Link(p).received)
         /\ \/ /\ links[p] = Link(p)
               /\ GateOf(links[p]) = GateOf(Link(p))
            \/ /\ GateOf(links[p]) = "Closed"
               /\ Link(p).phase = "AwaitingHandshake" /\ ~Link(p).muted
<1>1. SoundLink(Link(p)) /\ Link(p) # None
  BY LinkSound, OptionAssumption DEF SoundLink
<1>2. CASE links[p] = None
  BY <1>1, <1>2 DEF GateOf, StrikesOf, HeardOf, Link, NewLink, Keys, Empty
<1>3. CASE links[p] # None
  BY <1>1, <1>3 DEF GateOf, StrikesOf, HeardOf, Link
<1> QED
  BY <1>2, <1>3

(* A call that leaves the receiving side of a link alone, or creates it. *)
LEMMA SenderGateStep ==
  ASSUME Inv, NEW p \in Partners, NEW l, l # None,
         l.phase = Link(p).phase, l.muted = Link(p).muted,
         l.strikes = Link(p).strikes, l.received = Link(p).received
  PROVE  GateStep(links[p], l)
<1>1. /\ StrikesOf(l) = StrikesOf(links[p]) /\ HeardOf(l) = HeardOf(links[p])
      /\ GateOf(l) = GateOf(Link(p))
  BY GateOfLink DEF StrikesOf, HeardOf, GateOf
<1>2. CASE GateOf(links[p]) = GateOf(Link(p))
  BY <1>1, <1>2 DEF GateStep, SameGate
<1>3. CASE /\ GateOf(links[p]) = "Closed"
           /\ Link(p).phase = "AwaitingHandshake" /\ ~Link(p).muted
  BY <1>1, <1>3, GateOfLink DEF GateStep, SetsUp, GateOf
<1> QED
  BY <1>2, <1>3, GateOfLink

LEMMA StrikeGateSteps ==
  ASSUME Inv, NEW p \in Partners, NEW code, strike(p, code)
  PROVE  GateSteps
<1> DEFINE k == Link(p)
           l == struck(k)
<1>1. SoundLink(k) /\ k \in LinkState /\ l \in LinkState /\ l # None
  BY GateOfLink, StruckSound, OptionAssumption DEF SoundLink
<1>2. l.strikes = k.strikes + 1 /\ l.phase = k.phase
  BY <1>1 DEF struck, LinkState
<1>3. StrikesOf(l) = StrikesOf(links[p]) + 1
  BY <1>1, <1>2, GateOfLink DEF StrikesOf
<1>4. ASSUME k.muted \/ StrikeMutes(k) PROVE GateStep(links[p], l)
  <2>1. l.muted
    BY <1>1, <1>4 DEF struck, LinkState
  <2>2. Keys(l.received) = {}
    BY <2>1, StruckSound DEF SoundLink
  <2>3. GateOf(links[p]) = "Muted" \/ StrikesOf(l) >= PEX_VIOLATION_LIMIT
    BY <1>1, <1>2, <1>4, GateOfLink DEF StrikeMutes, StrikesOf, GateOf
  <2> QED
    BY <1>1, <1>3, <2>1, <2>2, <2>3 DEF GateOf, HeardOf, GateStep, Strikes
<1>5. ASSUME ~k.muted, ~StrikeMutes(k) PROVE GateStep(links[p], l)
  <2>1. ~l.muted /\ l.received = k.received
    BY <1>1, <1>5 DEF struck, LinkState
  <2>2. k.strikes \in Nat /\ k.phase \in RecvPhase
    BY <1>1 DEF LinkState
  <2>3. StrikesOf(l) < PEX_VIOLATION_LIMIT
    BY <1>1, <1>2, <1>5, <2>2, StateAssumption DEF StrikeMutes, StrikesOf
  <2>4. HeardOf(l) = HeardOf(links[p])
    BY <1>1, <2>1, GateOfLink DEF HeardOf
  <2>5. /\ GateOf(links[p]) # "Muted"
        /\ GateOf(l) = IF GateOf(links[p]) \in {"Closed", "AwaitingHandshake"}
                       THEN "AwaitingHandshake" ELSE GateOf(links[p])
    BY <1>1, <1>2, <1>5, <2>1, <2>2, GateOfLink DEF GateOf, RecvPhase
  <2> QED
    BY <1>3, <2>3, <2>4, <2>5 DEF GateStep, Strikes
<1>6. GateStep(links[p], l)
  BY <1>4, <1>5
<1>7. links' = [links EXCEPT ![p] = l]
  BY DEF strike
<1> HIDE DEF l
<1> QED
  BY <1>6, <1>7, OneGateSteps
LEMMA MismatchGateSteps ==
  ASSUME Inv, NEW p \in Partners, NEW code, mute_mismatch(p, code),
         Link(p).phase = "AwaitingHandshake", ~Link(p).muted
  PROVE  GateSteps
<1> DEFINE l == [Link(p) EXCEPT !.muted = TRUE, !.received = Empty(PeerIds)]
<1>1. Link(p) \in LinkState /\ Link(p) # None
  BY GateOfLink DEF SoundLink
<1>2. /\ l \in LinkState /\ l.muted /\ l.strikes = Link(p).strikes
      /\ l.received = Empty(PeerIds)
  BY <1>1 DEF LinkState, Empty, Option
<1>3. links' = [links EXCEPT ![p] = l]
  BY DEF mute_mismatch
<1> HIDE DEF l
<1>4. l # None /\ Keys(l.received) = {}
  BY <1>2, OptionAssumption DEF Keys, Empty
<1>5. GateOf(links[p]) \in {"Closed", "AwaitingHandshake"}
  BY <1>1, GateOfLink DEF GateOf
<1>6. Mismatches(links[p], l)
  BY <1>2, <1>4, <1>5, GateOfLink DEF Mismatches, GateOf, HeardOf, StrikesOf
<1> QED
  BY <1>3, <1>6, OneGateSteps DEF GateStep

LEMMA GreetGateSteps ==
  ASSUME Inv, NEW p \in Partners, NEW secs \in Nat,
         Link(p).phase = "AwaitingHandshake", ~Link(p).muted,
         links' = [links EXCEPT ![p] =
                      [Link(p) EXCEPT !.remote_declared_secs = secs, !.phase = "AwaitingSnapshot"]]
  PROVE  GateSteps
<1> DEFINE l == [Link(p) EXCEPT !.remote_declared_secs = secs, !.phase = "AwaitingSnapshot"]
<1>1. Link(p) \in LinkState /\ Link(p) # None
  BY GateOfLink DEF SoundLink
<1>2. /\ l \in LinkState /\ ~l.muted /\ l.strikes = Link(p).strikes
      /\ l.received = Link(p).received /\ l.phase = "AwaitingSnapshot"
  BY <1>1 DEF LinkState, Option, RecvPhase
<1> HIDE DEF l
<1>3. l # None
  BY <1>2, OptionAssumption
<1>4. GateOf(links[p]) \in {"Closed", "AwaitingHandshake"}
  BY <1>1, GateOfLink DEF GateOf
<1>5. Greets(links[p], l)
  BY <1>2, <1>3, <1>4, GateOfLink DEF Greets, GateOf, HeardOf, StrikesOf
<1> QED
  BY <1>5, OneGateSteps DEF GateStep, l

(* A snapshot or a delta that is accepted, whatever it says. *)
LEMMA HearGateSteps ==
  ASSUME Inv, NEW p \in Partners, NEW received \in [PeerIds -> Option(Nat)],
         Link(p).phase \in {"AwaitingSnapshot", "Streaming"}, ~Link(p).muted,
         NEW l \in LinkState, links' = [links EXCEPT ![p] = l],
         l.phase = "Streaming", l.muted = Link(p).muted,
         l.strikes = Link(p).strikes, l.received = received
  PROVE  GateSteps
<1>1. l # None /\ Keys(received) \in SUBSET PeerIds
  BY OptionAssumption DEF Keys
<1>2. GateOf(links[p]) \in {"AwaitingSnapshot", "Streaming"}
  BY GateOfLink DEF GateOf
<1>3. Hears(links[p], l)
  BY <1>1, <1>2, GateOfLink DEF Hears, GateOf, HeardOf, StrikesOf
<1> QED
  BY <1>3, OneGateSteps DEF GateStep
LEMMA HandshakeGateSteps ==
  ASSUME Inv, NEW p \in Partners, NEW m \in Message, m.type = "pex_handshake",
         ~Link(p).muted, on_handshake(p, m)
  PROVE  GateSteps
<1>1. CASE strike(p, ProtocolViolation)
  BY <1>1, StrikeGateSteps
<1>2. CASE /\ Link(p).phase = "AwaitingHandshake"
           /\ \E code : mute_mismatch(p, code)
  BY <1>2, MismatchGateSteps
<1>3. CASE /\ Link(p).phase = "AwaitingHandshake"
           /\ links' = [links EXCEPT ![p] =
                           [Link(p) EXCEPT !.remote_declared_secs = clamp_interval(m.interval),
                                           !.phase = "AwaitingSnapshot"]]
  <2>1. clamp_interval(m.interval) \in Nat
    BY ClampType DEF Message
  <2> QED
    BY <1>3, <2>1, GreetGateSteps
<1> QED
  BY <1>1, <1>2, <1>3, Zenon DEF on_handshake

LEMMA SnapshotGateSteps ==
  ASSUME Inv, NEW p \in Partners, NEW m \in Message, m.type = "pex_snapshot",
         ~Link(p).muted, on_snapshot(p, m)
  PROVE  GateSteps
<1>1. CASE \E code : strike(p, code)
  BY <1>1, StrikeGateSteps
<1> DEFINE acc == ingest_added(Link(p).received, p, m.peers, NowSecs)
           l == [Link(p) EXCEPT !.phase = "Streaming",
                                !.last_arrival_ms = now,
                                !.received = acc.received]
<1>2. CASE Link(p).phase = "AwaitingSnapshot" /\ links' = [links EXCEPT ![p] = l]
  <2>1. Link(p) \in LinkState
    BY LinkSound DEF SoundLink
  <2>2. Link(p).received \in [PeerIds -> Option(Nat)] /\ m.peers \in Seq(Entry)
    BY <2>1 DEF LinkState, Message
  <2>3. acc.received \in [PeerIds -> Option(Nat)]
    BY <2>2, IngestAddedFed DEF Inv, FedBy, Accumulators
  <2> HIDE DEF acc
  <2>4. /\ l \in LinkState /\ l.phase = "Streaming" /\ l.muted = Link(p).muted
        /\ l.strikes = Link(p).strikes /\ l.received = acc.received
    BY <2>1, <2>3 DEF LinkState, RecvPhase, Option, Inv, TypeOK
  <2> QED
    BY <1>2, <2>3, <2>4, HearGateSteps
<1> QED
  BY <1>1, <1>2, Zenon DEF on_snapshot

LEMMA DeltaGateSteps ==
  ASSUME Inv, NEW p \in Partners, NEW m \in Message, m.type = "pex_delta",
         ~Link(p).muted, on_delta(p, m)
  PROVE  GateSteps
<1>1. CASE \E code : strike(p, code)
  BY <1>1, StrikeGateSteps
<1> DEFINE acc == ingest_added(Link(p).received, p, m.added, NowSecs)
           ids == Attributed(acc.received, m.dropped)
           received == Remove(acc.received, ids)
           l == [Link(p) EXCEPT !.last_arrival_ms = now, !.received = received]
<1>2. CASE Link(p).phase = "Streaming" /\ links' = [links EXCEPT ![p] = l]
  <2>1. Link(p) \in LinkState
    BY LinkSound DEF SoundLink
  <2>2. Link(p).received \in [PeerIds -> Option(Nat)] /\ m.added \in Seq(Entry)
    BY <2>1 DEF LinkState, Message
  <2>3. acc.received \in [PeerIds -> Option(Nat)]
    BY <2>2, IngestAddedFed DEF Inv, FedBy, Accumulators
  <2>4. received \in [PeerIds -> Option(Nat)]
    BY <2>3, RemoveType
  <2> HIDE DEF received
  <2>5. /\ l \in LinkState /\ l.phase = "Streaming" /\ l.muted = Link(p).muted
        /\ l.strikes = Link(p).strikes /\ l.received = received
    BY <1>2, <2>1, <2>4 DEF LinkState, RecvPhase, Option, Inv, TypeOK
  <2> QED
    BY <1>2, <2>4, <2>5, HearGateSteps
<1> QED
  BY <1>1, <1>2, Zenon DEF on_delta

LEMMA ErrorGateSteps ==
  ASSUME Inv, NEW p \in Partners, NEW m, on_pex_error(p, m)
  PROVE  GateSteps
<1>1. PICK l \in {BackedOff(Link(p)), Link(p)} : links' = [links EXCEPT ![p] = l]
  BY DEF on_pex_error
<1>2. Link(p) \in LinkState /\ l \in LinkState
  BY GateOfLink, BackedOffType DEF SoundLink, Inv, TypeOK
<1>3. /\ l.phase = Link(p).phase /\ l.muted = Link(p).muted
      /\ l.strikes = Link(p).strikes /\ l.received = Link(p).received
  BY <1>2 DEF BackedOff, LinkState
<1>4. l # None
  BY <1>2, OptionAssumption
<1> QED
  BY <1>1, <1>3, <1>4, SenderGateStep, OneGateSteps

LEMMA MessageGateSteps ==
  ASSUME Inv, NEW p \in Partners, NEW m \in Inbox, on_message(p, m)
  PROVE  GateSteps
<1>1. m \in Message
  BY InboundAssumption
<1>2. CASE OnMuted(p)
  BY <1>2, SameGateSteps DEF OnMuted
<1>3. CASE on_pex_error(p, m)
  BY <1>3, ErrorGateSteps
<1>4. CASE ~Link(p).muted /\ m.type = "pex_handshake" /\ on_handshake(p, m)
  BY <1>1, <1>4, HandshakeGateSteps
<1>5. CASE ~Link(p).muted /\ m.type = "pex_snapshot" /\ on_snapshot(p, m)
  BY <1>1, <1>5, SnapshotGateSteps
<1>6. CASE ~Link(p).muted /\ m.type = "pex_delta" /\ on_delta(p, m)
  BY <1>1, <1>6, DeltaGateSteps
<1> QED
  BY <1>2, <1>3, <1>4, <1>5, <1>6, Zenon DEF on_message

LEMMA LinkUpGateSteps ==
  ASSUME Inv, NEW p \in Partners, link_up(p)
  PROVE  GateSteps
<1>1. PICK jitter \in Nat :
         links' = [links EXCEPT ![p] =
               [Link(p) EXCEPT !.self_interval_secs = Interval,
                               !.handshake_sent = TRUE,
                               !.told = Told(@, Snapshot(p), {}),
                               !.snapshot_sent = TRUE,
                               !.last_data_send_ms = now,
                               !.send_jitter_ms = jitter]]
  BY JitterAssumption DEF link_up, jitter_ms
<1> DEFINE l == [Link(p) EXCEPT !.self_interval_secs = Interval,
                               !.handshake_sent = TRUE,
                               !.told = Told(@, Snapshot(p), {}),
                               !.snapshot_sent = TRUE,
                               !.last_data_send_ms = now,
                               !.send_jitter_ms = jitter]
<1>2. Link(p) \in LinkState
  BY GateOfLink DEF SoundLink
<1>3. /\ l.phase = Link(p).phase /\ l.muted = Link(p).muted
      /\ l.strikes = Link(p).strikes /\ l.received = Link(p).received
  BY <1>2 DEF LinkState
<1>4. l # None
  <2>1. links'[p] = l
    BY <1>1 DEF Inv, TypeOK
  <2>2. l \in LinkState
    BY <1>2, SnapshotType, ToldType, StateAssumption DEF LinkState, Option, Inv, TypeOK
  <2> QED
    BY <2>2, OptionAssumption
<1> HIDE DEF l
<1>5. GateStep(links[p], l)
  BY <1>3, <1>4, SenderGateStep
<1> QED
  BY <1>1, <1>5, OneGateSteps DEF l

LEMMA TickGateSteps ==
  ASSUME Inv, tick
  PROVE  GateSteps
<1>1. PICK dropped \in [Sending -> SUBSET PeerIds], jitter \in [Sending -> JitterSamples] :
          links' = [p \in Partners |->
                       IF p \in Sending THEN AfterDelta(p, dropped[p], jitter[p]) ELSE links[p]]
  BY DEF tick
<1> SUFFICES ASSUME NEW q \in Partners PROVE GateStep(links[q], links'[q])
  BY DEF GateSteps
<1>2. CASE q \notin Sending
  BY <1>1, <1>2 DEF GateStep, SameGate
<1>3. CASE q \in Sending
  <2>1. links'[q] = AfterDelta(q, dropped[q], jitter[q]) /\ links'[q] # None
    <3>1. links'[q] = AfterDelta(q, dropped[q], jitter[q])
      BY <1>1, <1>3
    <3>2. q \in Keys(links) /\ jitter[q] \in Nat
      BY <1>3, JitterAssumption DEF Sending, Due
    <3>3. AfterDelta(q, dropped[q], jitter[q]) \in LinkState
      BY <3>2, AfterDeltaSound DEF SoundLink
    <3> QED
      BY <3>1, <3>3, OptionAssumption
  <2>2. links[q] = Link(q) /\ Link(q) \in LinkState
    BY <1>3, GateOfLink DEF Sending, Due, Keys, Link, SoundLink
  <2>3. /\ links'[q].phase = Link(q).phase /\ links'[q].muted = Link(q).muted
        /\ links'[q].strikes = Link(q).strikes /\ links'[q].received = Link(q).received
    BY <2>1, <2>2 DEF AfterDelta, LinkState
  <2> QED
    BY <2>1, <2>3, SenderGateStep
<1> QED
  BY <1>2, <1>3
LEMMA NextGateSteps ==
  ASSUME Inv, [Next]_vars
  PROVE  GateSteps
<1>1. ASSUME UNCHANGED links PROVE GateSteps
  BY <1>1, SameGateSteps
<1>2. ASSUME NEW p \in Partners, link_down(p) PROVE GateSteps
  BY <1>2, SameGateSteps DEF link_down, Remove, Inv, TypeOK
<1>3. ASSUME NEW d \in ClockSteps, ClockMoves(d) PROVE GateSteps
  BY <1>1, <1>3 DEF ClockMoves
<1>4. CASE \E e \in FirstHand : upsert_known(e) \/ remove_known(e.peer_id)
  BY <1>1, <1>4 DEF upsert_known, remove_known
<1>5. ASSUME NEW p \in Speaking, link_up(p) PROVE GateSteps
  BY <1>5, LinkUpGateSteps, EngineAssumption
<1>6. ASSUME NEW p \in Partners, NEW m \in Inbox, on_message(p, m) PROVE GateSteps
  BY <1>6, MessageGateSteps
<1>7. ASSUME NEW p \in Partners, NEW code \in Reported, record_violation(p, code) PROVE GateSteps
  BY <1>7, StrikeGateSteps DEF record_violation
<1>8. CASE tick
  BY <1>8, TickGateSteps
<1>9. CASE UNCHANGED vars
  BY <1>1, <1>9 DEF vars
<1> QED
  BY <1>2, <1>3, <1>4, <1>5, <1>6, <1>7, <1>8, <1>9, Zenon DEF Next

-----------------------------------------------------------------------------
(* The theorem.                                                              *)

LEMMA GateStarts ==
  ASSUME Init, NEW p \in Partners
  PROVE  Gate(p)!GateInit
BY DEF Init, Empty, Link, NewLink, Keys, Gate!GateInit

(* The engine implements the abstract gate on every incoming direction: its
   initial state is the gate's, and every call of the host is a step of every
   partner's gate or leaves it alone. *)
THEOREM GateImplemented == Spec => ImplementsGate
<1>1. Init => \A p \in Partners : Gate(p)!GateInit
  BY GateStarts
<1>2. Inv /\ [Next]_vars =>
          [\A p \in Partners : [Gate(p)!GateNext]_(Gate(p)!gateVars)]_vars
  <2> SUFFICES ASSUME Inv, [Next]_vars
               PROVE  \A p \in Partners : [Gate(p)!GateNext]_(Gate(p)!gateVars)
    OBVIOUS
  <2> QED
    BY NextGateSteps, GateRefines DEF GateSteps
<1> QED
  BY <1>1, <1>2, Invariance, PTL DEF Spec, ImplementsGate
===============================================================================
