# A TLA+ model of dig-pex

`dig-pex` is the peer exchange protocol of the DIG network: over a link that is
already authenticated, a participant tells its partner which peers it knows
first-hand, first as one snapshot and then as deltas.  The crate is a *sans-IO*
engine: the host (a DIG node or the relay) calls it with link events, decoded
messages, changes of the first-hand set and clock ticks, and carries out what
the calls return.  This directory models the engine, two engines joined by a
connection, the wire codec, the peer entry and the payment claim; it checks them
with TLC on small instances, and proves the facts that matter most with TLAPS
for every value of the constants.  Paths like `engine.rs:435` are under the repository's `src/`.

## 1. The system

| component | source | state | operations |
|---|---|---|---|
| timing rules | `timer.rs` | none | `clamp_interval`, `effective_interval_secs`, `arrival_floor_ms`, `jitter_ms` |
| caps | `caps.rs` | constants | `frame_within_bound` |
| peer entries | `entry.rs` | none | `validate`, `clamped`, `fingerprint_hash`, builders |
| payment claims | `payment.rs` | none; a claim is bytes from somewhere | `verify`, `within_caps`, `payment_signing_bytes`, `verified_payment_address` |
| error codes | `error.rs` | none | the six wire codes, the nine reasons to skip an entry |
| wire codec | `wire.rs` | where `decode` waits in the stream | `encode`, `decode`, `from_json` |
| link state | `state.rs` | one `LinkState` per link: both directions | `LinkState::new` |
| engine, receiving | `engine.rs` | `links` (receiving half), `hints` | `on_message` and its handlers, `record_violation` |
| engine, sending | `engine.rs` | `known`, `known_epoch`, `advertisable_cache`, `links` (sending half) | `upsert_known`, `remove_known`, `link_up`, `link_down`, `tick` |
| host | outside | clock, connections | makes the calls above, in any order; writes and reads the frames |

The engine is one `&mut self` object: a call runs to its end and there are no
threads.  What is hard is therefore not a data race but the *sequence* of calls,
which the engine does not control: a message may come before `link_up` or after
`link_down`; a transport may report a violation on a muted direction; the clock
it is given is the host's wall clock and may stand still or step back; several
links speak about the same peer in any order.  The two directions of a link are
independent, except that the partner's declared interval and its `pex_error`s
slow our sends.

Between two engines there is more: frames are under way when time passes and when
a connection closes; a frame may be lost after the sender has committed it to the
told-state; each side has a clock of its own.  A frame may arrive byte by byte,
and its length prefix is the partner's word.  A record passes through nodes that
did not make it, with its claim.

What makes each part correct:

- *Receiving.*  A direction opens in two steps and never reopens once muted; a
  violation counts a strike and the last one mutes.  A hint always has a live
  source; of competing sources the fresher wins; a withdrawal takes effect only
  for the link that gave the hint; both accumulators keep their caps.
- *Sending.*  What is told is first-hand, current, fresh and about a third
  party; a told entry is not told again unless it changed; the cached list is
  never stale; messages keep the caps; no delta leaves before the interval
  either side declared; unearned errors cannot slow us at will; every change is
  told in the end.
- *Two engines.*  Neither strikes the other as long as delay and clocks stay
  within the grace; what one holds as told, the other has heard; a new
  connection starts fresh.
- *Codec.*  What is read is what was written, in order; a bad body costs only
  itself; a frame over the bound costs nothing and ends the stream.
- *Entries.*  A record is told again exactly when its content changed; a bad
  claim costs payment, never reachability.
- *Claims.*  Whoever is paid was designated by the peer of the record, on the
  network of the record; an intact claim is paid.

## 2. The modules

| module | models | uses |
|---|---|---|
| `PexTimer` | `timer.rs`, the interval constants | |
| `PexEntry` | `entry.rs` as the engine sees it, the order of outgoing lists | `PexTimer` |
| `PexState` | `state.rs`, `error.rs`, the fields of `PexEngine`, `new` | `PexEntry` |
| `PexInbound` | `on_message`, the four handlers, `ingest_added`, `ingest_dropped`, `evict_oldest`, `strike`, `mute_mismatch`, `record_violation` | `PexState` |
| `PexOutbound` | the first-hand set, `advertisable_*`, `build_delta`, `trim_to_frame_budget`, `link_up`, `link_down`, `tick` | `PexInbound` |
| `PexEngine` | the engine under its host: `Next`, `Spec`, fairness, all properties | `PexOutbound`, `PexGate` |
| `PexGate` | abstract: what one incoming direction promises | |
| `PexRatchet` | the engine with a history variable: back-offs since the last send | `PexEngine` |
| `MCEngine`, `MCRatchet` | messages and entries of the runs | `PexEngine`, `PexRatchet` |
| `PexNetwork`, `MCNetwork` | two engines, their hosts, the connection between them and two clocks | `PexEngine`, twice |
| `PexPipe` | abstract: what a PEX stream promises | |
| `PexWire`, `MCWire` | `wire.rs`: framing byte by byte | `PexPipe` |
| `PexClaim` | `payment.rs`: signed bytes, caps, the ladder of `verify` | |
| `PexPayment`, `MCPayment` | who is paid: peers that sign, records in any mixture | `PexClaim` |
| `PexRecord`, `MCRecord` | `entry.rs` in full: builders, the ladder of `validate`, both fingerprints | `PexClaim` |
| `PexEngine_proofs` | the inductive invariant and its theorems | `PexEngine`, `TLAPS` |
| `PexSending_proofs` | the theorems about sends, back-offs, the cache, the deltas and the caps of what is sent | `PexEngine_proofs`, `PexRatchet` |
| `PexReceiving_proofs` | the theorems about the accumulators, candidates and competing hints | `PexEngine_proofs` |
| `PexNetwork_proofs` | the theorems about two engines on one connection | `PexNetwork`, `PexReceiving_proofs`, `PexSending_proofs` |
| `PexGate_proofs` | the engine implements `PexGate` | `PexEngine_proofs` |
| `PexWire_proofs` | the codec implements `PexPipe`; an oversize frame costs nothing | `PexWire`, `TLAPS` |
| `PexRecord_proofs` | the theorems about fingerprints and verdicts | `PexRecord`, `TLAPS` |
| `PexPayment_proofs` | the theorems about claims | `PexPayment`, `TLAPS` |

How state and calls correspond to the code:

- The variable `now` is the `now_ms` the host passes to every call;
  `ClockMoves` changes it between calls.  `links`, `hints`, `known`,
  `known_epoch` and `advertisable_cache` are the fields of `PexEngine`
  (`engine.rs:133-155`).  `out` is what the last call returned: replies and
  events (`PexOutcome`), or the messages of `link_up` and `tick`.
- A `HashMap` is a total function that is `None` where the map has no entry;
  `Keys` are the keys it has.  `links.entry(p).or_insert_with(..)` is `Link(p)`.
- One action is one public call with everything it does.  `on_message` is the
  disjunction of the muted case and the four handlers, each handler the
  disjunction of its early returns; `ingest_added` folds the loop of the code
  over the entries in message order, evictions included; `tick` serves all due
  links in one step, as the code does.  The order in which `tick` visits links
  is that of a `HashMap`; no link's delta depends on another's, so the result
  is the same set of messages.
- Lists that the code sorts freshest-first are sets with the order `Before`;
  `Freshest(S, k)` is sort and truncate.  Inbound lists are sequences: their
  order and duplicates matter to `ingest_added`.
- `build_delta` picks at most `PEX_MAX_DROPPED` ids in the iteration order of a
  `HashMap`: any choice (`DroppedPicks`).  A jitter draw is any of the samples
  within the tenth of the interval.
- Data is abstract where the engine does not look into it.  A *content* stands
  for addresses, flags, network, `via` and payment claim; constants give its
  fingerprint, whether `validate` accepts it, and its encoded size.  Peer ids
  are numbers, for the code compares them to break ties.
- The definitions marked *Mutant of ...* are plausible bugs that the mutation
  runs put in the place of the definition they name; no specification uses them.

`PexGate` is the abstract specification of an incoming direction: closed,
awaiting handshake, awaiting snapshot, streaming, muted; a number of strikes;
the ids heard.  It has no clock, no entries and no messages.  `ImplementsGate`
says that the engine, with the mapping `Gate(p)`, implements it for every
partner `p`.  A link that the engine does not know is a closed gate; as every
call first creates the link, a handshake or a violation may also be the first
step of a closed gate.

`PexRatchet` adds to the engine a history variable that no action reads: for each
partner, how often our interval on the link was doubled since the last data
message.  A count is needed because no timestamp of the link tells the order of
a send and a back-off: the host's clock may step back over both.  A doubling
while the clock is behind the last send is not counted.  There the code takes the
age of that send for 0 (`engine.rs:427`), every error is plausible, and only the
rate limit is left: until the clock has caught up, errors alone may double the
interval once in every interval in force.

`PexNetwork` composes.  The engine of `PexEngine` is the one that advertises; its
partner `Far` is `INSTANCE PexEngine` with variables of its own, its own id and
interval, a clock `ahead` of ours, and nothing to advertise.  That is no loss for
what is checked: the two directions of a link are independent, the partner still
declares an interval, answers with errors and slows us, and the one direction is
followed from the first-hand set on one side to the hints on the other.  `Near`
and `FarDoes` run one call of an engine and put what it returns on the
connection; `Written` is the order in which a host must write it (the handshake
before the snapshot), `OnWire` the message with its lists as sequences.  Hosts
and connection are not code of the repository: they do what SPEC 10.1 and the
checklist of Appendix A ask.  A host that closes calls `link_down` and gives the
engine no frame of that connection afterwards.  Of the frames on their way to the
other side, any tail may be lost.

`PexWire` has one action for each place where `decode` waits or returns: `Fill`
is `read_exact` taking what has arrived, `ReadPrefix` and `ReadBody` what follows
when the prefix and the body are complete, `Eof` the I/O error of `read_exact`
(`wire.rs:93,102`).  The connection may break at any time (`Break`): what has not
arrived never will, and a reset may lose bytes that had.  An I/O error is no verdict
on a frame, and the host is done with the stream after it.  `ImplementsPipe` says
that with the bytes hidden this is `PexPipe`: a queue of bodies and their verdicts.

`PexEntry` knows of an entry only its id, its age and a *content*, and of a
content whether it is well formed and its fingerprint.  `PexRecord` is the entry
as it is, and its properties are what makes that abstraction right:
`VerdictFactors` (a verdict depends on id, age and well-formedness of the content
alone) and `ToldMeansSameContent` (the fingerprint is a function of the content
up to the order it was built in, and a one-to-one one).  `fingerprint`, the text of
`entry.rs:303`, is built byte for byte as the code joins it, with `|` inside an address
and a claim, commas between addresses and between flags, and `#` between the
three.  The bytes of a port, of a kind and of a claim's base64 parts are
constants (`PortText`, `KindText`, `PartText`); hosts, flags and payment
addresses are any strings, separators included.

## 3. The runs

| run | module | expects | shows | states |
|---|---|---|---|---|
| `Inbound` | `MCEngine` | pass | two partners, eleven messages (good, malformed, for another version or network, over-cap, overlapping, early, duplicated ids), reports and link churn: hints, mutes and the gate | 114 000 |
| `Eviction` | `MCEngine` | pass | accumulators of two entries and three ids: the caps and what evictions may disturb | 18 000 |
| `Outbound` | `MCEngine` | pass | two links, one partner asking for 60 s, all caps 1 or 2, a frame that holds two small entries or one large, entries that go stale: honesty, caps, spacing, the cache, and that only what was sent is told | 141 000 |
| `Liveness` | `MCEngine` | pass | every change is told in the end, with back-offs, jitter, link churn, and a snapshot trimmed to its frame | 13 000 |
| `Mixed` | `MCRatchet` | pass | all calls on one link, code-3 errors at any time, the clock stepping 15 s forth and back, repeated `link_up`: types, the cache, one back-off between sends, spacing | 1 034 000 |
| `TwoEngines` | `MCNetwork` | pass | two engines, delays, clocks up to a second apart, updates, entries that go stale, one withdrawal per delta; either side closes first, frames are lost, a second connection opens: no strike, told and received agree, nothing of the first connection is left | 906 000 |
| `Slow` | `MCNetwork` | pass | delays beyond the grace: one strike, and the sender backs off before a second | 285 000 |
| `Framing` | `MCWire` | pass | good, malformed, empty and oversize bodies, cut anywhere, on a connection that may break anywhere | 37 000 |
| `Record` | `MCRecord` | pass | records built in every order from good and bad parts, some of which hold separators, in the eyes of four receivers | 675 000 |
| `Payees` | `MCPayment` | pass | two peers, two networks, payees whose names run together with the networks', records with claims mixed from parts | 8 000 |
| `NewestHint` | `MCEngine` | violation | the newest `last_seen` is not always the hint | |
| `BackoffEffective` | `MCEngine` | violation | an honored code 3 may leave the effective interval | |

`CHECK_DEADLOCK` stays on except in `Framing`, whose stream really ends: after
the last frame, when the host closes it on a frame over the bound, or when the
connection broke.

The properties, each with its comment, are in `PexEngine`, `PexRatchet`,
`PexNetwork`, `PexWire`, `PexPayment` and `PexRecord`; every one of a passing run
is broken by some one-line bug in the code (the mutants).

Bounds, and why they are enough:

- *Two partners and one to three other ids.*  A hint has one source and one
  competitor; a third link would play the part of either.  The engine's own id
  and a partner's id occur in messages, so the identity checks are met.
- *Time.*  The clock moves in steps of 15 to 33 s up to `MaxTime`, chosen at the
  boundaries that matter: the receiver's floor for 30 s is exactly 25 s, an
  entry's age limit is lowered to 40 or 60 s so that entries go stale within the
  run, the longest interval to 60 or 100 s so that the cap of the back-off is
  reached.  `MaxTime` stops only the clock, never a call.
- *Caps* are 1 to 4 in the place of 50 to 16 384, so that every cap is reached.
- `MaxStrikes` stops transport reports, the only unbounded count on a muted
  link (it exceeds the limit in `Inbound`); `MaxEpoch` bounds the
  changes of the first-hand set.
- `HintIsVouchedFor` is about links that cannot outgrow their received map, as
  in `Inbound`; in `Eviction` it would not hold (section 5, last paragraph).
- `Mixed` has one draw of the jitter, for `Liveness` has two, and its clock ends
  at 75 s: two sends, a plausible error between them, and a step back each.  A
  back-off may also come after a step back and another after a step forth, with no
  send between them, which is where a comparison of timestamps would go wrong.
- *Network.*  The interval is 4 s with a grace of 2 s, and the clock steps by
  1 s.  The tightest case allowed is in the bounds: a delay of 1 s and a clock
  that is set by 1 s between two arrivals take the whole grace.  `MaxTime` is two
  intervals: a snapshot and two deltas, with `PEX_MAX_DROPPED` at 1 so that
  withdrawals queue up.  Two connections are enough: what the second one can
  inherit comes from the first.  `MaxDelay` is a bound on the connection, as SPEC
  6.4 presupposes one.
- In `Slow` the delay is 2 s under a grace of 1 s, and both sides would mute at
  the second strike.  `StruckOnce` has its bounds, `SlowHosts` in `PexNetwork`: a
  frame and the error reply to it are there within an interval, and the delay is
  within the grace and what doubling adds to the interval.  Neither can be
  dropped.  With a delay of 4 s here the error comes too late to be plausible,
  and with `PEX_MAX_INTERVAL` at 6 there is nothing to double to: TLC finds a
  second strike in both, and SPEC 6.4 promises nothing else.  The inductive
  invariant of section 4 was checked on this run, with the longest interval at 7,
  and with a delay of 3 s (up to 2.9 million states) before it was proved.
- The `VIEW` of the network's runs leaves out what the last calls returned, which
  is on the connection in the same step, and the two caches, which
  `CacheCoherent` shows to hold what would be computed.
- *Codec.*  Three byte values, a two-byte prefix and a bound of three bytes: the
  length that is on the bound, one above it, zero, and a body over the bound
  that itself reads like frames all occur, and the transport cuts the stream, or
  breaks, at every place.
- *Claims.*  Two designations, for a forgery from two originals is the most that
  one record's three fields can combine; the texts are chosen so that running
  them together without their lengths is ambiguous (`SigningBytesInjective` is
  the proof for all texts).
- *Records.*  Two addresses or flags in all, where one of each is the most
  allowed; a host that reads like the end of one address and the start of
  another, flags that are empty, hold `#` or a comma, a claim whose address is
  `#`: each restriction of `FingerprintsAgree` is needed here, but the two on
  `#` only together, for a `#` in flags alone or in claims alone is harmless; ages on both sides of the limit; ids that are malformed, the
  receiver's and the sender's.
- The violation runs use just the messages that their question needs.

No symmetry is used: ids are numbers with an order.

Fairness.  `LiveSpec`, in `Liveness`: `tick` is called again and again
(`lib.rs:62`: drive `tick` about once a second), and the clock keeps moving
until the end of the bounded time.  Nothing is assumed of partners, link events
or the first-hand set.  `ChangesAreTold` speaks of changes early enough for the
bounded clock to reach the next due tick (`Horizon`); a partner's code-3 errors
may keep postponing it within that, and a change may be undone or the link go
down, which also ends the wait.  `WireSpec`, in `Framing`: bytes that were sent arrive
(TCP), and a call of `decode` goes on while it can, as the executor polls a
future that was woken.

## 4. The proofs

Assumptions: the named `ASSUME`s of the modules.  They say that the constants
have the types of the code, that the grace is shorter than the least interval,
that the engine's own id is not among its peers, and that `None` is not a value.
Caps, intervals, partners, messages, entries, clock steps and jitter samples are
arbitrary otherwise: the clock may step back, `link_up` may be repeated, and the
inbox may hold any messages of the type `Message`.  Of the texts of
`PexRecord` it is assumed that the digits of a port and the name of a kind tell
which it is and hold neither comma nor `|`, and that a claim's base64 parts differ
when their bytes do.

| theorem | property |
|---|---|
| `TypeCorrect` | `TypeOK` |
| `LiveSources` | `HintsHaveLiveSource` |
| `MutedHoldNothing` | `MutedLinksHoldNothing` |
| `SendsSpaced` | `SendsAreSpaced` |
| `RatchetedOnce` | `ErrorsRatchetOnce`, of `RatchetSpec` |
| `CacheNeverStale` | `CacheCoherent` |
| `HonestDeltas` | `DeltasAreHonest` |
| `GateImplemented` | `ImplementsGate` |
| `CapsKept` | `AccumulatorsBounded` |
| `HintsCoverSources` | `HintCoversItsSource` |
| `HintsVouchedFor` | `HintIsVouchedFor` |
| `FutureRefused` | `NothingFromTheFuture`, given `ClockSteps \subseteq Nat` |
| `CandidatesNew` | `CandidatesAreNews` |
| `OnlyBeaten` | `HintsOnlyBeaten` |
| `SendsWithinCaps` | `SentWithinCaps` |
| `OnlySentIsTold` | `ToldIsSent` |
| `ConnectionsStartFresh` | `StartsFresh` |
| `PartnersNeverStruck` | `NeverStruck`, given `OrderlyHosts` |
| `ToldIdsAreHeard` | `ToldIsHeard`, given `OrderlyHosts` and `NoneEvicts` |
| `HeardIdsAreTold` | `HeardIsTold`, given `OrderlyHosts` |
| `PartnersStruckOnce` | `StruckOnce`, given `OrderlyHosts` or `SlowHosts` |
| `CodecIsAPipe` | `ImplementsPipe` |
| `OversizeSafe` | `OversizeUntouched` |
| `ToldForContent` | `ToldMeansSameContent` |
| `SameLine` | `FingerprintsAgree` |
| `VerdictIgnoresClaims` | `TwoVerdicts` |
| `VerdictInTwo` | `VerdictFactors` |
| `PayeesAreDesignated` | `PayeeIsDesignated` |
| `IntactClaimsPay` | `IntactClaimPays` |
| `SigningBytesInjective` | no run: the signed bytes determine peer, network and payee |

`PexEngine_proofs` proves the inductive invariant `Inv`: types, live sources and
mutes together.  None of the three is inductive alone: that a hint's source is
streaming and not muted needs that a mute was complete, and both need the types
of links and hints.  The argument for one call is always the same.
`LinkUpdate` says that replacing one link by a *sound* one, with hints that are
old ones from other links or from this link, keeps `Inv`; each handler's lemma
shows that its new link and hints are so.  The loop of `ingest_added` is a
recursive function.  That it is defined at all, and that what one turn keeps the
loop keeps, is shown once (`IngestDefined`, `IngestInduction`) from the
least-element principle of the natural numbers, for induction with an operator
parameter is not available to the provers installed; it is then used with the
set `FedBy(p)` of accumulators whose hints are `p`'s or old.

`PexSending_proofs` first classifies what any call can do to the sending side of
a link (`SenderSteps`: nothing, a back-off, the snapshot of `link_up`, or the
send of a delta).  From this `PacedLinks` is inductive: the interval in force is
never below the declared one, and a link past its snapshot has a send clock.
`SendsSpaced` follows as only `tick` sends deltas and only on eligible links.

`RatchetedOnce` has an invariant of its own on the history (`RatchetInv`): the count
is 0 or 1, and at 1 the interval in force is a legal one and the last back-off
came at or after the last send.  A second error would have to come an interval
after the back-off, for the rate limit, and within the floor of that interval
after the send, to be plausible, which is shorter (`NoSecondRatchet`).  Nothing
is assumed of the configured interval: what a doubling leaves is clamped.

The second part of the module adds to `Inv` that a cache of the present epoch is right
*for the second it was built in* (`CacheInv`).  `CacheCoherent` alone is not
inductive: while the cache is not used, for its second is not the present one,
it says nothing, and the clock may step back to that second.  With it an added
entry of a delta is the known one, as ids are unique in `known`; that a delta
is never empty needs that all ways to pick the ids to drop have one size.
`OnlySentIsTold` goes through the same calls: `told` changes in `link_up` and `tick`
only, by exactly the entries and ids of the messages they return.

Its third part, `SendsWithinCaps`, is about counts and bytes.  `FreshestFew` says
that sort-and-truncate leaves at most that many.  The byte count of a snapshot
is a fold over a set, which no induction with an operator parameter can open; it
is unfolded by a recursive function over the finite sets that one picks
elements from (`SizeOfAny`: the order of picking is immaterial), and `SizeGrows` makes it
monotone.  The trim stops at the empty list at the latest, so `TrimFits` needs that
an empty message is within the frame: that is the one assumption on the sizes.

`PexGate_proofs` shows that every call is, on every link, one of the six
actions of the gate or leaves its state alone (`GateStep`), from `Inv`: a mute
that freed its link is what makes the muted gate hear nothing.

`PexWire_proofs` carries one invariant, that the bytes are accounted for: what
`decode` has buffered and what is on the stream together are the frames
written and not yet answered, the first of them without its prefix when the
prefix was read.  From it each step of the codec is a step of the queue or
none.  An I/O error ends the accounting and answers nothing.  That the prefix is
read as it was written (`LengthRoundTrip`) is arithmetic in
base `Base` on recursive functions, for any width; it assumes that a body's
length fits the prefix, which the code leaves to its `as u32`.

`PexRecord_proofs` shows that `sort` has one result for all rearrangements of a
list and none for others, since the orders of `entry.rs:337-346` are strict and
total; that is `ToldForContent`.  For `SameLine`, texts that are not empty and do not
hold the separator can be read back from their join (`JoinInjective`): the last
of them is what follows the last separator (`LastPart`), and so on to the front,
by the least length where two lists could differ.  An address is read back from
the end, as its port and kind hold no separator and its host may; the three
parts of the text from its last two `#`.  Where other parts hold a separator the
text cannot be read back, and `Plain` rules that out.  The two
verdict theorems are about the first failing check of a ladder: `VerdictInTwo`
holds because the checks are of three kinds, of the peer id, of the content and of
the age, and the ladder passes when all do.

`PexPayment_proofs` has two parts.  `SigningBytesInjective` is about sequences: a
text shorter than `u32::MAX` with its length before it can be split off the
front of a concatenation in one way (`FieldCancel`, from `CatCancel`), and the
signed bytes are a constant and three such fields.  The invariant `PaymentInv`
says that the signatures in the world are exactly those of the designations
made, and that the last answer was computed from them.  If `verify` accepted a
record, its signature is then one of a designation, its key is the designation's,
and by injectivity so are peer, network and payee.  Assumed are that peer ids are
shorter than `u32::MAX` and that a signature is accepted only if it was made; the
hash need not be free of collisions, for a payee is designated by *a* key with
the id of the record.  The other direction is `IntactClaimsPay`: a claim made by
its peer for the network of the record, whose parts fit the caps, passes every
rung of `verify`.  It needs that no signature is the value of "no signature", nor a
text that happens to decode to one before it was made (`SignatureAssumption`).

`PexReceiving_proofs` classifies what any call does to what is held (`HoldStep`:
the same; a link freed with its hints; or a link fed by the loop and then rid of
what the message withdrew).  For each link, `Bounded` says that the caps are
kept, and `Agree` that the link's received entries and the hints it gave agree;
both are needed for all links together (`HoldingsInv`), since an eviction among
the hints, which all links share, may hit any of them.  One lemma per part says
what one turn of the loop keeps (`TurnBounded`, `TurnAgree`, `TurnPast`), and
`IngestInduction` lifts it to the loop.  That an eviction makes room needs that
`evict_oldest` finds a key (`OldestIsKey`, from the least-element principle,
twice: for the age and for the tie).  `FutureRefused` needs a clock that does not
step back; with a step back it is false.

Its second part follows the loop relative to the hints before the call
(`NewsBy`): there is at most one hint more for each candidate, so with room for
all candidates nothing was evicted; every candidate then beats what was held; and
only the ids in the message have changed hints.  The last part is what
`OnlyBeaten` turns on: a delta that beats another link's hint and withdraws the
id at once would lose it, and `on_delta` refuses just these (`engine.rs:522`).

`PexNetwork_proofs` is about both engines and what is under way between them.
Its first part needs nothing of delays and clocks.  `Base` adds to `Inv` and
`CacheInv` that a side that is down has no link and nothing coming to it, and that
the partner's link, before the first frame of a connection, is a new one in all
but its sending half (`IsNew`).  `ConnectionsStartFresh` follows: whatever was
cut off or lost with the connection before, `link_down` took the link away.

Its second part follows the frames.  The invariant is `Calm`, which is `Base` and

- `NearSound`: our sends are paced (`PacedLinks`), what we know is first-hand, and
  we have not struck the partner;
- `ToPartner`: the partner's link took in only what we send (`Reader`), and what is
  still under way is a `Lane` for it: in the order handshake, snapshot, deltas,
  counted from how far the reader has come (`Rank`); within the delay; and each
  data message a full interval after the one before, the one read last included,
  less the grace for when it arrived;
- `Linked`, part of `ToPartner` from `link_up` on: the send clock is not behind
  the last frame of the lane, and `Accounts` is right: an id told is in a frame
  that no later frame withdraws, or arrived and is held or was skipped; an id held
  or arriving is told, or a later frame withdraws it;
- `FromPartner`: the two frames the partner writes, of which neither is a strike.

`NeverStruck` alone is not inductive: it says nothing of a delta that is under
way and will arrive too early, nor of what the partner has heard when the next one
is sent.  `LanePush` and `LanePop` carry the spacing through a send and a read.
The arithmetic is here: the sender's pause is the interval, the floor of the receiver is the
interval less the grace, and delay and lead together eat at most the grace.
`AccountsPush` and `AccountsPop` do the same for the ids.  What the partner makes of a
frame is shown on its engine (`FarTakesHello`, `FarTakesList`, `FarTakesDelta`), with
its own loop over the entries (`FarLoop`), for an instance's lemmas cannot be cited.

`OrderlyHosts` is what SPEC 6.4 and 7.2 presuppose, stated in `PexNetwork`: clocks
do not step back, the delay and the lead of the partner's clock are within
`PEX_ARRIVAL_GRACE` together, and no `PEX_MAX_ADDED` first-hand entries are over
the bytes of a frame (`build_delta` counts entries and not bytes; see section 5).
`NoneEvicts` says that a received map has room for every peer: a partner that
evicted an id does not say so, and it stays told.  `HeardIdsAreTold` holds
without it.  `MCNetwork` has TLC evaluate both for the run `TwoEngines`, so the
theorems are about that run too.

`PartnersStruckOnce` is about hosts that break the floor.  `SlowHosts` keeps the
clocks and the bytes of `OrderlyHosts` (`FramesFit`) and lets the delay exceed the
grace, as far as the back-off can put it right; TLC evaluates it for the run
`Slow`.  Under `OrderlyHosts` there is no strike at all.  Under `SlowHosts` the
invariant is `SlowCalm`: `Base` and `NearSound` as before, and

- `SlowToPartner`: the lane to the partner with less asked of it.  Two deltas are
  written a pause apart before the strike and a doubled pause after it (`Gap`),
  and may be closer at their reading than at their writing by `Slack`: at most the
  grace and what doubling adds to the interval, and little enough that a delay more
  is still within a pause;
- `SlowFromPartner`: what comes back is the partner's two frames in their order
  (`Comes`), among them at most one error;
- `SlowLinked`, from `link_up` on, is one of three phases.  Not struck: our
  interval is as configured, no back-off was applied, no error is under way.
  `Warned`: struck, one error under way and nothing the other way, the error sent so
  soon after our last delta that it is plausible whenever it is read.  `Eased`:
  our interval is doubled and no error is under way.

`StruckOnce` alone says nothing of the interval when the strike falls, so nothing
of the strike after it.  The weight is on `Warned`.  A delta struck is the only one
under way, as a frame takes no longer than a pause.  No delta is due before its
error is read (`WarnedWaits`), for a frame and its reply fit in an interval; so the
partner reads nothing meanwhile.  And the error is within the window in which the
engine honors it (`ErrorCounts`), with no back-off before it to forbid a second:
the interval doubles.  From then on deltas are a doubled pause apart
(`EasedWaits`), and `Slack` is no more than lies between that and the floor.

Only model-checked: liveness (`ChangesAreTold`, `FramesAreRead`), for fairness and
`ENABLED` are out of the prover's reach.  Every invariant and every action
property of the passing runs is proved.

## 5. What the documents say and the code does not

Two of these are shown by a run each:

1. *Newest hint* (`NewestHint`).  SPEC 9.2: the newest `last_seen` wins as the
   current hint.  When the link of the source goes down, the hint is removed
   (`engine.rs:241`) and the next-best source is not promoted, although its
   `received` map still has the id; a later, older entry then becomes the hint,
   for it is compared with the hints only (`engine.rs:566`).  That is the run's
   trace: the first partner is the source at 20 s, its link goes down while the
   second vouches for 20 s as well, and it is back with 10 s.  A withdrawal by
   the source (`engine.rs:605`) or the mute of its link has the same effect.
2. *Back-off* (`BackoffEffective`).  SPEC 6.4 asks to double the effective
   interval.  The code doubles our own interval (`engine.rs:436`), so a partner
   that declared twice ours or more sees no slower sends.

These were met while reading; no run states them:

- `PexEvent::Violation.mute` is documented as whether the direction is now muted
  (`engine.rs:105`).  A transport report after a mismatch muted the direction
  carries `mute: false` (`engine.rs:629`).
- The public field `cfg.interval` is documented as clamped; only the builder
  clamps it, and `link_up` declares the raw value (`engine.rs:202`).
- `link_down` and SPEC 5.5 promise that a new connection starts fresh.
  `on_message` creates a link for any peer (`engine.rs:254`), and `link_up` keeps
  one that exists, so a frame handed over after `link_down` is inherited.  Hosts
  must drain or drop their reader first; `StartsFresh` shows that this is enough.
- SPEC 6.4 measures the floor from the previous data message.  A discarded delta
  does not move `last_arrival_ms` (`engine.rs:526-529`), so a delta shortly after
  a discarded one is accepted.
- SPEC 7.2 bounds messages by encoded bytes.  Only the snapshot is trimmed;
  `build_delta` counts entries (`engine.rs:770`).
- SPEC 3.2: a sender emits no entry beyond the flag caps.  `upsert_known` takes
  any entry (`engine.rs:179`), and it is sent and marked told although every
  receiver skips it.
- A comment at `entry.rs:322` says that equal fingerprint strings have equal
  hashes.  The converse holds for all records, this does not: the text joins
  parts that may hold its separators.  `["a,b"]` and `["a", "b"]`, or no flag and
  one empty flag, have one string and two hashes; so have one host
  `h|1|direct,h` and two addresses, and a `#` may be the end of a flag or the start
  of a claim.  `FingerprintsAgree` says for which records the comment is right
  (`Plain`); nothing in the code keeps to them, and only the hash decides what is
  told.

SPEC 6.4 has a limit that it does not name: at `PEX_MAX_INTERVAL` a back-off adds
nothing, so a partner whose delay is beyond the grace may strike until it mutes.
`SlowHosts` asks for a delay within the grace there.

Two things are by design, and no property is stated against them: the drop of
an id that was evicted from `received` is ignored, so its hint stays until the
link goes (`engine.rs:561`); and an entry that a receiver skipped as too old is
not sent again when only its `last_seen` is refreshed (SPEC 9.1 wants no
re-advertisement for a heartbeat; `ToldIsHeard` excepts just these ids).

## 6. Not modelled

- JSON and its spellings (`Json` says which bytes are which message), base64,
  SHA-256, signatures: libraries, external to the crate.  Of a text only its
  bytes and its length count.
- A `decode` that is abandoned half-way (a `select!` in the host): the bytes it
  took are lost to the next call.  No document says whether a host may do it;
  the model lets every call run to its end.
- The relay binding (SPEC 10.2): the same engine over text frames, with one side
  that advertises.  `PexNetwork` has the frames of SPEC 10.1.
- Two engines that both advertise on one link, and more than one link between
  engines: the directions are independent in the code (`PexEngine` has several
  links at once), and their product is out of TLC's reach.
- Error texts, `is_strike`, capability flags of the handshake, read-only
  accessors: they change no state and no decision.
- A repeated `link_up` on one connection sends a second snapshot, which the
  partner strikes; `MCEngine` checks the sender's side of it (`Mixed`), no property states what the two ends should then agree on.
- Wrap-around of the `u32` strikes and the `u64` epoch and clock: out of reach
  of any run of the program.
- Fingerprint collisions: in `PexEngine` they are allowed (`Fingerprint` may map
  two contents to one value, and does in `MCEngine`), and no property there
  claims that such a change is told.  In `PexRecord` the hash is taken to be
  free of them.
- Build and release: `Cargo.toml`, workflows.

## 7. What is left

The relay binding as a second composition, and a liveness property of
`PexNetwork`: what is advertised is received or skipped.
