------------------------------- MODULE PexState -------------------------------
(***************************************************************************)
(* The state of one engine (src/src/engine.rs, src/src/state.rs): the      *)
(* first-hand peers it advertises, one LinkState per link, the hints it    *)
(* was given, and the cached advertise list.  The engine is sans-IO: the   *)
(* host calls it with now_ms, here the variable now, and carries out what  *)
(* the call returns, here the variable out.                                *)
(***************************************************************************)
EXTENDS PexEntry, Sequences

CONSTANTS
    Partners,     \* the peers that may be on the other end of a link
    Interval,     \* cfg.interval; the field is public, so any number of seconds
    NetworkId,    \* cfg.network_id
    PEX_VERSION,  \* caps.rs: 1
    PEX_VIOLATION_LIMIT,
    PEX_MAX_RECEIVED_PER_LINK,
    PEX_MAX_HINTS

ASSUME StateAssumption ==
    /\ Partners \subseteq Peers
    /\ Interval \in Nat /\ PEX_VERSION \in Nat /\ NetworkId \in STRING
    /\ PEX_VIOLATION_LIMIT \in Nat \ {0}
    /\ PEX_MAX_RECEIVED_PER_LINK \in Nat \ {0}
    /\ PEX_MAX_HINTS \in Nat \ {0}

VARIABLES
    now,                \* the host's clock, ms; an argument of every call
    links,              \* partner -> LinkState, for the links the engine knows
    hints,              \* peer id -> [source, last_seen]
    known,              \* peer id -> Entry: the first-hand set
    known_epoch,        \* counts the mutations of known
    advertisable_cache, \* None or the last built base list with its key
    out                 \* what the last call returned

vars == <<now, links, hints, known, known_epoch, advertisable_cache, out>>

NowSecs == now \div 1000

-----------------------------------------------------------------------------
(* HashMap operations.  A map is a function from all possible keys, None where
   the map has no entry.                                                     *)

Empty(K) == [k \in K |-> None]
Keys(m) == {k \in DOMAIN m : m[k] # None}
Remove(m, S) == [k \in DOMAIN m |-> IF k \in S THEN None ELSE m[k]]

-----------------------------------------------------------------------------
(* Error codes (src/src/error.rs).                                           *)

BadMessage == 1
UnsupportedVersion == 2
RateViolation == 3
Oversized == 4
NetworkMismatch == 5
ProtocolViolation == 6

(* What a transport reports through record_violation: it could not decode a
   frame, or the frame was over the size bound. *)
TransportCodes == {BadMessage, Oversized}

-----------------------------------------------------------------------------
(* Per-link state.                                                           *)

RecvPhase == {"AwaitingHandshake", "AwaitingSnapshot", "Streaming"}

LinkState ==
    [ handshake_sent          : BOOLEAN,
      snapshot_sent           : BOOLEAN,
      told                    : [PeerIds -> Option({Fingerprint[c] : c \in Contents})],
      last_data_send_ms       : Option(Nat),
      send_jitter_ms          : Nat,
      self_interval_secs      : Nat,
      last_backoff_applied_ms : Option(Nat),
      phase                   : RecvPhase,
      remote_declared_secs    : Option(Nat),
      last_arrival_ms         : Option(Nat),
      strikes                 : Nat,
      muted                   : BOOLEAN,
      received                : [PeerIds -> Option(Nat)] ]

NewLink ==
    [ handshake_sent          |-> FALSE,
      snapshot_sent           |-> FALSE,
      told                    |-> Empty(PeerIds),
      last_data_send_ms       |-> None,
      send_jitter_ms          |-> 0,
      self_interval_secs      |-> Interval,
      last_backoff_applied_ms |-> None,
      phase                   |-> "AwaitingHandshake",
      remote_declared_secs    |-> None,
      last_arrival_ms         |-> None,
      strikes                 |-> 0,
      muted                   |-> FALSE,
      received                |-> Empty(PeerIds) ]

(* links.entry(peer).or_insert_with(LinkState::new): every inbound call and
   link_up first make sure that the link exists. *)
Link(peer) == IF links[peer] # None THEN links[peer] ELSE NewLink

ReceivedHint == [source : Partners, last_seen : Nat]

(* Option::None is none of the values an Option wraps. *)
ASSUME OptionAssumption ==
    /\ None \notin {Fingerprint[c] : c \in Contents}
    /\ None \notin LinkState \cup ReceivedHint \cup Entry

(* hints.retain(|_, h| h.source != peer) *)
HintsNotFrom(peer) == Remove(hints, {id \in Keys(hints) : hints[id].source = peer})

-----------------------------------------------------------------------------
(* What a call returns: at most one pex_error reply, the events, and the
   messages to write to the links.  The host acts on it before the next call. *)

Quiet == [ peer       |-> None,   \* the link the call was about
           reply      |-> None,   \* the code of the pex_error to send back
           candidates |-> <<>>,   \* PexEvent::Candidates
           attributed |-> {},     \* PexEvent::Dropped
           violation  |-> None,   \* PexEvent::Violation
           sent       |-> {} ]    \* what link_up and tick return

Init ==
    /\ now = 0
    /\ links = Empty(Partners)
    /\ hints = Empty(PeerIds)
    /\ known = Empty(PeerIds)
    /\ known_epoch = 0
    /\ advertisable_cache = None
    /\ out = Quiet
===============================================================================
