------------------------------- MODULE PexEntry -------------------------------
(***************************************************************************)
(* Peer entries (src/src/entry.rs), abstracted to what the engine tells    *)
(* apart: whose entry it is, its content, and how fresh it is.  A content  *)
(* stands for addresses, flags, payment claim, network and via together;   *)
(* constants say what its fingerprint is, whether a receiver finds it well *)
(* formed, and how many bytes it encodes to.                               *)
(***************************************************************************)
EXTENDS PexTimer, FiniteSets

CONSTANTS
    LocalPeerId,        \* cfg.local_peer_id
    Peers,              \* the other peer ids; numbers, for the code orders ids to break ties
    Contents,           \* the contents an entry can have
    WellFormed,         \* the contents that pass every check of validate but identity and age
    Fingerprint,        \* the told-state fingerprint of a content
    EncodedSize,        \* the bytes a content encodes to, comma included
    PEX_MAX_ENTRY_AGE   \* caps.rs: 1800 s

PeerIds == Peers \cup {LocalPeerId}

ASSUME EntryAssumption ==
    /\ Peers \subseteq Nat
    /\ LocalPeerId \in Nat \ Peers
    /\ IsFiniteSet(Peers)
    /\ WellFormed \subseteq Contents
    /\ DOMAIN Fingerprint = Contents
    /\ EncodedSize \in [Contents -> Nat]
    /\ PEX_MAX_ENTRY_AGE \in Nat

Entry == [peer_id : PeerIds, content : Contents, last_seen : Nat]

(* The age test of validate and of advertisable_base: a future last_seen is fresh. *)
Stale(e, now_secs) ==
    /\ e.last_seen < now_secs
    /\ now_secs - e.last_seen > PEX_MAX_ENTRY_AGE

validate(e, sender, now_secs) ==
    /\ e.peer_id \notin {LocalPeerId, sender}
    /\ e.content \in WellFormed
    /\ ~Stale(e, now_secs)

(* Mutant of clamped: a future last_seen is kept. *)
clamped_not(e, now_secs) == e

clamped(e, now_secs) == [e EXCEPT !.last_seen = Smaller(@, now_secs)]

fingerprint_hash(e) == Fingerprint[e.content]

(* The order of every outgoing list: freshest first, then by peer id. *)
Before(a, b) ==
    \/ a.last_seen > b.last_seen
    \/ a.last_seen = b.last_seen /\ a.peer_id < b.peer_id

(* The first k entries of the set S in that order (sort_by, then truncate). *)
Freshest(S, k) == {e \in S : Cardinality({x \in S : Before(x, e)}) < k}
===============================================================================
