------------------------------- MODULE PexNetwork -----------------------------
(***************************************************************************)
(* Two engines joined by a connection: the engine of PexEngine, which      *)
(* advertises, and its partner Far, another instance of the same engine    *)
(* with nothing of its own to advertise.  The hosts, the connection and    *)
(* the clocks are not part of the repository; they do what SPEC 10.1 and   *)
(* Appendix A ask of them.  A connection keeps the order of its frames, a  *)
(* frame takes at most MaxDelay, and what was written last may be lost     *)
(* when the connection closes.                                             *)
(***************************************************************************)
EXTENDS PexEngine

CONSTANTS
    FarId,        \* the partner
    FarInterval,  \* the partner's cfg.interval
    MaxDelay,     \* the longest a frame is under way, ms
    ClockLeads,   \* how far the partner's clock may be ahead of ours, ms
    MaxConns      \* bound: connections

ASSUME NetworkAssumption ==
    /\ FarId \in Partners
    /\ FarInterval \in Nat
    /\ MaxDelay \in Nat /\ ClockLeads \subseteq Nat /\ MaxConns \in Nat

VARIABLES
    ahead,               \* how far the partner's clock is ahead now, ms
    far_links, far_hints, far_cache, far_out,   \* the state of the partner's engine
    conn,                \* the number of the current connection
    side, far_side,      \* what each host did with it
    to_far, to_near,     \* the frames under way
    heard,               \* the partner was given a frame of this connection
    missed               \* the ids the partner skipped on this connection

farVars == <<far_links, far_hints, far_cache, far_out>>
hostVars == <<conn, side, far_side>>
netVars == <<vars, ahead, farVars, hostVars, to_far, to_near, heard, missed>>

SeqExt == INSTANCE SequencesExt

Far == INSTANCE PexEngine WITH
    LocalPeerId <- FarId, Partners <- {LocalPeerId}, Interval <- FarInterval,
    Peers <- (Peers \ {FarId}) \cup {LocalPeerId},
    now <- now + ahead, links <- far_links, hints <- far_hints,
    known <- Empty(PeerIds), known_epoch <- 0, advertisable_cache <- far_cache, out <- far_out

-----------------------------------------------------------------------------
(* Frames.                                                                   *)

(* The list that is sent freshest first. *)
InOrder(entries) ==
    CHOOSE s \in [1..Cardinality(entries) -> entries] :
        \A i, j \in DOMAIN s : i < j => Before(s[i], s[j])

(* A message as it is on the wire: to nobody in particular, entries in the
   order they are sent.  The withdrawn ids come in any one order: their
   receiver takes them one by one, and no two are the same. *)
OnWire(m) ==
    CASE m.type = "pex_handshake" ->
             [type |-> m.type, version |-> m.version, network_id |-> m.network_id,
              interval |-> m.interval]
      [] m.type = "pex_snapshot" -> [type |-> m.type, peers |-> InOrder(m.peers)]
      [] m.type = "pex_delta" ->
             [type |-> m.type, added |-> InOrder(m.added), dropped |-> SeqExt!SetToSeq(m.dropped)]

(* What the host writes after a call: the messages it returned, a handshake
   first, or the error reply. *)
Written(o) ==
    LET hello == {m \in o.sent : m.type = "pex_handshake"}
        frame(body) == [conn |-> conn, sent |-> now, body |-> body]
        frames(S) == SeqExt!SetToSeq({frame(OnWire(m)) : m \in S})
    IN  frames(hello) \o frames(o.sent \ hello)
            \o IF o.reply = None THEN <<>>
               ELSE <<frame([type |-> "pex_error", code |-> o.reply])>>

Entries(m) ==
    CASE m.type = "pex_snapshot" -> m.peers
      [] m.type = "pex_delta" -> m.added
      [] OTHER -> <<>>

FrameSize(m) == EncodedBytes(SeqExt!ToSet(Entries(m)))

-----------------------------------------------------------------------------
(* What the two hosts do.                                                    *)

NetInit ==
    /\ Init /\ ahead = 0 /\ Far!Init
    /\ conn = 0 /\ side = "Down" /\ far_side = "Down"
    /\ to_far = <<>> /\ to_near = <<>>
    /\ heard = FALSE /\ missed = {}

(* A call of ours, and the frames it makes us write. *)
Near(call) ==
    /\ call
    /\ to_far' = IF far_side = "Down" THEN to_far ELSE to_far \o Written(out')
    /\ UNCHANGED <<ahead, farVars, heard, missed>>

(* A call of the partner's, and the frames it makes it write. *)
FarDoes(call) ==
    /\ UNCHANGED <<ahead, vars>>
    /\ call
    /\ to_near' = IF side = "Down" THEN to_near ELSE to_near \o Written(far_out')

Connect ==
    /\ side = "Down" /\ far_side = "Down" /\ conn < MaxConns
    /\ conn' = conn + 1 /\ side' = "Up" /\ far_side' = "Up"
    /\ heard' = FALSE /\ missed' = {}
    /\ UNCHANGED <<vars, ahead, farVars, to_far, to_near>>

Knows ==
    /\ \E e \in FirstHand : Near(upsert_known(e)) \/ Near(remove_known(e.peer_id))
    /\ UNCHANGED <<hostVars, to_near>>

Ticks == Near(tick) /\ UNCHANGED <<hostVars, to_near>>

NearUp ==
    /\ side = "Up" /\ side' = "Speaking"
    /\ Near(link_up(FarId))
    /\ UNCHANGED <<conn, far_side, to_near>>

FarUp ==
    /\ far_side = "Up" /\ far_side' = "Speaking"
    /\ FarDoes(Far!link_up(LocalPeerId))
    /\ UNCHANGED <<conn, side, to_far, heard, missed>>

(* Each host closes by link_down, and hands no frame of the connection to the
   engine after that; of the frames on their way to the other side a tail may
   be lost. *)
NearDown ==
    /\ side # "Down" /\ side' = "Down"
    /\ link_down(FarId)
    /\ to_near' = <<>>
    /\ \E n \in 0..Len(to_far) : to_far' = SubSeq(to_far, 1, n)
    /\ UNCHANGED <<ahead, farVars, conn, far_side, heard, missed>>

FarDown ==
    /\ far_side # "Down" /\ far_side' = "Down"
    /\ UNCHANGED <<vars, ahead, conn, side, heard, missed>>
    /\ Far!link_down(LocalPeerId)
    /\ to_far' = <<>>
    /\ \E n \in 0..Len(to_near) : to_near' = SubSeq(to_near, 1, n)

(* The oldest frame is decoded and given to the engine, or, when it is over
   the bound, reported to it. *)
FarReads ==
    /\ to_far # <<>>
    /\ LET m == Head(to_far).body IN
       /\ FarDoes(IF FrameSize(m) <= PEX_MAX_FRAME
                  THEN Far!on_message(LocalPeerId, m)
                  ELSE Far!record_violation(LocalPeerId, Oversized))
       /\ missed' = {Entries(m)[i].peer_id : i \in {j \in DOMAIN Entries(m) :
                         ~Far!validate(Entries(m)[j], LocalPeerId, (now + ahead) \div 1000)}}
                    \cup (missed \ {Entries(m)[i].peer_id : i \in DOMAIN Entries(m)})
    /\ heard' = (heard \/ Head(to_far).conn = conn)
    /\ to_far' = Tail(to_far)
    /\ UNCHANGED hostVars

NearReads ==
    /\ to_near # <<>>
    /\ Near(IF FrameSize(Head(to_near).body) <= PEX_MAX_FRAME
            THEN on_message(FarId, Head(to_near).body)
            ELSE record_violation(FarId, Oversized))
    /\ to_near' = Tail(to_near)
    /\ UNCHANGED hostVars

(* Time passes for both, and no frame is under way for longer than MaxDelay. *)
TimePasses ==
    /\ \E d \in ClockSteps :
          /\ ClockMoves(d)
          /\ \A f \in SeqExt!ToSet(to_far \o to_near) : now + d - f.sent <= MaxDelay
    /\ UNCHANGED <<ahead, farVars, hostVars, to_far, to_near, heard, missed>>

(* The partner's clock is set. *)
FarClockSet ==
    /\ ahead' \in ClockLeads
    /\ UNCHANGED <<vars, farVars, hostVars, to_far, to_near, heard, missed>>

NetNext ==
    \/ Connect \/ Knows \/ Ticks
    \/ NearUp \/ FarUp \/ NearDown \/ FarDown
    \/ NearReads \/ FarReads
    \/ TimePasses \/ FarClockSet

NetSpec == NetInit /\ [][NetNext]_netVars

-----------------------------------------------------------------------------
(* SPEC 7.2: no PEX_MAX_ADDED of the first-hand entries are over the bytes of a
   frame. *)
FramesFit ==
    \A S \in SUBSET FirstHand :
        IsFiniteSet(S) /\ Cardinality(S) <= PEX_MAX_ADDED => EncodedBytes(S) <= PEX_MAX_FRAME

(* What SPEC 6.4 asks of the hosts: clocks that do not step back, and a delay and
   a lead of the partner's clock that stay within PEX_ARRIVAL_GRACE together. *)
OrderlyHosts ==
    /\ ClockSteps \subseteq Nat /\ FramesFit
    /\ \A lead \in ClockLeads \cup {0} : lead + MaxDelay <= PEX_ARRIVAL_GRACE * 1000

(* Our interval once it is doubled. *)
Slowed == clamp_interval(Smaller(2 * Interval, PEX_MAX_INTERVAL))

(* What the back-off of SPEC 6.4 can make good: a frame and the error reply to it
   are there within an interval, and what the doubling adds to the interval
   leaves, with the grace, room for the delay. *)
SlowHosts ==
    /\ ClockSteps \subseteq Nat /\ FramesFit /\ PEX_VIOLATION_LIMIT > 1
    /\ \A lead \in ClockLeads \cup {0} :
           /\ lead + 2 * MaxDelay <= clamp_interval(Interval) * 1000
           /\ lead + MaxDelay <= (PEX_ARRIVAL_GRACE + Slowed - clamp_interval(Interval)) * 1000

(* The received map of a link has room for every peer there is. *)
NoneEvicts == Cardinality(Peers) <= PEX_MAX_RECEIVED_PER_LINK

FarLink == Far!Link(LocalPeerId)

(* Both ends have the connection open and the partner listens to us. *)
Joined == side = "Speaking" /\ far_side # "Down" /\ ~FarLink.muted

(* Two engines that run this code never strike or mute each other over an
   orderly connection: one side's spacing, caps, order and exclusions
   (engine.rs:201, 301) always satisfy the other side's checks (engine.rs:446,
   470, 486), as long as their hosts are orderly. *)
NeverStruck ==
    \A l \in {Link(FarId), FarLink} : l.strikes = 0 /\ ~l.muted

(* The told-state is right about the partner (SPEC 9.1): once no frame is under
   way, the partner has heard every id we hold as told, except the ones it
   skipped.  The told-state is committed before the write (engine.rs:327).
   It holds of orderly hosts where none evicts: an eviction is not reported. *)
ToldIsHeard ==
    Joined /\ to_far = <<>>
        => Keys(links[FarId].told) \ Keys(FarLink.received) \subseteq missed

(* And no withdrawal is lost: an id the partner still holds from us is told, or
   a delta that drops it is under way (engine.rs:332, 605). *)
HeardIsTold ==
    Joined => \A id \in Keys(FarLink.received) :
        \/ id \in Keys(links[FarId].told)
        \/ \E i \in DOMAIN to_far :
               /\ to_far[i].body.type = "pex_delta"
               /\ id \in SeqExt!ToSet(to_far[i].body.dropped)

(* SPEC 5.5, link_down (engine.rs:237): a new connection starts fresh.  What
   the engine holds about the incoming direction before the first frame of the
   connection says nothing of an earlier one. *)
StartsFresh ==
    far_side # "Down" /\ ~heard =>
        [FarLink EXCEPT !.handshake_sent = FALSE, !.snapshot_sent = FALSE,
                        !.last_data_send_ms = None, !.send_jitter_ms = 0] = Far!NewLink

(* SPEC 6.4: when delays break the floor, the code-3 reply makes the sender
   back off in time: it is struck once and no more (engine.rs:425, 507). *)
StruckOnce == FarLink.strikes <= 1 /\ ~FarLink.muted
===============================================================================
