-------------------------------- MODULE MCEngine ------------------------------
(***************************************************************************)
(* The engine on small instances.  The partners are 1 and 2, the engine    *)
(* itself is 0, and the entries are about 3, 4 and 5 (or a partner).  Each  *)
(* configuration picks the messages and first-hand entries of its slice.   *)
(***************************************************************************)
EXTENDS PexEngine

(* Contents: two versions of an advertisement, and a malformed one with the
   fingerprint of the first. *)
AllContents == {"v1", "v2", "bad"}
GoodContents == {"v1", "v2"}
Prints == [c \in AllContents |-> IF c = "v2" THEN 2 ELSE 1]
Sizes == [c \in AllContents |-> IF c = "v2" THEN 60 ELSE 40]

About(id, content, seen) == [peer_id |-> id, content |-> content, last_seen |-> seen]

Hello(version, network, interval) ==
    [type |-> "pex_handshake", version |-> version, network_id |-> network, interval |-> interval]
Snap(peers) == [type |-> "pex_snapshot", peers |-> peers]
Delta(added, dropped) == [type |-> "pex_delta", added |-> added, dropped |-> dropped]
Error(code) == [type |-> "pex_error", code |-> code]

-----------------------------------------------------------------------------
(* Receiving: violations of every kind, and two partners that vouch for,
   update and withdraw the same id. *)
InboundMessages ==
    { Hello(1, "main", 30), Hello(2, "main", 30), Hello(1, "test", 30),
      Snap(<<About(3, "v1", 10)>>),
      Snap(<<About(3, "v1", 20), About(1, "v1", 20)>>),
      Snap(<<About(3, "v1", 10), About(3, "v1", 20), About(3, "v1", 10)>>),
      Delta(<<About(3, "v1", 90)>>, <<>>),
      Delta(<<About(3, "bad", 20), About(0, "v1", 20), About(3, "v2", 20)>>, <<>>),
      Delta(<<>>, <<3, 4>>),
      Delta(<<About(3, "v1", 10)>>, <<3>>),
      Delta(<<>>, <<3, 3, 3, 3>>) }

(* Receiving with accumulators that overflow. *)
EvictionMessages ==
    { Hello(1, "main", 30),
      Snap(<<About(3, "v1", 10), About(4, "v1", 20)>>),
      Snap(<<About(5, "v1", 15)>>),
      Delta(<<About(5, "v1", 15), About(3, "v1", 10)>>, <<>>),
      Delta(<<About(4, "v1", 5)>>, <<3>>),
      Delta(<<About(5, "v1", 40)>>, <<4>>) }

(* Two partners that know the same id, one of them twice and differently. *)
RivalMessages ==
    { Hello(1, "main", 30), Snap(<<About(3, "v1", 10)>>), Snap(<<About(3, "v1", 20)>>),
      Delta(<<>>, <<3>>), Delta(<<About(3, "v1", 5)>>, <<>>) }

(* Sending: a partner that asks for more time. *)
SlowPartner == {Hello(1, "main", 60)}
Gossip == {About(3, "v1", 0), About(3, "v2", 50), About(2, "v1", 20)}

(* Back-off: errors, deserved or not, and an entry that goes stale or, once
   updated, does not. *)
Errors == {Error(3), Hello(1, "main", 60)}
Toggle == {About(3, "v1", 0), About(3, "v2", 150)}

(* A host clock that may step back. *)
BackAndForth == {15000, -15000}

(* Everything together, in miniature. *)
MixedMessages ==
    { Hello(1, "main", 60), Snap(<<About(3, "v1", 10)>>), Delta(<<>>, <<3>>), Error(3) }
MixedGossip == {About(0, "v1", 30)} \cup Toggle
===============================================================================
