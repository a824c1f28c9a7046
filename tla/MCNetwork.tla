------------------------------- MODULE MCNetwork ------------------------------
(***************************************************************************)
(* Two engines, 0 and its partner 1, that talk about the peers 2 and 3.    *)
(* An interval of 4 s with a grace of 2 s keeps the instances small.       *)
(***************************************************************************)
EXTENDS PexNetwork, MCEngine

(* Peers that are updated, and that go stale at different times. *)
News == {About(2, "v1", 0), About(2, "v2", 4), About(3, "v1", 1)}
OneNews == {About(2, "v1", 0)}

(* A run whose delay is within the grace has orderly hosts and evicts nothing:
   what the theorems about the network assume is true of it. *)
ASSUME MaxDelay <= PEX_ARRIVAL_GRACE * 1000 => OrderlyHosts /\ NoneEvicts

(* And one whose delay is beyond it has hosts that the back-off can put right. *)
ASSUME MaxDelay > PEX_ARRIVAL_GRACE * 1000 => SlowHosts

(* The states without what the last calls returned, which is under way in the
   same step, and without the caches, which CacheCoherent shows to hold what
   would be computed. *)
NoOutputs == <<now, links, hints, known, known_epoch, ahead, far_links, far_hints,
               hostVars, to_far, to_near, heard, missed>>
===============================================================================
