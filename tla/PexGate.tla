-------------------------------- MODULE PexGate -------------------------------
(***************************************************************************)
(* What one incoming direction promises (SPEC 5.2, 5.3, 5.5, 11.2), with   *)
(* no message, clock or entry in it: a gate that opens in two steps, and   *)
(* that enough strikes shut until the link is closed.  What happens first  *)
(* on a closed gate also sets it up.                                       *)
(***************************************************************************)
EXTENDS Naturals

CONSTANTS
    Limit,   \* the strikes that shut the gate
    Ids      \* the peer ids a partner may vouch for

VARIABLES gate, strikes, heard

gateVars == <<gate, strikes, heard>>

GateInit == gate = "Closed" /\ strikes = 0 /\ heard = {}

Ungreeted == gate \in {"Closed", "AwaitingHandshake"}

(* The link is set up, by our own side or by a message that says nothing. *)
SetUp ==
    /\ gate = "Closed"
    /\ gate' = "AwaitingHandshake"
    /\ UNCHANGED <<strikes, heard>>

(* A good handshake: nothing was heard yet. *)
Greet ==
    /\ Ungreeted
    /\ gate' = "AwaitingSnapshot"
    /\ UNCHANGED <<strikes, heard>>

(* The one snapshot, or a later delta, says which ids the partner vouches for. *)
Hear ==
    /\ gate \in {"AwaitingSnapshot", "Streaming"}
    /\ gate' = "Streaming"
    /\ heard' \in SUBSET Ids
    /\ UNCHANGED strikes

(* A handshake for another version or network: shut, and no strike. *)
Mismatch ==
    /\ Ungreeted
    /\ gate' = "Muted"
    /\ heard' = {}
    /\ UNCHANGED strikes

(* A violation opens nothing; the last one shuts the gate and forgets. *)
Strike ==
    /\ strikes' = strikes + 1
    /\ \/ /\ strikes' >= Limit \/ gate = "Muted"
          /\ gate' = "Muted"
          /\ heard' = {}
       \/ /\ strikes' < Limit /\ gate # "Muted"
          /\ gate' = IF Ungreeted THEN "AwaitingHandshake" ELSE gate
          /\ UNCHANGED heard

(* Only the end of the link closes the gate and forgives. *)
Close == gate' = "Closed" /\ strikes' = 0 /\ heard' = {}

GateNext == SetUp \/ Greet \/ Hear \/ Mismatch \/ Strike \/ Close

GateSpec == GateInit /\ [][GateNext]_gateVars
===============================================================================
