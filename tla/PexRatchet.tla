------------------------------ MODULE PexRatchet ------------------------------
(***************************************************************************)
(* The engine with a history variable: how often the interval of a link    *)
(* was doubled since the last data message on it.  No timestamp tells      *)
(* this, for the host's clock may step back over all of them.              *)
(***************************************************************************)
EXTENDS PexEngine

VARIABLE ratchets   \* partner -> how often its errors doubled our interval

ratchetVars == <<vars, ratchets>>

(* This step sends a snapshot or a delta to p. *)
DataSent(p) == \E m \in out'.sent : m.to = p /\ m.type # "pex_handshake"

(* This step makes our interval on the link to p longer, at an instant that is
   not before the last data message on it. *)
Ratchets(p) ==
    /\ p \in Keys(links) /\ p \in Keys(links')
    /\ links'[p].self_interval_secs > links[p].self_interval_secs
    /\ links[p].last_data_send_ms # None => links[p].last_data_send_ms <= now

RatchetInit == Init /\ ratchets = [p \in Partners |-> 0]

RatchetNext ==
    /\ Next
    /\ ratchets' = [p \in Partners |->
           IF links'[p] = None \/ DataSent(p) THEN 0
           ELSE IF Ratchets(p) THEN ratchets[p] + 1
           ELSE ratchets[p]]

RatchetSpec == RatchetInit /\ [][RatchetNext]_ratchetVars

-----------------------------------------------------------------------------
(* PEX-16: from one data message on a link to the next, code-3 errors double
   our interval at most once, however many arrive and whenever they do
   (engine.rs:427-433).  Not counted are doublings while the host's clock is
   behind the instant of the message: there the code takes the age of the
   message for 0 and an error for plausible, and only the rate limit holds.  If
   the clock does not step back, every doubling is counted. *)
ErrorsRatchetOnce == \A p \in Partners : ratchets[p] <= 1
===============================================================================
