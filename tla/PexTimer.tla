------------------------------- MODULE PexTimer -------------------------------
(***************************************************************************)
(* The pure timing rules of the engine (src/src/timer.rs): interval        *)
(* clamping and negotiation, the receiver's arrival floor, send jitter.    *)
(* Intervals are seconds, instants are milliseconds, as in the code.       *)
(***************************************************************************)
EXTENDS Integers

CONSTANTS
    None,                \* Rust's Option::None
    PEX_MIN_INTERVAL,    \* caps.rs: 30 s
    PEX_MAX_INTERVAL,    \* caps.rs: 3600 s
    PEX_ARRIVAL_GRACE,   \* caps.rs: 5 s
    JitterSamples        \* the jitter draws considered, in ms; {0} when cfg.jitter is off

ASSUME NoneAssumption == None \notin Int

ASSUME IntervalAssumption ==
    /\ PEX_MIN_INTERVAL \in Nat
    /\ PEX_MAX_INTERVAL \in Nat
    /\ PEX_ARRIVAL_GRACE \in Nat
    /\ 0 < PEX_ARRIVAL_GRACE
    /\ PEX_ARRIVAL_GRACE < PEX_MIN_INTERVAL
    /\ PEX_MIN_INTERVAL <= PEX_MAX_INTERVAL

ASSUME JitterAssumption == JitterSamples \subseteq Nat /\ 0 \in JitterSamples

Option(S) == S \cup {None}

Larger(a, b) == IF a >= b THEN a ELSE b
Smaller(a, b) == IF a <= b THEN a ELSE b

(* u64::saturating_sub: the age of an instant, 0 when the clock stepped back. *)
saturating_sub(a, b) == IF a >= b THEN a - b ELSE 0

clamp_interval(secs) ==
    Smaller(Larger(secs, PEX_MIN_INTERVAL), PEX_MAX_INTERVAL)

effective_interval_secs(own_declared, remote_declared) ==
    LET remote == IF remote_declared = None THEN 0 ELSE clamp_interval(remote_declared)
    IN  Larger(Larger(clamp_interval(own_declared), remote), PEX_MIN_INTERVAL)

arrival_floor_ms(remote_declared) ==
    (Larger(clamp_interval(remote_declared), PEX_MIN_INTERVAL) - PEX_ARRIVAL_GRACE) * 1000

(* Every draw of jitter_ms: additive, at most a tenth of the interval. *)
jitter_ms(effective_secs) == {j \in JitterSamples : j <= effective_secs * 100}
===============================================================================
