----------------------------- MODULE BreakerGate -----------------------------
(***************************************************************************)
(* What a circuit breaker promises to those who dispatch work, without     *)
(* threads, locks, clocks or failure counts: jobs pass a closed circuit    *)
(* freely, one at most passes from each opening or probing on, and probing *)
(* follows an opening only.  The gate of the daemon (CircuitBreaker) is    *)
(* shown to implement it.                                                  *)
(***************************************************************************)
EXTENDS Naturals

VARIABLES
    phase,      \* "CLOSED", "OPEN" or "HALF_OPEN"
    passed      \* jobs that passed since the phase was entered

vars == <<phase, passed>>

Init == phase = "CLOSED" /\ passed = 0

Pass ==
    /\ phase = "CLOSED" \/ passed = 0
    /\ passed' = passed + 1
    /\ UNCHANGED phase

Enter(p) == phase' = p /\ passed' = 0

Trip  == phase # "OPEN" /\ Enter("OPEN")
Probe == phase = "OPEN" /\ Enter("HALF_OPEN")
Reset == Enter("CLOSED")

Next == Pass \/ Trip \/ Probe \/ Reset

Spec == Init /\ [][Next]_vars
=============================================================================
