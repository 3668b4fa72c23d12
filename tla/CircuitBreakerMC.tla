-------------------------- MODULE CircuitBreakerMC --------------------------
(* Instances of CircuitBreaker for TLC: a few interchangeable jobs.        *)
EXTENDS CircuitBreaker, TLC

JobSymmetry == Permutations(Jobs)
=============================================================================
