---------------------------- MODULE DeadLettersMC ----------------------------
(* Instances of DeadLetters for TLC; the threads that sweep are alike.     *)
EXTENDS DeadLetters, TLC

Threads == Permutations(Sweepers)
=============================================================================
