--------------------------- MODULE JobExecutorMC ---------------------------
(***************************************************************************)
(* Instances of JobExecutor for TLC.  a and b are jobs of standard models, *)
(* h of a heavy one, e of an embedding one, c a command-only job.          *)
(***************************************************************************)
EXTENDS JobExecutor, TLC

CONSTANTS a, b, c, e, h

StdModel == [j \in Jobs |-> CASE j = c -> NoModel
                              [] j = a -> "qwen"
                              [] j = b -> "qwen"
                              [] j = e -> "nomic"
                              [] j = h -> "llama70"]
StdProfile == [j \in Jobs |-> CASE j = e -> "embed" [] j = h -> "heavy" [] OTHER -> "ollama"]
UrgentC == [j \in Jobs |-> IF j = c THEN 1 ELSE 5]
Equal == [j \in Jobs |-> 5]
OneRetry == [j \in Jobs |-> IF j \in {a, e} THEN 1 ELSE 0]
NoRetry == [j \in Jobs |-> 0]
Pool == Permutations(Threads)
=============================================================================
