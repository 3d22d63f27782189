----------------------------- MODULE MCPipeline -----------------------------
(* One client and one job; two workers, so that executions overlap; two    *)
(* reports that cost differently, and funds for both but not for the dear  *)
(* one twice.                                                              *)
EXTENDS Pipeline, TLC

CONSTANTS j1, c1, cheap, dear

OneOwner == [j \in Jobs |-> c1]
SeededWithThree == [c \in Clients |-> 3]
UsageOfTwo == [d \in Reports |-> IF d = cheap THEN 1 ELSE 2]
WorkerSymmetry == Permutations(Workers)
=============================================================================
