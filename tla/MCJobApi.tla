------------------------------ MODULE MCJobApi ------------------------------
(* Small instances of JobApi.  Requests are only compared with each other, *)
(* so they are symmetric.                                                  *)
EXTENDS JobApi, TLC

CONSTANTS j1, j2, j3, c1, c2

(* All jobs of one client: their transactions meet on its row. *)
OneOwner == [j \in Jobs |-> c1]

(* Two jobs of one client and one of another. *)
TwoOwners == [j \in Jobs |-> IF j = j3 THEN c2 ELSE c1]

SeededWithFive == [c \in Clients |-> 5]

RequestSymmetry == Permutations(Requests)
=============================================================================
