-------------------------- MODULE MCQueryLifecycle --------------------------
(* Instances of QueryLifecycle for TLC. *)
EXTENDS QueryLifecycle, TLC

CONSTANTS a1, r1   \* one key of each plugin

MCTool == [k \in Keys |-> IF k = a1 THEN "aerospike" ELSE "redis"]
Symmetry == Permutations(Handlers)
=============================================================================
