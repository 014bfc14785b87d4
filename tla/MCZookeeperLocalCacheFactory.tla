-------------------- MODULE MCZookeeperLocalCacheFactory --------------------
(* Threads a1, a2 and c2 run on node n1, c1 runs on n2; an object depends   *)
(* on d1, or on both dependencies.                                         *)
EXTENDS ZookeeperLocalCacheFactory, TLC

CONSTANTS n1, n2, a1, a2, c1, c2, k1, k2, d1, d2

MCHome == [t \in Adders \cup Callers |-> IF t = c1 THEN n2 ELSE n1]

MCSymmetry == Permutations(Adders) \cup Permutations(Objects)

MCDependsOn == [k \in Objects |-> IF k = k1 THEN {d1} ELSE Dependencies]
=============================================================================
