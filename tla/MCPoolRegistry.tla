--------------------------- MODULE MCPoolRegistry ---------------------------
(* Small instances of PoolRegistry for TLC. *)
EXTENDS PoolRegistry, TLC

CONSTANT a

\* Every request on the single replica.
OneReplica == [r \in Requests |-> a]

Symmetric == Permutations(Pools)
=============================================================================
