----------------------------- MODULE MCCluster ------------------------------
(***************************************************************************)
(* Cluster for TLC: children are interchangeable.                          *)
(***************************************************************************)
EXTENDS Cluster, TLC

Symmetry == Permutations(Worker)
=============================================================================
