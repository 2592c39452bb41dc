----------------------------- MODULE MCCluster -----------------------------
(***************************************************************************)
(* Model checking of the cluster.                                          *)
(***************************************************************************)
EXTENDS Cluster, TLC

Symmetry == Permutations(Procs) \union Permutations(Conns)
=============================================================================
