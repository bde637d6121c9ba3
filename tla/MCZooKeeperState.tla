-------------------------- MODULE MCZooKeeperState --------------------------
(* Instances of ZooKeeperState for TLC. *)
EXTENDS ZooKeeperState, TLC

CONSTANTS p1, p2

Symmetry == Permutations(Proc)
=============================================================================
