---------------------------- MODULE MCNginxStats ----------------------------
(* Instances of NginxStats for TLC. *)
EXTENDS NginxStats, TLC

CONSTANTS p1, p2

Symmetry == Permutations(Proc)
=============================================================================
