-------------------------- MODULE MCLinuxInterface --------------------------
(* Instances of LinuxInterface for TLC. *)
EXTENDS LinuxInterface, TLC

Symmetry == Permutations(Proc)

=============================================================================
