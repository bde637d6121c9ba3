------------------------- MODULE MCContextSwitches --------------------------
(* Instances of ContextSwitches for TLC. *)
EXTENDS ContextSwitches

CONSTANTS p1, p2

=============================================================================
