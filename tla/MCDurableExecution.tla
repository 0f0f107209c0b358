------------------------- MODULE MCDurableExecution -------------------------
(***************************************************************************)
(* Instances of DurableExecution for TLC.                                  *)
(***************************************************************************)
EXTENDS DurableExecution, TLC

CONSTANTS c1, c2

Symmetry == Permutations(Callers)

=============================================================================
