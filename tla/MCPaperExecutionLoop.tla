------------------------ MODULE MCPaperExecutionLoop ------------------------
(***************************************************************************)
(* Instances of PaperExecutionLoop for TLC.                                *)
(***************************************************************************)
EXTENDS PaperExecutionLoop

CONSTANTS k1, k2, k3

Symmetry == Permutations(Keys)

\* No action reads last, and neither do the invariants of loop_orders: states that
\* differ in it alone are one.
WithoutLast == <<mem, disk, ledger, clock>>

=============================================================================
