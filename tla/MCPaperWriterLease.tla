------------------------- MODULE MCPaperWriterLease -------------------------
(***************************************************************************)
(* Instances of PaperWriterLease for TLC.                                  *)
(***************************************************************************)
EXTENDS PaperWriterLease, TLC

CONSTANTS w1, w2, w3, f1, n1

\* Time moves on in steps of one unit.
Forward == {1}

Symmetry == Permutations(Writers)

=============================================================================
