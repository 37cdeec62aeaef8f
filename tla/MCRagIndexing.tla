--------------------------- MODULE MCRagIndexing ---------------------------
(***************************************************************************)
(* Small instances of RagIndexing.                                         *)
(***************************************************************************)
EXTENDS RagIndexing, TLC

CONSTANTS r1, r2

MCRuns == {r1, r2}
Symmetry == Permutations(MCRuns)
=============================================================================
