-------------------------- MODULE MCPaperPipeline --------------------------
(* Small instances of PaperPipeline for TLC.  The runs are interchangeable;   *)
(* the symmetry is used for safety only.                                      *)
EXTENDS PaperPipeline, TLC

Symmetry == Permutations(Runs) \cup Permutations(Ops)

=============================================================================
