----------------------------- MODULE MCPipeline -----------------------------
(* Instances of Pipeline for TLC.                                          *)
EXTENDS Pipeline

\* The filters are interchangeable.
Symmetry == Permutations(Filters)
=============================================================================
