--------------------------- MODULE MCSearchIndex ---------------------------
(* The search index on small instances: the constants are set in the cfgs. *)
EXTENDS SearchAlone, TLC

Symmetry == Permutations(Searcher) \cup Permutations(Path) \cup Permutations(Id)
=============================================================================
