--------------------------- MODULE MCImportHistory ---------------------------
(* ImportHistory on small sets of uploads, workers and requests. *)
EXTENDS ImportHistory, TLC

Symmetry == Permutations(Batches) \cup Permutations(Workers) \cup Permutations(Publishers)

=============================================================================
