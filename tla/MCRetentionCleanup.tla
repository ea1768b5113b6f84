------------------------- MODULE MCRetentionCleanup -------------------------
(* RetentionCleanup on small sets of uploads, workers and requests. *)
EXTENDS RetentionCleanup, TLC

Symmetry == Permutations(Batches) \cup Permutations(Workers) \cup Permutations(Publishers)

=============================================================================
