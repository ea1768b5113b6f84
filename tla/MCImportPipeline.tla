-------------------------- MODULE MCImportPipeline --------------------------
(* ImportPipeline on small sets of uploads, workers and requests. *)
EXTENDS ImportPipeline, FiniteSets, TLC

Symmetry == Permutations(Batches) \cup Permutations(Workers) \cup Permutations(Publishers)

Running == {p \in Processes : run[p] # Idle}

Waiting == {b \in Batches : jobStatus[b] \in {"queued", "processing"}}

\* Bound: all processes run while there is one upload; once there are two, two
\* processes do, and one while both uploads have unsettled jobs.
Bound ==
  /\ Cardinality({b \in Batches : batchStatus[b] # "absent"}) > 1 =>
       Cardinality(Running) <= 2
  /\ Cardinality(Waiting) > 1 => Cardinality(Running) <= 1

=============================================================================
