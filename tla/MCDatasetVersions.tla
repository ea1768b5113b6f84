-------------------------- MODULE MCDatasetVersions --------------------------
(* DatasetVersions, and what the pages offer, on three uploads over two       *)
(* dataset scopes.                                                            *)
EXTENDS Offers, TLC

Symmetry == Permutations(Batches) \cup Permutations(Scopes)

\* Bound: of the three uploads at most one at a time is neither staged nor
\* published nor deleted, and at most one covers both scopes.
Bound ==
  /\ Cardinality({b \in Batches : batchStatus[b] \in
       {"uploaded", "processing", "failed", "validation_failed", "rejected"}}) <= 1
  /\ Cardinality({b \in Batches : ScopesOf(b) = Scopes}) <= 1

\* The steps of CatalogSpec that stay within the bound.
Bounded == CatalogInit /\ [][CatalogNext /\ Bound']_catalogVars

=============================================================================
