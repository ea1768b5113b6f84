--------------------------------- MODULE Sums ---------------------------------
(* Sums, as the queries and reports make them. *)
EXTENDS Naturals, FiniteSets, FiniteSetsExt

\* The sum of what is given for each of some.
Total(amounts, some) == MapThenSumSet(LAMBDA x : amounts[x], some)

=============================================================================
