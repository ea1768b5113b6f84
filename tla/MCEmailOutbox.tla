--------------------------- MODULE MCEmailOutbox ----------------------------
(* EmailOutbox on one or two messages; the fairness is checked without symmetry. *)
EXTENDS EmailOutbox

=============================================================================
