--------------------------- MODULE MCEmailDispatch ---------------------------
(* The dispatches of a run. *)
EXTENDS EmailDispatch, TLC

CONSTANTS d1, d2

\* The two wrapped dispatches are interchangeable.
Symmetry == Permutations({d1, d2})

=============================================================================
