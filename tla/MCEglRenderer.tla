--------------------------- MODULE MCEglRenderer ---------------------------
(* EglRenderer for TLC: surfaces are interchangeable.                      *)
EXTENDS EglRenderer, TLC

Symmetry == Permutations(Surfaces)

=============================================================================
