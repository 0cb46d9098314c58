---------------------------- MODULE MCTestFrame ----------------------------
(* Small instances of TestFrame for TLC. *)
EXTENDS TestFrame, TLC

\* The workers are interchangeable: sound for invariants and action properties.
Symmetry == Permutations(Workers)
=============================================================================
