----------------------- MODULE MCTestFrameStatistic -----------------------
(* Small instances of TestFrameStatistic for TLC. *)
EXTENDS TestFrameStatistic, TLC

\* The workers are interchangeable: sound for invariants and action properties.
Symmetry == Permutations(Workers)

\* Each counter by itself, and those that a quotient is made of.
EveryWatch == {{c} : c \in Counters} \cup {{"tested", "divisor", "timeout"}}
=============================================================================
