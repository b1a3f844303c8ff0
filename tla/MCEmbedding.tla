---------------------------- MODULE MCEmbedding ----------------------------
(* Small instances of Embedding for TLC. *)
EXTENDS Embedding

CONSTANTS c1, c2

OneContext == {c1}
TwoContexts == {c1, c2}

\* The objects are interchangeable.
Symmetry == Permutations(TwoContexts)

\* The delay of a call that gives none is enough here.
NoOtherDelay == {}
=============================================================================
