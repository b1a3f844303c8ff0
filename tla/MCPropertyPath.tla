--------------------------- MODULE MCPropertyPath ---------------------------
(* A small heap for PropertyPath. *)
EXTENDS PropertyPath

CONSTANTS x, y, a, one

TwoSlots == {x, y}
OneObject == {a}
OneLeaf == {one}

\* A script may replace the object that is to be written.
ShortNames == {<<x, y>>, <<y, x>>}

\* The slots are interchangeable.
Symmetry == Permutations(TwoSlots)
=============================================================================
