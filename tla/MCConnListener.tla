--------------------------- MODULE MCConnListener ---------------------------
(* Four clients one after the other, three of them at once, with as many     *)
(* descriptors, objects and nodes as that takes.                             *)
EXTENDS ConnListener, TLC

Symmetry == Permutations(Nodes) \cup Permutations(Items)
=============================================================================
