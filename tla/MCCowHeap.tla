------------------------------ MODULE MCCowHeap ------------------------------
(***************************************************************************)
(* An instance of CowHeap for TLC: three vertices, the second one the root *)
(* of the tree, so that an update goes left, right or nowhere.             *)
(***************************************************************************)
EXTENDS CowHeap

LeftChild  == <<0, 1, 0>>
RightChild == <<0, 3, 0>>

Reads == {[kind |-> "edges", u |-> 1]}

\* The readers run the same code.
Symmetry == Permutations(Readers)
=============================================================================
