---------------------------- MODULE MCLinkedList ----------------------------
(***************************************************************************)
(* A small instance of LinkedList for TLC.                                 *)
(***************************************************************************)
EXTENDS LinkedList, TLC

Symmetry == Permutations(Nodes) \cup Permutations(Contents)
=============================================================================
