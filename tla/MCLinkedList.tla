---------------------------- MODULE MCLinkedList ----------------------------
(***************************************************************************)
(* Nodes and lists are interchangeable: which of the free ones calloc      *)
(* returns makes no difference.                                            *)
(***************************************************************************)
EXTENDS LinkedList, TLC
NodeSymmetry == Permutations(Nodes) \cup Permutations(Lists)
=============================================================================
