----------------------------- MODULE MCLocHeap ------------------------------
(* Symmetry for checking LocHeap: addresses are only compared. *)
EXTENDS LocHeap, TLC

Symmetry == Permutations(Address)
=============================================================================
