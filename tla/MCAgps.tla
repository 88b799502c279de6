------------------------------- MODULE MCAgps -------------------------------
(* Model values and symmetry for checking Agps. *)
EXTENDS Agps

Symmetry == Permutations(Handle)
=============================================================================
