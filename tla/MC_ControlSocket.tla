-------------------------- MODULE MC_ControlSocket --------------------------
(***************************************************************************)
(* An instance of ControlSocket for TLC: the ring is smaller than the      *)
(* number of fetches, and so full before the last of them.                 *)
(***************************************************************************)
EXTENDS ControlSocket, TLC

Symmetry == Permutations(Task) \cup Permutations(Class)
=============================================================================
