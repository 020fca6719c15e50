----------------------------- MODULE MC_Seeding -----------------------------
(***************************************************************************)
(* Instances of Seeding for TLC.                                           *)
(***************************************************************************)
EXTENDS Seeding, TLC

Symmetry == Permutations(Conn) \cup Permutations(Caller)
=============================================================================
