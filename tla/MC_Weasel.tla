----------------------------- MODULE MC_Weasel -----------------------------
(* Instances of Weasel for TLC. *)
EXTENDS Weasel, TLC

Symmetry == Permutations(Addresses)
=============================================================================
