----------------------------- MODULE MC_Dlopen -----------------------------
(* Instances of Dlopen for TLC. *)
EXTENDS Dlopen, TLC

\* Memory for handles, files and callers are alike.
Symmetry == Permutations(Callers) \cup Permutations(Handles) \cup Permutations(Files)

OpenModes == {{}, {"GLOBAL"}, {"NOLOAD"}, {"UNSHARED"}}
=============================================================================
