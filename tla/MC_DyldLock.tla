----------------------------- MODULE MC_DyldLock -----------------------------
(* Instances of DyldLock for TLC. *)
EXTENDS DyldLock, TLC

ThreadSymmetry == Permutations(Threads)
=============================================================================
