---------------------------- MODULE MC_DebugStart ----------------------------
(* Instances of DebugStart for TLC. *)
EXTENDS DebugStart, TLC

StartSymmetry ==
  Permutations(Debuggers) \cup Permutations(Threads) \cup Permutations(Starters)
=============================================================================
