--------------------------- MODULE MC_DyldEvents ---------------------------
(* Instances of DyldEvents for TLC: a bundle that brings a library with it,  *)
(* and another one that fails after it has loaded one.                       *)
EXTENDS DyldEvents, TLC

AtLaunch == <<"exe">>
LoadsOf  == [b1 |-> <<"libNew">>, b2 |-> <<"libNew", "libOther">>]

\* Threads are alike.
Symmetry == Permutations(Threads)
=============================================================================
