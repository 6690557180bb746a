--------------------------- MODULE MC_DyldCallouts ---------------------------
(* Instances of DyldCallouts for TLC: one library with its module linked at  *)
(* the launch, one without, which the bundles need.                          *)
EXTENDS DyldCallouts, TLC

CONSTANTS b1, b2, f1, f2, g1, g2, r1

LaunchLibraries == <<"libSystem", "libLazy">>

BundleNeeds == [b \in Bundles |-> "libLazy"]
LoadsNew    == [b \in Bundles |-> "libNew"]

TwoForAdded  == [add |-> {f1, f2}, link |-> {g1}, remove |-> {r1}]
TwoForLinked == [add |-> {f1, f2}, link |-> {g1, g2}, remove |-> {r1}]

\* Two routines in the bundles, one in libSystem and in a library loaded.
RoutineCounts ==
  [e \in Images |-> CASE e \in Bundles -> 2
                      [] e \in {"libSystem", "libNew"} -> 1
                      [] OTHER -> 0]

\* Threads are interchangeable, and so are the bundles and the functions for
\* added images.
Interchangeable ==
  Permutations(Threads) \cup Permutations(Bundles) \cup Permutations({f1, f2})
=============================================================================
