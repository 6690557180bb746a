SPECIFICATION Spec
CONSTANTS
  Threads = {t1, t2}
  None = none
  Executable = "exe"
  b1 = b1
  b2 = b2
  f1 = f1
  f2 = f2
  g1 = "g1"
  g2 = "g2"
  r1 = "r1"
  Bundles = {b1, b2}
  Libraries <- LaunchLibraries
  Unbound = {"libLazy"}
  Needs <- BundleNeeds
  Functions <- TwoForAdded
  Routines <- RoutineCounts
  CallsDuringLaunch = FALSE
SYMMETRY Interchangeable
INVARIANTS
  TypeOK
  CalledOnce
  LinkedCompletely
  AddFunctionsSeeAll
PROPERTY
  ExitTerminatesAll
