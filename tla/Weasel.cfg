SPECIFICATION Spec
CONSTANTS
  Threads = {t0, t1}
  Main = t0
  Addresses = {a1, a2}
  MaxBreakpoints = 4
  MaxQueue = 2
SYMMETRY Symmetry
INVARIANTS
  TypeOK
  InstructionsAreKept
  ContinueContinues
CHECK_DEADLOCK FALSE
