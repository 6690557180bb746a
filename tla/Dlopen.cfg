SPECIFICATION Spec
CONSTANTS
  Callers = {c1, c2, c3}
  None = none
  Files = {f1, f2}
  Handles = {h1, h2, h3}
  Modules = {1, 2, 3}
  Modes <- OpenModes
  MaxRefs = 2
  FiniReopens = FALSE
SYMMETRY Symmetry
INVARIANTS
  TypeOK
  OpenHandlesWork
  NothingLeaks
CHECK_DEADLOCK FALSE
