SPECIFICATION Spec
CONSTANTS
  Threads = {t1, t2}
  None = none
  Subscribers = {s1, s2, s3}
  Inconsistent = {s2}
  MayStop = {s3}
  HeadMayStop = FALSE
  Images <- AtLaunch
  Bundles = {"b1", "b2"}
  LoadsWith <- LoadsOf
  Failing = {"b2"}
  Unlinks = {"b1"}
  Referenced = {"b1"}
SYMMETRY Symmetry
INVARIANTS
  TypeOK
  ImagesAreKnown
  KnownAreMapped
  BoundAreKnown
CHECK_DEADLOCK FALSE
