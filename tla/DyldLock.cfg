SPECIFICATION Spec
CONSTANTS
  Threads = {t1, t2, t3}
  DebugThread = dbg
  NoThread = none
  Stacks = {s1, s2, s3}
  Depths = {1, 2}
  NoStack = nostack
  StacksRecycled = FALSE
  Handlers = {"multiple", "linkEdit"}
INVARIANTS
  TypeOK
  MutualExclusion
  OwnerIsHolder
  ReentryIsDetected
  KilledOnlyOnReentry
  PeekOnlyInHandler
PROPERTY
  AllowedCallGoesIn
