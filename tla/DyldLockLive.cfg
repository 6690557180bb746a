SPECIFICATION FairSpec
CONSTANTS
  Threads = {t1, t2}
  DebugThread = dbg
  NoThread = none
  Stacks = {s1, s2}
  Depths = {1}
  NoStack = nostack
  StacksRecycled = FALSE
  Handlers = {"multiple", "linkEdit"}
PROPERTIES
  ReleaseCompletes
  WaitersGetIn
  KeepsPromise
