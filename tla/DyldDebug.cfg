SPECIFICATION DFairSpec
CONSTANTS
  t1 = t1
  t2 = t2
  dbg = dbg
  Threads = {t1, t2}
  DebugThread = dbg
  NoThread = none
  Stacks = {"s1", "s2", "sd"}
  Depths = {1}
  NoStack = "nostack"
  StacksRecycled = FALSE
  Handlers = {"linkEdit"}
  Clients = {c1}
  Requests = {"query", "bind"}
  MaxRequests = 2
  Timeouts = FALSE
  SleepLongEnough = TRUE
  StackOf <- OwnStack
INVARIANTS
  ServedConsistently
  OnlyDebugThreadRuns
  SuspendCountsRestored
PROPERTY
  AnsweredIfGlobalFree
