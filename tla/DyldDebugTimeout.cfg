SPECIFICATION DSpec
CONSTANTS
  t1 = t1
  t2 = t2
  dbg = dbg
  Threads = {t1, t2}
  DebugThread = dbg
  NoThread = none
  Stacks = {"s1", "s2", "sd"}
  Depths = {1}
  NoStack = "nostack"
  StacksRecycled = FALSE
  Handlers = {"multiple", "linkEdit"}
  Clients = {c1}
  Requests = {"query", "bind"}
  MaxRequests = 1
  Timeouts = TRUE
  SleepLongEnough = FALSE
  StackOf <- OwnStack
INVARIANTS
  DTypeOK
PROPERTY
  KeepsPromise
CHECK_DEADLOCK FALSE
