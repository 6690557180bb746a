SPECIFICATION FairSpec
CONSTANTS
  Debuggers = {d1, d2}
  Threads = {p1, p2}
  Starters = {s1, s2}
  Null = null
  HeldCount = 1
  MaxCalls = 1
  PortsMayFail = TRUE
INVARIANTS
  TypeOK
  StartKeepsCounts
  NoDeadThreadFound
PROPERTY
  EveryCallFindsAServer
