SPECIFICATION FairSpec
CONSTANTS
  t1 = t1
  t2 = t2
  w1 = w1
  w2 = w2
  Threads <- MCThreads
  RustObjs = {r1}
  CppObjs = {i1}
  Wrappers <- MCWrappers
  None = None
  MaxHandle = 3
  MaxArcs = 1
  MaxDepth = 3
  MaxLost = 1
INVARIANTS
  StrongCountExact
  NoUseAfterFree
  ForeignHandlesOwnedOnce
PROPERTIES
  ReceivedIsLifted
CHECK_DEADLOCK FALSE
