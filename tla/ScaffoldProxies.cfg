SPECIFICATION FairSpec
CONSTANTS
  Threads = {t1, t2}
  Handles = {h1, h2}
  Objects = {o1, o2}
  None = None
  MaxMethods = 3
  MaxDepth = 5
INVARIANTS
  AskedForLivingHandles
  LockedOutOnlyByErase
  NoHandleForgotten
PROPERTIES
  EveryHandleReturns
CHECK_DEADLOCK FALSE
