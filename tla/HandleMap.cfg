SPECIFICATION FairSpec
CONSTANTS
  t1 = t1
  t2 = t2
  i1 = i1
  i2 = i2
  Threads <- MCThreads
  Impls <- MCImpls
  None = None
  NoThread = NoThread
  MaxHandle = 3
  MaxDepth = 1
INVARIANTS
  NoUserCodeUnderLock
  HandleDenotesItsObject
  AliveWhileHeld
PROPERTIES
  NoHandleReuse
  ImplementsTable
  SomeWaiterIsServed
