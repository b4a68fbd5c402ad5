SPECIFICATION Spec
CONSTANTS
  t1 = t1
  t2 = t2
  o1 = o1
  o2 = o2
  o3 = o3
  a1 = a1
  a2 = a2
  w1 = w1
  w2 = w2
  w3 = w3
  w4 = w4
  Threads <- MCThreads
  Objects <- MCObjects
  Addresses <- MCAddresses
  Wrappers <- MCWrappers
  None = None
  MaxArgs = 2
  MaxLost = 1
SYMMETRY Symmetry
INVARIANTS
  CountsExact
  KeysNameTheLiving
  RightObject
  LivesAsReferred
PROPERTIES
  ImplementsReferences
