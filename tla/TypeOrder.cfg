SPECIFICATION OrderFairSpec
CONSTANTS
  A = A
  B = B
  C = C
  X = X
  Types <- MCTypes
  External <- MCExternal
INVARIANTS
  DefinedAfterNeeds
  PanicOnlyOnCycle
PROPERTIES
  AllDefined
CHECK_DEADLOCK FALSE
