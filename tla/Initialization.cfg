SPECIFICATION FairSpec
CONSTANTS
  t1 = t1
  t2 = t2
  A = A
  B = B
  va = va
  vb = vb
  Threads <- MCThreads
  Namespaces <- MCNamespaces
  VTables <- MCVTables
  Home <- MCHome
  Imports <- MCImports
  Locals <- MCLocals
  Libraries <- MCLibraries
  MaxDepth = 3
INVARIANTS
  NoThrowIntoRust
  RustRunsOnlyInitialized
PROPERTIES
  InitializeEnds
