SPECIFICATION Spec
CONSTANTS
  Crates <- MCCrates
  Imports <- MCImports
  Names <- MCNames
  RustName = "rust"
  MaxRuns = 2
CHECK_DEADLOCK FALSE
INVARIANTS
  NamesAgree
  MixedOnlyByWriteError
  SuccessIsComplete
