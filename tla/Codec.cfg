SPECIFICATION CodecSpec
CONSTANTS
  Base = 2
  TicksPerSecond = 4
  Types <- MCTypes
  Values <- MCValues
INVARIANTS
  WritesFit
  NeverAltered
  OnlyForeignRefused
  ReadsAll
