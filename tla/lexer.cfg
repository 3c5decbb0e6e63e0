CONSTANTS
  Char <- MCChar
  Ascii <- MCAscii
  Sources <- MCSources
SPECIFICATION Spec
CHECK_DEADLOCK FALSE
INVARIANTS TypeOK Tiled Longest PositionsRight FaultsRight StringsMean ReadsInside
