CONSTANTS
  Char <- MCChar
  Ascii <- MCAscii
  Sources <- DoubledSources
SPECIFICATION Spec
CHECK_DEADLOCK FALSE
INVARIANTS StringsClose
