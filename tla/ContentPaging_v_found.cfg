SPECIFICATION Spec
CONSTANTS
  Runes <- MCRunes
  Width <- MCWidth
  White <- MCWhite
  Digits <- MCDigits
  Stop = "."
  Placeholder = "E"
  Separators <- MCSeparators
  MaxLength = 5
  MaxRead = 10
  Options <- MCOverlapping
  Limits = {0, 9}
  DefaultLimit = 2
  MaxLimit = 4
  Invalid = "?"
INVARIANT EveryChunkIsFound
CHECK_DEADLOCK FALSE
