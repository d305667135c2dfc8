SPECIFICATION Spec
CONSTANTS
  Runes <- MCRunes
  Width <- MCWidth
  White <- MCWhite
  Digits <- MCDigits
  Stop = "."
  Placeholder = "E"
  Separators <- MCSeparators
  MaxLength = 5
  MaxRead = 10
  Options <- MCOptions
  Limits = {0, 9}
  DefaultLimit = 2
  MaxLimit = 4
  Invalid = "?"
INVARIANTS TypeOK FoundWithoutOverlap SplitLosesNothing HitReadsItsChunk PagesAreTheSource
CHECK_DEADLOCK FALSE
