CONSTANTS
  MaxAttempts = 3
  LineLengths = {301}
  TailLengths = {0, 1400, 4001}
  Digits = {3}
  OtherLengths = {3000}
  Texts <- ShortTexts
  Paths = {model, preview, stray}
  Scad = {model}
  NoPath = none
  MaxWrites = 5
  MaxBytes = 5
  ChunkSize = 3
  TailLines = 2
  TailChars = 1
SPECIFICATION PartsSpec
CHECK_DEADLOCK FALSE
INVARIANTS NewlinesKept
