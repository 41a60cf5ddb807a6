\* Turns one after the other; the user renames and deletes meanwhile.
SPECIFICATION Spec
CONSTANTS
  MaxTurns = 4
  MaxRenames = 1
  HistoryLimit = 4
  Upsets = {}
  Theirs = {}
INVARIANTS
  InputAlternates
  ErasedStaysErased
PROPERTIES
  TranscriptKept
CHECK_DEADLOCK FALSE
