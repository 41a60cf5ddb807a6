\* Turns one after the other, some of which end in a handoff.
SPECIFICATION Spec
CONSTANTS
  MaxTurns = 3
  MaxRenames = 0
  HistoryLimit = 4
  Upsets = {"handoff"}
  Theirs = {}
INVARIANTS
  ErasedStaysErased
CHECK_DEADLOCK FALSE
