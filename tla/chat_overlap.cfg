\* Two turns of one conversation at the same time.
SPECIFICATION Spec
CONSTANTS
  MaxTurns = 3
  MaxRenames = 0
  HistoryLimit = 4
  Upsets = {"overlap"}
  Theirs = {}
INVARIANTS
  InputAlternates
CHECK_DEADLOCK FALSE
