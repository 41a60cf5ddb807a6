\* Everything that can disturb a turn.
SPECIFICATION Spec
CONSTANTS
  MaxTurns = 2
  MaxRenames = 1
  HistoryLimit = 4
  Upsets = {"overlap", "handoff", "loss", "append", "crash", "agent"}
  Theirs = {1}
INVARIANTS
  TypeOK
  NoStrayAnswer
  TurnLeavesPair
  ListedWhenAnswered
  TitleKept
CHECK_DEADLOCK FALSE
