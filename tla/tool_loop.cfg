\* One reply of up to three rounds, each with one or two tool calls.
SPECIFICATION Spec
CONSTANTS
  search = search
  escalate = escalate
  Tools = {search, escalate}
  Handoffs = {escalate}
  MaxRounds = 3
  MaxCalls = 2
INVARIANTS
  TypeOK
  CallsAreAnswered
  HandoffIsLast
PROPERTIES
  DoubledByNudge
  DeadlineHolds
  ReplyEnds
  EventsKeepContract
CHECK_DEADLOCK FALSE
