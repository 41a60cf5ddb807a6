-------------------------------- MODULE Reply --------------------------------
(***************************************************************************)
(* What LLMClient.chat_with_tools promises its consumer, the chat engine   *)
(* (the event types of app/llm/base.py): a stream of events in which       *)
(*   - the tool calls of a round are announced together, then reported one *)
(*     by one, with no text and no end in between;                         *)
(*   - Done comes once, when no announced call is unreported, and nothing  *)
(*     follows it;                                                         *)
(*   - without Done the stream ends only because a tool raised or because  *)
(*     the consumer stopped reading, as it does when it sees a handoff;    *)
(*   - it ends.                                                            *)
(* ToolLoop.tla implements it.                                             *)
(***************************************************************************)
EXTENDS Naturals

CONSTANT MaxCalls   \* tool calls in one round: a positive number

VARIABLES
  phase,   \* "open", "done" or "broken"
  said,    \* has the user been sent any text?
  due      \* tool calls announced and not yet reported

replyVars == <<phase, said, due>>

Init == phase = "open" /\ said = FALSE /\ due = 0

\* TextDelta
Say ==
  /\ phase = "open" /\ due = 0
  /\ said' = TRUE
  /\ UNCHANGED <<phase, due>>

\* ToolStartEvent, one per call of the round
Announce ==
  /\ phase = "open" /\ due = 0
  /\ due' \in 1..MaxCalls
  /\ UNCHANGED <<phase, said>>

\* ToolCallEvent
Report ==
  /\ phase = "open" /\ due > 0
  /\ due' = due - 1
  /\ UNCHANGED <<phase, said>>

\* Done
Finish ==
  /\ phase = "open" /\ due = 0
  /\ phase' = "done"
  /\ UNCHANGED <<said, due>>

\* An exception leaves the generator, or the consumer closes it; the report
\* of a handoff is the last the consumer reads.
Break ==
  /\ phase = "open"
  /\ phase' = "broken"
  /\ due' \in {due, due - 1} \cap Nat
  /\ UNCHANGED said

Next == Say \/ Announce \/ Report \/ Finish \/ Break

Spec == Init /\ [][Next]_replyVars
=============================================================================
