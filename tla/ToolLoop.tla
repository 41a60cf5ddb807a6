------------------------------- MODULE ToolLoop -------------------------------
(***************************************************************************)
(* One reply: AnthropicMaaSClient.chat_with_tools                          *)
(* (app/llm/anthropic_client.py) as the chat engine consumes it.  The loop *)
(* asks the model, runs the tools it calls, appends calls and results to   *)
(* the conversation and asks again, until the model answers, a request     *)
(* fails, the rounds are used up or the time limit (SLA) is past.          *)
(*                                                                         *)
(* The clock is abstracted to the two thresholds the loop compares it      *)
(* with: before the SLA, past it, past 1.5 times the SLA (the hard limit). *)
(* The model is free: any text, any tool of the agent whether it was       *)
(* offered in this round or not (the executor does not ask), any failure.  *)
(***************************************************************************)
EXTENDS Naturals, Sequences

CONSTANTS
  Tools,      \* names of the agent's tools
  Handoffs,   \* those whose result may name an agent: escalate, delegate, ...
  MaxRounds,  \* max_rounds
  MaxCalls    \* bound: tool calls in one answer of the model

ASSUME ToolsAssumption == Handoffs \subseteq Tools
ASSUME BoundsAssumption == MaxRounds \in Nat /\ MaxCalls \in Nat \ {0}

VARIABLES
  mode,      \* arguments stream and parallel_tools, and whether an SLA is set
  clock,     \* 0 before the SLA, 1 past it, 2 past the hard limit
  pc,        \* where the generator is
  round,     \* requests made
  started,   \* clock at the head of the current round
  convo,     \* the messages a request carries
  calls,     \* tools called in this round, in the model's order
  finished,  \* indices of those that have run, in the order they ended
  outcome,   \* what each of them returned
  reported,  \* how many have been reported to the consumer
  said,      \* has the user been sent any text?
  stop       \* the stop_reason

vars == <<mode, clock, pc, round, started, convo, calls, finished, outcome,
          reported, said, stop>>

Failures == {"timeout", "api_error", "connection_error"}
Batches == UNION {[1..n -> Tools] : n \in 1..MaxCalls}

\* A message: its role, the calls it makes, the results it brings - the id each
\* answers and the index of the call whose output it holds.
UserText == [role |-> "user", calls |-> <<>>, results |-> <<>>]

Init ==
  /\ mode \in [stream : BOOLEAN, parallel : BOOLEAN, sla : BOOLEAN]
  /\ clock = 0
  /\ pc = "head"
  /\ round = 0
  /\ started = 0
  /\ convo = <<UserText>>
  /\ calls = <<>>
  /\ finished = <<>>
  /\ outcome = <<>>
  /\ reported = 0
  /\ said = FALSE
  /\ stop = "none"

Live == pc \notin {"done", "raised", "closed"}

Tick ==
  /\ Live /\ clock < 2
  /\ clock' = clock + 1
  /\ UNCHANGED <<mode, pc, round, started, convo, calls, finished, outcome,
                 reported, said, stop>>

-----------------------------------------------------------------------------
(* Asking the model *)

\* Mutant: the hard limit is not looked at.
NoHardLimit == FALSE

\* _round_tools_for_elapsed at the head of this round: no tools, stop after it.
HardLimit == mode.sla /\ started = 2

\* Mutant: one round too many.
AskOnceMore ==
  /\ pc = "head" /\ round <= MaxRounds
  /\ pc' = "model"
  /\ round' = round + 1
  /\ started' = clock
  /\ UNCHANGED <<mode, clock, convo, calls, finished, outcome, reported, said, stop>>

Ask ==
  /\ pc = "head" /\ round < MaxRounds
  /\ pc' = "model"
  /\ round' = round + 1
  /\ started' = clock
  /\ UNCHANGED <<mode, clock, convo, calls, finished, outcome, reported, said, stop>>

\* for ... else: the model still wanted tools when the rounds were used up.
OutOfRounds ==
  /\ pc = "head" /\ round = MaxRounds
  /\ pc' = "done"
  /\ stop' = "max_tool_rounds"
  /\ UNCHANGED <<mode, clock, round, started, convo, calls, finished, outcome,
                 reported, said>>

\* Text deltas: while the answer arrives when streaming, from the complete
\* answer otherwise.
Text ==
  /\ pc = IF mode.stream THEN "model" ELSE "answer"
  /\ said' = TRUE
  /\ UNCHANGED <<mode, clock, pc, round, started, convo, calls, finished, outcome,
                 reported, stop>>

\* Timeout, API status or broken connection: an apology, then Done.
RequestFails ==
  /\ pc = "model"
  /\ pc' = "apology"
  /\ said' = TRUE
  /\ stop' \in Failures
  /\ UNCHANGED <<mode, clock, round, started, convo, calls, finished, outcome,
                 reported>>

\* An exception the loop does not catch.
RequestRaises ==
  /\ pc = "model"
  /\ pc' = "raised"
  /\ UNCHANGED <<mode, clock, round, started, convo, calls, finished, outcome,
                 reported, said, stop>>

Apologised ==
  /\ pc = "apology"
  /\ pc' = "done"
  /\ UNCHANGED <<mode, clock, round, started, convo, calls, finished, outcome,
                 reported, said, stop>>

Answer ==
  /\ pc = "model"
  /\ pc' = "answer"
  /\ stop' \in {"end_turn", "max_tokens", "tool_use"}
  /\ UNCHANGED <<mode, clock, round, started, convo, calls, finished, outcome,
                 reported, said>>

\* The answer ends the loop.
LastAnswer ==
  /\ pc = "answer"
  /\ HardLimit \/ stop # "tool_use"
  /\ pc' = "done"
  /\ stop' = IF HardLimit THEN "sla_deadline" ELSE stop
  /\ UNCHANGED <<mode, clock, round, started, convo, calls, finished, outcome,
                 reported, said>>

-----------------------------------------------------------------------------
(* Running the tools *)

\* The answer calls tools; all are announced before any runs.
CallTools ==
  /\ pc = "answer"
  /\ ~HardLimit /\ stop = "tool_use"
  /\ pc' = "run"
  /\ calls' \in Batches
  /\ finished' = <<>>
  /\ outcome' = [i \in DOMAIN calls' |-> "none"]
  /\ reported' = 0
  /\ UNCHANGED <<mode, clock, round, started, convo, said, stop>>

HasRun(i) == outcome[i] # "none"
Raised == \E i \in DOMAIN calls : outcome[i] = "raise"

\* execute_tools_maybe_parallel: all at once, or one after the other until one
\* raises.
RunTool(i) ==
  /\ pc = "run" /\ ~HasRun(i)
  /\ mode.parallel \/ (i = Len(finished) + 1 /\ ~Raised)
  /\ finished' = Append(finished, i)
  /\ \E o \in {"answer", "raise"} \cup {h \in {"handoff"} : calls[i] \in Handoffs} :
       outcome' = [outcome EXCEPT ![i] = o]
  /\ UNCHANGED <<mode, clock, pc, round, started, convo, calls, reported, said, stop>>

\* Mutant: a tool's exception is swallowed and Done sent.
GatherQuietly ==
  /\ pc = "run"
  /\ (\A i \in DOMAIN calls : HasRun(i)) \/ (~mode.parallel /\ Raised)
  /\ pc' = IF Raised THEN "done" ELSE "report"
  /\ UNCHANGED <<mode, clock, round, started, convo, calls, finished, outcome,
                 reported, said, stop>>

\* Mutant: every call is waited for, also those that will never start.
GatherAll ==
  /\ pc = "run"
  /\ \A i \in DOMAIN calls : HasRun(i)
  /\ pc' = IF Raised THEN "raised" ELSE "report"
  /\ UNCHANGED <<mode, clock, round, started, convo, calls, finished, outcome,
                 reported, said, stop>>

\* The results are there, or a tool's exception leaves the generator.
Gather ==
  /\ pc = "run"
  /\ (\A i \in DOMAIN calls : HasRun(i)) \/ (~mode.parallel /\ Raised)
  /\ pc' = IF Raised THEN "raised" ELSE "report"
  /\ UNCHANGED <<mode, clock, round, started, convo, calls, finished, outcome,
                 reported, said, stop>>

\* Mutant: results in the order the tools ended.
AsCompleted == finished

\* The call whose output is the i-th result: futures are read in call order.
ResultOrder == [i \in DOMAIN calls |-> i]

\* Mutant: the consumer leaves only when the handoff was the last call.
ReportUntilLast ==
  /\ pc = "report" /\ reported < Len(calls)
  /\ reported' = reported + 1
  /\ pc' = IF reported' = Len(calls) /\ outcome[ResultOrder[reported']] = "handoff"
             THEN "closed" ELSE pc
  /\ UNCHANGED <<mode, clock, round, started, convo, calls, finished, outcome,
                 said, stop>>

\* A tool's result is shown; on a handoff the chat engine stops reading.
Report ==
  /\ pc = "report" /\ reported < Len(calls)
  /\ reported' = reported + 1
  /\ pc' = IF outcome[ResultOrder[reported']] = "handoff" THEN "closed" ELSE pc
  /\ UNCHANGED <<mode, clock, round, started, convo, calls, finished, outcome,
                 said, stop>>

\* Mutant: the nudge comes before the calls.
NudgeFirst(asked, brings, nudge) == nudge \o <<asked, brings>>

RoundMessages(asked, brings, nudge) == <<asked, brings>> \o nudge

\* Calls and results join the conversation; past the SLA a nudge follows them.
NextRound ==
  LET asked  == [role |-> "assistant", calls |-> calls, results |-> <<>>]
      brings == [role |-> "user", calls |-> <<>>,
                 results |-> [i \in DOMAIN calls |-> [id |-> i, of |-> ResultOrder[i]]]]
      nudge  == IF mode.sla /\ clock > 0 THEN <<UserText>> ELSE <<>>
  IN
  /\ pc = "report" /\ reported = Len(calls)
  /\ convo' = convo \o RoundMessages(asked, brings, nudge)
  /\ pc' = "head"
  /\ UNCHANGED <<mode, clock, round, started, calls, finished, outcome, reported,
                 said, stop>>

\* The client disconnects: the generator is closed where it last yielded.
AtYield ==
  \/ said /\ pc = IF mode.stream THEN "model" ELSE "answer"
  \/ pc = "apology"
  \/ pc = "run" /\ finished = <<>>
  \/ pc = "report" /\ reported > 0
Leave ==
  /\ AtYield
  /\ pc' = "closed"
  /\ UNCHANGED <<mode, clock, round, started, convo, calls, finished, outcome,
                 reported, said, stop>>

-----------------------------------------------------------------------------

\* What the thread that serves the reply does by itself.  Every wait in it is
\* bounded: requests by request_timeout, catalog tools by tool_timeout_seconds.
Step ==
  \/ Ask \/ OutOfRounds
  \/ Text \/ RequestFails \/ RequestRaises \/ Apologised
  \/ Answer \/ LastAnswer \/ CallTools
  \/ \E i \in DOMAIN calls : RunTool(i)
  \/ Gather \/ Report \/ NextRound

Next == Step \/ Tick \/ Leave

Spec == Init /\ [][Next]_vars /\ WF_vars(Step)

-----------------------------------------------------------------------------
(* Properties *)

Pcs == {"head", "model", "apology", "answer", "run", "report", "done", "raised",
        "closed"}
Indices == 1..MaxCalls
Messages == [role : {"user", "assistant"}, calls : {<<>>} \cup Batches,
             results : Seq([id : Indices, of : Indices])]

TypeOK ==
  /\ mode \in [stream : BOOLEAN, parallel : BOOLEAN, sla : BOOLEAN]
  /\ clock \in 0..2 /\ started \in 0..clock
  /\ pc \in Pcs
  /\ round \in 0..MaxRounds
  /\ convo \in Seq(Messages)
  /\ calls \in {<<>>} \cup Batches
  /\ finished \in Seq(Indices)
  /\ DOMAIN outcome = DOMAIN calls
  /\ reported \in 0..Len(calls)
  /\ said \in BOOLEAN
  /\ stop \in Failures \cup {"none", "end_turn", "max_tokens", "tool_use",
                             "sla_deadline", "max_tool_rounds"}

\* In every request the API accepts, the calls of an assistant message are
\* answered by the very next message: one result per call, in call order, each
\* with the output of its own call - however the parallel tools ended, whatever
\* was nudged in between.
CallsAreAnswered ==
  \A k \in DOMAIN convo :
    convo[k].calls # <<>> =>
      /\ k < Len(convo)
      /\ convo[k + 1].role = "user"
      /\ convo[k + 1].results = [i \in DOMAIN convo[k].calls |-> [id |-> i, of |-> i]]

\* Places where two messages of one role follow each other.
Doubled(messages) ==
  {k \in 1..Len(messages) - 1 : messages[k].role = messages[k + 1].role}

\* The messages of a request have two of one role in a row for every round that
\* ended past the SLA, at the results and the nudge after them, and nowhere else.
\* chat_engine.py 966-970 says of two user messages in a row that the API refuses
\* them: where it does, the request the nudge is meant for is the one that fails
\* (anthropic_client.py 273-278).
DoubledByNudge ==
  [][Doubled(convo') = Doubled(convo) \cup
       (IF convo' # convo /\ mode.sla /\ clock > 0 THEN {Len(convo') - 1} ELSE {})]_vars

\* A handoff ends the reply: once a result that names an agent was returned the
\* model is not asked again, whatever else the round called (chat_engine.py
\* 924-939).
HandoffIsLast ==
  pc \in {"head", "model"} => \A i \in DOMAIN outcome : outcome[i] # "handoff"

\* When a request starts past the hard limit it is the last one and no tool
\* runs after it, also when the model asks for one (lines 226-228).
DeadlineHolds ==
  [][started = 2 /\ mode.sla => round' = round /\ finished' = finished]_vars

\* Every reply ends, with Done, an exception or a consumer that left: rounds
\* run out, and a round ends.
ReplyEnds == <>~Live

\* The events are those Reply.tla describes.
Contract == INSTANCE Reply WITH
  phase <- CASE pc = "done" -> "done"
             [] pc \in {"raised", "closed"} -> "broken"
             [] OTHER -> "open",
  due <- Len(calls) - reported
EventsKeepContract == Contract!Spec
=============================================================================
