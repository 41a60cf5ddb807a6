---------------------------- MODULE ToolLoopProofs ----------------------------
(***************************************************************************)
(* Proofs about ToolLoop.tla, for every set of tools, every bound on the   *)
(* rounds and every number of calls in a round.                            *)
(*                                                                         *)
(* LoopInv strengthens the properties in three ways: the conversation ends *)
(* with a user message, so that an assistant message may follow; no        *)
(* handoff is among the results already reported; and past the hard limit  *)
(* the generator is never where it could ask again or run a tool.          *)
(***************************************************************************)
EXTENDS ToolLoop, TLAPS

AnsweredIn(c) ==
  \A k \in DOMAIN c :
    c[k].calls # <<>> =>
      /\ k < Len(c)
      /\ c[k + 1].role = "user"
      /\ c[k + 1].results = [i \in DOMAIN c[k].calls |-> [id |-> i, of |-> i]]

\* A conversation the loop may send: it is well formed and the model's turn is next.
SendableConvo ==
  /\ Len(convo) > 0
  /\ convo[Len(convo)].role = "user"
  /\ AnsweredIn(convo)

NoHandoffSoFar ==
  /\ pc \in {"head", "model"} => \A i \in DOMAIN outcome : outcome[i] # "handoff"
  /\ pc = "report" => \A i \in 1..reported : outcome[i] # "handoff"

BatchInHand ==
  /\ pc \in {"run", "report"} => calls \in Batches
  /\ pc = "run" => reported = 0
  /\ pc \in {"head", "model", "answer", "apology", "done"} => reported = Len(calls)

PastHardLimit == mode.sla /\ started = 2 => pc \notin {"head", "run", "report"}

LoopInv == TypeOK /\ SendableConvo /\ NoHandoffSoFar /\ BatchInHand /\ PastHardLimit

-----------------------------------------------------------------------------
(* The data of a round *)

\* A function on 1..n is a sequence of length n.
LEMMA IsSequence ==
  ASSUME NEW S, NEW n \in Nat, NEW f \in [1..n -> S]
  PROVE  f \in Seq(S) /\ Len(f) = n
OBVIOUS

\* A batch is a non-empty sequence of at most MaxCalls tools.
LEMMA BatchFacts ==
  ASSUME NEW b \in Batches
  PROVE  /\ b \in Seq(Tools)
         /\ Len(b) \in 1..MaxCalls
         /\ DOMAIN b = 1..Len(b)
         /\ b # <<>>
<1>1. PICK n \in 1..MaxCalls : b \in [1..n -> Tools]
  BY DEF Batches
<1>2. b \in Seq(Tools) /\ Len(b) = n /\ DOMAIN b = 1..n
  BY <1>1, BoundsAssumption
<1> QED
  BY <1>1, <1>2, BoundsAssumption

\* The two messages a round adds are messages.
LEMMA RoundMessagesType ==
  ASSUME calls \in Batches,
         NEW asked, asked = [role |-> "assistant", calls |-> calls, results |-> <<>>],
         NEW brings, brings = [role |-> "user", calls |-> <<>>,
                               results |-> [i \in DOMAIN calls |-> [id |-> i, of |-> ResultOrder[i]]]]
  PROVE  /\ asked \in Messages
         /\ brings \in Messages
         /\ brings.results = [i \in DOMAIN calls |-> [id |-> i, of |-> i]]
         /\ brings.results # <<>>
         /\ UserText \in Messages
<1>1. DOMAIN calls = 1..Len(calls) /\ Len(calls) \in 1..MaxCalls
  BY BatchFacts
<1>2. brings.results = [i \in DOMAIN calls |-> [id |-> i, of |-> i]]
  BY DEF ResultOrder
<1>3. brings.results \in Seq([id : Indices, of : Indices]) /\ Len(brings.results) = Len(calls)
  <2>1. \A i \in 1..Len(calls) : [id |-> i, of |-> i] \in [id : Indices, of : Indices]
    BY <1>1, BoundsAssumption DEF Indices
  <2> DEFINE R == [i \in 1..Len(calls) |-> [id |-> i, of |-> i]]
  <2>2. brings.results = R
    BY <1>1, <1>2
  <2>4. R \in [1..Len(calls) -> [id : Indices, of : Indices]]
    BY <2>1
  <2> HIDE DEF R
  <2>3. Len(calls) \in Nat
    BY <1>1, BoundsAssumption
  <2> QED
    BY <2>2, <2>3, <2>4, IsSequence
<1>4. brings.results # <<>>
  BY <1>1, <1>3
<1> QED
  BY <1>2, <1>3, <1>4 DEF Messages, UserText

\* Adding a round to a sendable conversation gives a sendable one.
LEMMA RoundKeepsConvo ==
  ASSUME NEW c \in Seq(Messages), Len(c) > 0, c[Len(c)].role = "user",
         AnsweredIn(c),
         NEW asked \in Messages, asked.role = "assistant", asked.results = <<>>,
         NEW brings \in Messages, brings.role = "user", brings.calls = <<>>,
         brings.results # <<>>,
         brings.results = [i \in DOMAIN asked.calls |-> [id |-> i, of |-> i]],
         NEW nudge \in {<<>>, <<UserText>>},
         UserText \in Messages,
         NEW d, d = c \o RoundMessages(asked, brings, nudge)
  PROVE  /\ d \in Seq(Messages) /\ Len(d) > 0 /\ d[Len(d)].role = "user"
         /\ AnsweredIn(d)
<1> DEFINE n == Len(c)
<1>1. n \in Nat /\ n > 0
  OBVIOUS
<1>2. /\ d \in Seq(Messages)
      /\ Len(d) \in {n + 2, n + 3}
      /\ d[n + 1] = asked /\ d[n + 2] = brings
      /\ IF nudge = <<>> THEN Len(d) = n + 2 ELSE Len(d) = n + 3 /\ d[n + 3] = UserText
      /\ \A k \in 1..n : d[k] = c[k]
  <2>1. CASE nudge = <<>>
    BY <1>1, <2>1 DEF RoundMessages
  <2>2. CASE nudge = <<UserText>>
    BY <1>1, <2>2 DEF RoundMessages
  <2> QED
    BY <2>1, <2>2
<1>3. UserText.calls = <<>> /\ UserText.role = "user"
  BY DEF UserText
<1>4. d[Len(d)].role = "user"
  BY <1>2, <1>3
<1>5. AnsweredIn(d)
  <2>0. DOMAIN d = 1..Len(d) /\ Len(d) \in Nat
    BY <1>2
  <2> SUFFICES ASSUME NEW k \in 1..Len(d), d[k].calls # <<>>
               PROVE  /\ k < Len(d)
                      /\ d[k + 1].role = "user"
                      /\ d[k + 1].results = [i \in DOMAIN d[k].calls |-> [id |-> i, of |-> i]]
    BY <2>0 DEF AnsweredIn
  <2>1. CASE k \in 1..n
    <3>1. c[k].calls # <<>> /\ k \in DOMAIN c
      BY <2>1, <1>2, <1>1
    <3>2. /\ k < n
          /\ c[k + 1].role = "user"
          /\ c[k + 1].results = [i \in DOMAIN c[k].calls |-> [id |-> i, of |-> i]]
      BY <3>1, <1>1 DEF AnsweredIn
    <3>3. d[k] = c[k] /\ d[k + 1] = c[k + 1]
      BY <3>2, <2>1, <1>2, <1>1
    <3>4. k < Len(d)
      BY <3>2, <1>1, <1>2
    <3> QED
      BY <3>2, <3>3, <3>4, Zenon
  <2>2. CASE k = n + 1
    <3>1. k < Len(d) /\ d[k] = asked
      BY <2>2, <1>1, <1>2
    <3>2. d[k + 1] = brings
      <4>1. k + 1 = n + 2
        BY <2>2, <1>1
      <4> QED
        BY <4>1, <1>2, Zenon
    <3> QED
      BY <3>1, <3>2, Zenon
  <2>3. CASE k > n + 1
    <3>1. d[k] = brings \/ d[k] = UserText
      BY <2>3, <1>1, <1>2
    <3>2. d[k].calls = <<>>
      BY <3>1, <1>3, Zenon
    <3> QED
      BY <3>2
  <2> QED
    BY <2>0, <2>1, <2>2, <2>3, <1>1
<1> QED
  BY <1>1, <1>2, <1>4, <1>5

\* What a round adds to the doubled places of the messages.
DoublesAdded(c, d, nudge) ==
  /\ nudge = <<>> => Doubled(d) = Doubled(c)
  /\ nudge # <<>> => Doubled(d) = Doubled(c) \cup {Len(d) - 1}

LEMMA RoundDoubles ==
  ASSUME NEW c \in Seq(Messages), Len(c) > 0, c[Len(c)].role = "user",
         NEW asked \in Messages, asked.role = "assistant",
         NEW brings \in Messages, brings.role = "user",
         NEW nudge \in {<<>>, <<UserText>>},
         UserText \in Messages,
         NEW d, d = c \o RoundMessages(asked, brings, nudge)
  PROVE  DoublesAdded(c, d, nudge)
<1> DEFINE n == Len(c)
<1>1. n \in Nat /\ n > 0
  OBVIOUS
<1>2. /\ d \in Seq(Messages)
      /\ Len(d) \in {n + 2, n + 3}
      /\ d[n + 1] = asked /\ d[n + 2] = brings
      /\ IF nudge = <<>> THEN Len(d) = n + 2 ELSE Len(d) = n + 3 /\ d[n + 3] = UserText
      /\ \A k \in 1..n : d[k] = c[k]
  <2>1. CASE nudge = <<>>
    BY <1>1, <2>1 DEF RoundMessages
  <2>2. CASE nudge = <<UserText>>
    BY <1>1, <2>2 DEF RoundMessages
  <2> QED
    BY <2>1, <2>2
<1>3. UserText.role = "user"
  BY DEF UserText
<1> QED
  <2>1. ASSUME NEW k \in 1..n - 1
        PROVE  k \in Doubled(c) <=> k \in Doubled(d)
    <3>1. /\ d[k] = c[k] /\ d[k + 1] = c[k + 1]
          /\ k \in 1..Len(c) - 1 /\ k \in 1..Len(d) - 1
      BY <1>1, <1>2
    <3> QED
      BY <3>1 DEF Doubled
  <2>2. n \notin Doubled(d) /\ n + 1 \notin Doubled(d)
    <3>1. d[n] = c[n] /\ d[n + 1] = asked /\ d[(n + 1) + 1] = brings
      BY <1>1, <1>2
    <3> QED
      BY <3>1 DEF Doubled
  <2>3. n + 2 \in Doubled(d) <=> nudge # <<>>
    <3>1. CASE nudge = <<>>
      BY <1>1, <1>2, <3>1 DEF Doubled
    <3>2. CASE nudge # <<>>
      <4>1. d[n + 2] = brings /\ d[(n + 2) + 1] = UserText /\ n + 2 \in 1..Len(d) - 1
        BY <1>1, <1>2, <3>2
      <4> QED
        BY <1>3, <3>2, <4>1 DEF Doubled
    <3> QED
      BY <3>1, <3>2
  <2>4. /\ Doubled(c) \subseteq 1..n - 1 /\ Doubled(d) \subseteq 1..n + 2
        /\ nudge # <<>> => Len(d) - 1 = n + 2
    BY <1>1, <1>2 DEF Doubled
  <2>5. ASSUME NEW k \in 1..n + 2
        PROVE  k \in 1..n - 1 \/ k = n \/ k = n + 1 \/ k = n + 2
    BY <1>1
  <2>6. \A k \in 1..n - 1 : k # n /\ k # n + 1 /\ k # n + 2
    BY <1>1
  <2>7. ASSUME NEW k
        PROVE  k \in Doubled(d) <=> k \in Doubled(c) \/ (k = n + 2 /\ nudge # <<>>)
    BY <1>1, <2>1, <2>2, <2>3, <2>4, <2>5, <2>6
  <2> QED
    BY <2>4, <2>7 DEF DoublesAdded

-----------------------------------------------------------------------------
(* The inductive invariant *)

LEMMA InitLoopInv == Init => LoopInv
<1> SUFFICES ASSUME Init PROVE LoopInv
  OBVIOUS
<1>1. convo \in Seq(Messages) /\ Len(convo) = 1 /\ convo[1] = UserText
  BY DEF Init, Messages, UserText
<1>2. UserText.role = "user" /\ UserText.calls = <<>>
  BY DEF UserText
<1>3. TypeOK
  <2>1. finished \in Seq(Indices) /\ DOMAIN outcome = DOMAIN calls
    BY DEF Init
  <2>2. reported \in 0..Len(calls) /\ round \in 0..MaxRounds
    BY BoundsAssumption DEF Init
  <2>3. mode \in [stream : BOOLEAN, parallel : BOOLEAN, sla : BOOLEAN]
    BY DEF Init
  <2>4. /\ clock \in 0..2 /\ started \in 0..clock
        /\ pc \in Pcs
    BY DEF Init, Pcs
  <2>7. said \in BOOLEAN
    BY Zenon DEF Init
  <2>5. calls \in {<<>>} \cup Batches
    BY Zenon DEF Init
  <2>6. stop \in Failures \cup {"none", "end_turn", "max_tokens", "tool_use",
                                "sla_deadline", "max_tool_rounds"}
    BY DEF Init
  <2> QED
    BY <1>1, <2>1, <2>2, <2>3, <2>4, <2>5, <2>6, <2>7 DEF TypeOK
<1>4. SendableConvo
  BY <1>1, <1>2 DEF SendableConvo, AnsweredIn
<1>5. NoHandoffSoFar /\ BatchInHand /\ PastHardLimit
  BY DEF Init, NoHandoffSoFar, BatchInHand, PastHardLimit
<1> QED
  BY <1>3, <1>4, <1>5 DEF LoopInv

\* The conversation changes only where a round is added.
LEMMA ConvoUnlessNextRound ==
  ASSUME SendableConvo, UNCHANGED convo
  PROVE  SendableConvo'
BY DEF SendableConvo

LEMMA NextRoundConvo ==
  ASSUME LoopInv, NextRound
  PROVE  /\ SendableConvo' /\ convo' \in Seq(Messages)
         /\ Doubled(convo') = Doubled(convo) \cup
              IF convo' # convo /\ mode.sla /\ clock > 0 THEN {Len(convo') - 1} ELSE {}
<1> DEFINE asked == [role |-> "assistant", calls |-> calls, results |-> <<>>]
           brings == [role |-> "user", calls |-> <<>>,
                      results |-> [i \in DOMAIN calls |-> [id |-> i, of |-> ResultOrder[i]]]]
           nudge == IF mode.sla /\ clock > 0 THEN <<UserText>> ELSE <<>>
<1>1. calls \in Batches
  BY DEF LoopInv, BatchInHand, NextRound
<1>2. /\ asked \in Messages /\ brings \in Messages
      /\ brings.results = [i \in DOMAIN calls |-> [id |-> i, of |-> i]]
      /\ brings.results # <<>>
      /\ UserText \in Messages
  BY <1>1, RoundMessagesType
<1>3. /\ asked.role = "assistant" /\ asked.results = <<>> /\ asked.calls = calls
      /\ brings.role = "user" /\ brings.calls = <<>>
  OBVIOUS
<1>4. nudge \in {<<>>, <<UserText>>}
  OBVIOUS
<1>5. nudge = <<>> <=> ~(mode.sla /\ clock > 0)
  OBVIOUS
<1>6. convo' = convo \o RoundMessages(asked, brings, nudge)
  BY DEF NextRound
<1>7. /\ convo \in Seq(Messages) /\ Len(convo) > 0 /\ convo[Len(convo)].role = "user"
      /\ AnsweredIn(convo)
  BY DEF LoopInv, TypeOK, SendableConvo
<1>8. brings.results = [i \in DOMAIN asked.calls |-> [id |-> i, of |-> i]]
  BY <1>2, <1>3, Zenon
<1> DEFINE d == convo \o RoundMessages(asked, brings, nudge)
<1> HIDE DEF asked, brings, nudge
<1>9. /\ d \in Seq(Messages) /\ Len(d) > 0 /\ d[Len(d)].role = "user"
      /\ AnsweredIn(d)
  BY <1>2, <1>3, <1>4, <1>7, <1>8, RoundKeepsConvo, Zenon
<1>10. DoublesAdded(convo, d, nudge)
  BY <1>2, <1>3, <1>4, <1>7, RoundDoubles, Zenon
<1>11. convo' = d
  BY <1>6
<1>12. d # convo
  <2>1. Len(RoundMessages(asked, brings, nudge)) > 0
        /\ RoundMessages(asked, brings, nudge) \in Seq(Messages)
    <3>1. CASE nudge = <<>>
      BY <1>2, <3>1 DEF RoundMessages
    <3>2. CASE nudge = <<UserText>>
      BY <1>2, <3>2 DEF RoundMessages
    <3> QED
      BY <1>4, <3>1, <3>2
  <2>2. Len(d) # Len(convo)
    BY <1>7, <2>1
  <2> QED
    BY <2>2
<1> HIDE DEF d
<1>13. Doubled(convo') = Doubled(convo) \cup
         IF convo' # convo /\ mode.sla /\ clock > 0 THEN {Len(convo') - 1} ELSE {}
  <2>1. CASE nudge = <<>>
    BY <1>11, <1>5, <1>10, <2>1, Zenon DEF DoublesAdded
  <2>2. CASE nudge # <<>>
    BY <1>11, <1>12, <1>5, <1>10, <2>2, Zenon DEF DoublesAdded
  <2> QED
    BY <2>1, <2>2
<1> QED
  BY <1>9, <1>11, <1>13 DEF SendableConvo

LEMMA NextType ==
  ASSUME LoopInv, Next
  PROVE  TypeOK'
<1> USE BoundsAssumption DEF LoopInv, TypeOK, Pcs, Failures
<1>1. CASE Tick
  BY <1>1 DEF Tick, Live
<1>2. CASE Leave
  BY <1>2 DEF Leave
<1>3. CASE Ask
  BY <1>3 DEF Ask
<1>4. CASE OutOfRounds \/ LastAnswer
  BY <1>4 DEF OutOfRounds, LastAnswer
<1>5. CASE Text \/ RequestFails \/ RequestRaises \/ Apologised \/ Answer
  BY <1>5 DEF Text, RequestFails, RequestRaises, Apologised, Answer
<1>6. CASE CallTools
  BY <1>6, BatchFacts DEF CallTools
<1>7. ASSUME NEW i \in DOMAIN calls, RunTool(i) PROVE TypeOK'
  <2>1. i \in Indices
    BY BatchFacts, <1>7 DEF Indices
  <2>2. finished' \in Seq(Indices)
    BY <1>7, <2>1 DEF RunTool
  <2>3. DOMAIN outcome' = DOMAIN calls
    BY <1>7 DEF RunTool
  <2> QED
    BY <1>7, <2>2, <2>3 DEF RunTool
<1>8. CASE Gather \/ Report
  BY <1>8 DEF Gather, Report
<1>9. CASE NextRound
  BY <1>9, NextRoundConvo DEF NextRound
<1> QED
  BY <1>1, <1>2, <1>3, <1>4, <1>5, <1>6, <1>7, <1>8, <1>9 DEF Next, Step

LEMMA NextConvo ==
  ASSUME LoopInv, Next
  PROVE  SendableConvo'
<1>1. CASE NextRound
  BY <1>1, NextRoundConvo
<1>2. CASE UNCHANGED convo
  BY <1>2, ConvoUnlessNextRound DEF LoopInv
<1>3. UNCHANGED convo \/ NextRound
  BY DEF Next, Step, Tick, Leave, Ask, OutOfRounds, Text, RequestFails, RequestRaises,
         Apologised, Answer, LastAnswer, CallTools, RunTool, Gather, Report
<1> QED
  BY <1>1, <1>2, <1>3

\* The i-th result is the i-th call's.
LEMMA OwnResult == ASSUME NEW i \in DOMAIN calls PROVE ResultOrder[i] = i
BY DEF ResultOrder

LEMMA NextBatch ==
  ASSUME LoopInv, Next
  PROVE  BatchInHand'
<1> USE BoundsAssumption DEF LoopInv, BatchInHand
<1>1. CASE Tick \/ Leave \/ Ask \/ OutOfRounds \/ LastAnswer \/ Text \/ RequestFails
           \/ RequestRaises \/ Apologised \/ Answer
  BY <1>1 DEF Tick, Leave, Ask, OutOfRounds, LastAnswer, Text, RequestFails,
              RequestRaises, Apologised, Answer
<1>2. CASE CallTools
  BY <1>2 DEF CallTools
<1>3. ASSUME NEW i \in DOMAIN calls, RunTool(i) PROVE BatchInHand'
  BY <1>3 DEF RunTool
<1>4. CASE Gather
  BY <1>4 DEF Gather
<1>5. CASE Report
  BY <1>5 DEF Report
<1>6. CASE NextRound
  BY <1>6 DEF NextRound
<1> QED
  BY <1>1, <1>2, <1>3, <1>4, <1>5, <1>6 DEF Next, Step

LEMMA NextHandoff ==
  ASSUME LoopInv, Next
  PROVE  NoHandoffSoFar'
<1> USE DEF LoopInv, NoHandoffSoFar
<1>1. CASE Tick \/ Leave \/ Ask \/ OutOfRounds \/ LastAnswer \/ Text \/ RequestFails
           \/ RequestRaises \/ Apologised \/ Answer \/ CallTools
  BY <1>1 DEF Tick, Leave, Ask, OutOfRounds, LastAnswer, Text, RequestFails,
              RequestRaises, Apologised, Answer, CallTools
<1>2. ASSUME NEW i \in DOMAIN calls, RunTool(i) PROVE NoHandoffSoFar'
  BY <1>2 DEF RunTool
<1>3. CASE Gather
  <2>1. pc = "run" /\ reported = 0
    BY <1>3 DEF Gather, BatchInHand
  <2> QED
    BY <1>3, <2>1 DEF Gather
<1>4. CASE Report
  <2>1. /\ calls \in Batches /\ reported \in 0..Len(calls)
        /\ reported < Len(calls) /\ reported' = reported + 1
    BY <1>4 DEF Report, BatchInHand, TypeOK
  <2>2. reported' \in DOMAIN calls /\ ResultOrder[reported'] = reported'
    <3>1. DOMAIN calls = 1..Len(calls) /\ Len(calls) \in Nat
      BY <2>1, BatchFacts, BoundsAssumption
    <3>2. reported + 1 \in DOMAIN calls
      BY <2>1, <3>1
    <3> QED
      BY <2>1, <3>2, OwnResult
  <2>3. ASSUME pc' = "report", NEW i \in 1..reported' PROVE outcome'[i] # "handoff"
    <3>1. outcome[reported'] # "handoff"
      BY <1>4, <2>2, <2>3 DEF Report
    <3>2. \A j \in 1..reported : outcome[j] # "handoff"
      BY <1>4 DEF Report
    <3>3. i \in 1..reported \/ i = reported'
      BY <2>1, <2>3
    <3> QED
      BY <1>4, <3>1, <3>2, <3>3 DEF Report
  <2>4. pc' \notin {"head", "model"}
    BY <1>4 DEF Report
  <2> QED
    BY <2>3, <2>4
<1>5. CASE NextRound
  <2>1. DOMAIN outcome = 1..reported
    BY <1>5, BatchFacts DEF NextRound, BatchInHand, TypeOK
  <2> QED
    BY <1>5, <2>1 DEF NextRound
<1> QED
  BY <1>1, <1>2, <1>3, <1>4, <1>5 DEF Next, Step

LEMMA NextHardLimit ==
  ASSUME LoopInv, Next
  PROVE  PastHardLimit'
<1> USE DEF LoopInv, PastHardLimit
<1>1. CASE Tick \/ Leave \/ Ask \/ OutOfRounds \/ LastAnswer \/ Text \/ RequestFails
           \/ RequestRaises \/ Apologised \/ Answer
  BY <1>1 DEF Tick, Leave, Ask, OutOfRounds, LastAnswer, Text, RequestFails,
              RequestRaises, Apologised, Answer
<1>2. CASE CallTools
  BY <1>2 DEF CallTools, HardLimit
<1>3. CASE \E i \in DOMAIN calls : RunTool(i)
  BY <1>3 DEF RunTool
<1>4. CASE Gather \/ Report \/ NextRound
  BY <1>4 DEF Gather, Report, NextRound
<1> QED
  BY <1>1, <1>2, <1>3, <1>4 DEF Next, Step

\* LoopInv holds in every reachable state.
THEOREM LoopInvariant == Spec => []LoopInv
<1>1. LoopInv /\ [Next]_vars => LoopInv'
  <2>1. ASSUME LoopInv, Next PROVE LoopInv'
    BY <2>1, NextType, NextConvo, NextBatch, NextHandoff, NextHardLimit DEF LoopInv
  <2>2. ASSUME LoopInv, UNCHANGED vars PROVE LoopInv'
    BY <2>2 DEF vars, LoopInv, TypeOK, SendableConvo, NoHandoffSoFar, BatchInHand,
                PastHardLimit
  <2> QED
    BY <2>1, <2>2
<1> QED
  BY <1>1, InitLoopInv, PTL DEF Spec

-----------------------------------------------------------------------------
(* The properties *)

\* Type correctness of a reply (chat_with_tools).
THEOREM LoopTypeCorrect == Spec => []TypeOK
<1>1. LoopInv => TypeOK
  BY DEF LoopInv
<1> QED
  BY <1>1, LoopInvariant, PTL

\* Whatever the model calls and however the parallel tools end, each request
\* pairs every call with its own result.
THEOREM EveryCallAnswered == Spec => []CallsAreAnswered
<1>1. LoopInv => CallsAreAnswered
  BY DEF LoopInv, SendableConvo, AnsweredIn, CallsAreAnswered
<1> QED
  BY <1>1, LoopInvariant, PTL

\* Each round that ends past the SLA puts two user messages in a row into the
\* requests after it, and nothing else does.
THEOREM NudgeDoublesUser == Spec => DoubledByNudge
<1> DEFINE added == IF convo' # convo /\ mode.sla /\ clock > 0 THEN {Len(convo') - 1} ELSE {}
<1>1. ASSUME LoopInv, [Next]_vars
      PROVE  [Doubled(convo') = Doubled(convo) \cup added]_vars
  <2>1. CASE NextRound
    BY <1>1, <2>1, NextRoundConvo
  <2>2. CASE convo' = convo
    BY <2>2
  <2>3. convo' = convo \/ NextRound
    BY <1>1 DEF vars, Next, Step, Tick, Leave, Ask, OutOfRounds, LastAnswer, Text,
                RequestFails, RequestRaises, Apologised, Answer, CallTools, RunTool,
                Gather, Report
  <2> QED
    BY <2>1, <2>2, <2>3
<1> QED
  BY <1>1, LoopInvariant, PTL DEF Spec, DoubledByNudge

\* After a handoff the model is not asked again.
THEOREM NoRequestAfterHandoff == Spec => []HandoffIsLast
<1>1. LoopInv => HandoffIsLast
  BY DEF LoopInv, NoHandoffSoFar, HandoffIsLast
<1> QED
  BY <1>1, LoopInvariant, PTL

\* A request made past the hard limit is the last thing the loop does.
THEOREM HardLimitIsHard == Spec => DeadlineHolds
<1>1. LoopInv /\ [Next]_vars => [started = 2 /\ mode.sla => round' = round /\ finished' = finished]_vars
  <2> SUFFICES ASSUME LoopInv, Next, started = 2, mode.sla
               PROVE  round' = round /\ finished' = finished
    BY DEF vars
  <2>1. pc \notin {"head", "run", "report"} /\ HardLimit
    BY DEF LoopInv, PastHardLimit, HardLimit
  <2> QED
    BY <2>1 DEF Next, Step, Tick, Leave, Ask, OutOfRounds, LastAnswer, Text,
                RequestFails, RequestRaises, Apologised, Answer, CallTools, RunTool,
                Gather, Report, NextRound
<1> QED
  BY <1>1, LoopInvariant, PTL DEF Spec, DeadlineHolds

\* The loop implements the event contract of Reply.tla: every step of it is a
\* step of the contract or leaves the events alone.
THEOREM LoopKeepsContract == Spec => EventsKeepContract
<1>1. Init => Contract!Init
  BY DEF Init, Contract!Init
<1>2. LoopInv /\ [Next]_vars => [Contract!Next]_(Contract!replyVars)
  <2> SUFFICES ASSUME LoopInv, [Next]_vars
               PROVE  Contract!Next \/ UNCHANGED Contract!replyVars
    OBVIOUS
  <2> USE DEF Contract!replyVars
  <2>0. Len(calls) \in Nat /\ reported \in 0..Len(calls)
    BY BatchFacts, BoundsAssumption DEF LoopInv, TypeOK
  <2>1. CASE UNCHANGED vars
    BY <2>1 DEF vars
  <2>2. CASE Tick \/ Ask \/ Answer
    BY <2>2 DEF Tick, Ask, Answer, Live
  <2>3. CASE Text \/ RequestFails
    BY <2>0, <2>3 DEF Text, RequestFails, LoopInv, BatchInHand, Contract!Next, Contract!Say
  <2>4. CASE RequestRaises \/ Leave
    BY <2>0, <2>4 DEF RequestRaises, Leave, AtYield, Contract!Next, Contract!Break
  <2>5. CASE OutOfRounds \/ Apologised \/ LastAnswer
    BY <2>0, <2>5 DEF OutOfRounds, Apologised, LastAnswer, LoopInv, BatchInHand,
                      Contract!Next, Contract!Finish
  <2>6. CASE CallTools
    <3>1. Len(calls') \in 1..MaxCalls
      BY <2>6, BatchFacts DEF CallTools
    <3> QED
      BY <2>0, <2>6, <3>1, BoundsAssumption DEF CallTools, LoopInv, BatchInHand,
         Contract!Next, Contract!Announce
  <2>7. CASE \E i \in DOMAIN calls : RunTool(i)
    BY <2>7 DEF RunTool
  <2>8. CASE Gather
    BY <2>0, <2>8 DEF Gather, Contract!Next, Contract!Break
  <2>9. CASE Report
    BY <2>0, <2>9 DEF Report, Contract!Next, Contract!Report, Contract!Break
  <2>10. CASE NextRound
    BY <2>10 DEF NextRound
  <2> QED
    BY <2>1, <2>2, <2>3, <2>4, <2>5, <2>6, <2>7, <2>8, <2>9, <2>10 DEF Next, Step
<1> QED
  BY <1>1, <1>2, LoopInvariant, PTL DEF Spec, EventsKeepContract, Contract!Spec
=============================================================================
