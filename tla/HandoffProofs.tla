--------------------------- MODULE HandoffProofs ---------------------------
(***************************************************************************)
(* Proofs about the chain of turns: what the router may decide, that only  *)
(* a change of the registry turns a routed message down, that handoffs     *)
(* arrive, that the runs of agents are bounded, and that a turn's prompt   *)
(* and tools agree.                                                        *)
(***************************************************************************)
EXTENDS Handoff, SequenceTheorems, WellFoundedInduction, TLAPS

LEMMA HandoffFacts ==
  /\ Escalators \subseteq Agents /\ UserMessages \subseteq Message /\ Kits \subseteq Kit
  /\ {Master, MasterSlug, Unknown, NoOne} \cap Agents = {}
  /\ NoOne \notin {Master, MasterSlug, Unknown}
  /\ \A m \in UserMessages : ~m.escalated /\ m.first \in m.mentions \cup {NoOne}
  /\ MaxAgents \in Nat \ {0} /\ MaxCalls \in Nat \ {0} /\ MaxHops \in Nat
BY HandoffAssumption, RoutingAssumption DEF HandoffAssumption, RoutingAssumption

-----------------------------------------------------------------------------
(* The router.                                                             *)

\* Messages as they travel; the page puts the name of whoever hands over into
\* them.
Sent == [escalated : BOOLEAN, mentions : SUBSET Mentionable, first : Mentionable \cup {NoOne},
         names : SUBSET (Agents \cup {Master, NoOne}), brief : BOOLEAN]

\* Every decision names master or a candidate.
LEMMA RoutesToCandidates ==
  ASSUME NEW m \in Sent, NEW s, NEW cand \in SUBSET Agents, NEW d \in Routes(m, s, cand)
  PROVE  d.to \in cand \cup {Master}
<1>1. ASSUME d \in StickyRoutes(m, s, cand) PROVE d.to \in cand \cup {Master}
  BY <1>1 DEF StickyRoutes, Decide
<1>2. ASSUME d \in ClassifiedRoutes(cand) PROVE d.to \in cand \cup {Master}
  BY <1>2 DEF ClassifiedRoutes, Decide
<1>3. QED
  BY <1>1, <1>2 DEF Routes, Mentioned, Decide

\* An escalation goes to master; with an agent to keep, any other message goes
\* to it, to master, or to one the message mentions.
LEMMA RoutesWhereSent ==
  ASSUME NEW m \in Sent, NEW s, NEW cand \in SUBSET Agents, NEW d \in Routes(m, s, cand),
         m.first \in m.mentions \cup {NoOne}
  PROVE  /\ m.escalated => d.to = Master
         /\ s # NoOne => d.to \in {s, Master} \cup m.mentions \cup m.names
<1>1. ASSUME d \in StickyRoutes(m, s, cand) PROVE d.to \in {s, Master}
  BY <1>1 DEF StickyRoutes, Decide
<1>2. m.escalated => d.to = Master
  BY DEF Routes, Decide
<1>3. ASSUME s # NoOne PROVE d.to \in {s, Master} \cup m.mentions \cup m.names
  <2>1. CASE m.first # NoOne
    BY <2>1, <1>1, <1>3 DEF Routes, Mentioned, Decide
  <2>2. CASE m.first = NoOne
    BY <2>2, <1>1, <1>3 DEF Routes, Decide
  <2>3. QED
    BY <2>1, <2>2
<1>4. QED
  BY <1>2, <1>3

-----------------------------------------------------------------------------
(* The chain of turns.                                                     *)

Turn == [at : {"idle", "sent", "routed", "loaded", "equipped", "refused"},
         msg : Sent, origin : Origin, hops : 0..MaxHops,
         to : Agents \cup {Master, NoOne}, changed : BOOLEAN, kits : SUBSET Kits]

ChainTypeOK ==
  /\ view \in [Agents -> Views] /\ sticky \in Agents \cup {Master, NoOne}
  /\ turn \in Turn /\ runs \in [left : Nat, passed : Nat, count : Nat]

\* What a message carries on its way to the router.
MessageCarries ==
  turn.at = "sent" =>
    /\ turn.msg.first \in turn.msg.mentions \cup {NoOne}
    /\ turn.origin.kind = "escalate" => turn.msg.escalated
    /\ turn.origin.kind = "delegate" => sticky = turn.origin.target /\ sticky # NoOne
    /\ turn.origin.kind = "update" => sticky = Master

\* Where the router has sent it.
DecisionFits ==
  turn.at \in {"routed", "loaded"} =>
    /\ turn.origin.kind = "escalate" => turn.to = Master
    /\ turn.origin.kind = "delegate" =>
         turn.to \in {turn.origin.target, Master} \cup turn.msg.mentions \cup turn.msg.names
    /\ turn.origin.kind = "update" =>
         turn.to \in {Master} \cup turn.msg.mentions \cup turn.msg.names

\* Only a change since the decision can stand between it and the load.
DecisionStands ==
  /\ turn.at = "routed" /\ ~turn.changed => Usable(turn.to)
  /\ RefusedOnlyAfterChange

\* Only an equipped turn has tools and runs; a round never grows.
RoundBounded ==
  /\ turn.at # "equipped" => turn.kits = {} /\ runs.count + runs.passed + runs.left = 0
  /\ runs.left + runs.passed <= MaxCalls
  /\ Serial => runs.passed <= 1
  /\ RunsBounded

HandoffInv ==
  ChainTypeOK /\ MessageCarries /\ DecisionFits /\ DecisionStands /\ RoundBounded

LEMMA NoTurnIsTurn == NoTurn \in Turn
BY HandoffFacts DEF NoTurn, Turn, NoMessage, ByUser, Sent, Origin

LEMMA HandoffStarts == HandoffInit => HandoffInv
<1> SUFFICES ASSUME HandoffInit PROVE HandoffInv
  OBVIOUS
<1> USE HandoffFacts
<1>1. NoTurn \in Turn /\ NoRuns \in [left : Nat, passed : Nat, count : Nat]
  BY NoTurnIsTurn DEF NoRuns
<1>2. turn.at = "idle" /\ turn.kits = {} /\ runs = NoRuns
  BY DEF HandoffInit, NoTurn
<1>3. ChainTypeOK
  BY <1>1 DEF HandoffInit, ChainTypeOK, Views
<1>4. RoundBounded
  BY <1>2 DEF RoundBounded, RunsBounded, Serial, NoRuns
<1>5. QED
  BY <1>2, <1>3, <1>4 DEF HandoffInv, MessageCarries, DecisionFits, DecisionStands,
     RefusedOnlyAfterChange
\* Changes of the registry disturb nothing but the decision still to be checked.
LEMMA ChangeKeeps == HandoffInv /\ ChangeRegistry => HandoffInv'
<1> SUFFICES ASSUME HandoffInv, ChangeRegistry PROVE HandoffInv'
  OBVIOUS
<1> USE HandoffFacts DEF HandoffInv
<1>1. /\ view' \in [Agents -> Views] /\ sticky' = sticky /\ runs' = runs
      /\ turn' = [turn EXCEPT !.changed = @ \/ turn.at = "routed"]
  BY DEF ChangeRegistry, ChainTypeOK
<1>2. /\ turn'.at = turn.at /\ turn'.msg = turn.msg /\ turn'.origin = turn.origin
      /\ turn'.to = turn.to /\ turn'.kits = turn.kits
      /\ turn.changed \/ turn.at = "routed" => turn'.changed
  BY <1>1 DEF ChainTypeOK, Turn
<1>3. turn' \in Turn
  <2>1. CASE turn.changed \/ turn.at = "routed"
    <3>1. turn' = [turn EXCEPT !.changed = TRUE]
      BY <1>1, <2>1 DEF ChainTypeOK, Turn
    <3>2. QED
      BY <3>1 DEF ChainTypeOK, Turn
  <2>2. CASE ~(turn.changed \/ turn.at = "routed")
    <3>1. turn' = [turn EXCEPT !.changed = FALSE]
      BY <1>1, <2>2 DEF ChainTypeOK, Turn
    <3>2. QED
      BY <3>1 DEF ChainTypeOK, Turn
  <2>3. QED
    BY <2>1, <2>2
<1>4. ChainTypeOK'
  BY <1>1, <1>3 DEF ChainTypeOK
<1>5. MessageCarries' /\ DecisionFits'
  BY <1>1, <1>2 DEF MessageCarries, DecisionFits
<1>6. DecisionStands'
  BY <1>2 DEF DecisionStands, RefusedOnlyAfterChange
<1>7. RoundBounded'
  BY <1>1, <1>2 DEF RoundBounded, RunsBounded, Serial
<1>8. QED
  BY <1>4, <1>5, <1>6, <1>7

\* A turn that starts afresh carries no tools and no runs.
LEMMA FreshTurn ==
  ASSUME HandoffInv, turn' \in Turn, sticky' \in Agents \cup {Master, NoOne}, view' = view,
         runs' = NoRuns, turn'.at = "sent", turn'.kits = {}, MessageCarries'
  PROVE  HandoffInv'
<1>1. ChainTypeOK'
  BY DEF HandoffInv, ChainTypeOK, NoRuns
<1>2. RoundBounded'
  BY HandoffFacts DEF RoundBounded, RunsBounded, Serial, NoRuns
<1>3. DecisionFits' /\ DecisionStands'
  BY DEF DecisionFits, DecisionStands, RefusedOnlyAfterChange
<1>4. QED
  BY <1>1, <1>2, <1>3 DEF HandoffInv

LEMMA AskKeeps == HandoffInv /\ Ask => HandoffInv'
<1> SUFFICES ASSUME HandoffInv, Ask PROVE HandoffInv'
  OBVIOUS
<1>1. PICK m \in UserMessages : turn' = [NoTurn EXCEPT !.at = "sent", !.msg = m]
  BY DEF Ask
<1>2. m \in Sent /\ m.first \in m.mentions \cup {NoOne}
  BY HandoffFacts DEF Message, Sent
<1>3. turn' \in Turn /\ turn'.at = "sent" /\ turn'.kits = {} /\ turn'.msg = m
      /\ turn'.origin.kind = "user"
  <2>1. NoTurn.kits = {} /\ NoTurn.origin.kind = "user"
    BY DEF NoTurn, ByUser
  <2>2. QED
    BY <1>1, <1>2, <2>1, NoTurnIsTurn DEF Turn
<1>4. sticky' \in Agents \cup {Master, NoOne} /\ view' = view /\ runs' = NoRuns
  BY DEF Ask, Candidates, HandoffInv, ChainTypeOK
<1>5. QED
  BY <1>2, <1>3, <1>4, FreshTurn DEF MessageCarries

LEMMA RouteKeeps == HandoffInv /\ RouteMessage => HandoffInv'
<1> SUFFICES ASSUME HandoffInv, RouteMessage PROVE HandoffInv'
  OBVIOUS
<1> USE HandoffFacts DEF HandoffInv
<1>1. PICK d \in Routes(turn.msg, sticky, Candidates) :
        turn' = [turn EXCEPT !.at = "routed", !.to = d.to, !.changed = FALSE]
  BY DEF RouteMessage
<1>2. /\ turn.at = "sent" /\ view' = view /\ sticky' = sticky /\ runs' = runs
      /\ turn.msg \in Sent /\ Candidates \in SUBSET Agents
      /\ turn.msg.first \in turn.msg.mentions \cup {NoOne}
  BY DEF RouteMessage, ChainTypeOK, Turn, Candidates, MessageCarries
<1>3. d.to \in Candidates \cup {Master}
  BY <1>2, RoutesToCandidates
<1>4. /\ turn' \in Turn /\ turn'.at = "routed" /\ turn'.to = d.to /\ turn'.kits = turn.kits
      /\ turn'.msg = turn.msg /\ turn'.origin = turn.origin
  BY <1>1, <1>2, <1>3 DEF ChainTypeOK, Turn
<1>5. /\ turn.msg.escalated => d.to = Master
      /\ sticky # NoOne =>
           d.to \in {sticky, Master} \cup turn.msg.mentions \cup turn.msg.names
  BY <1>2, RoutesWhereSent
<1>6. DecisionFits'
  BY <1>2, <1>4, <1>5 DEF DecisionFits, MessageCarries
<1>7. DecisionStands'
  BY <1>2, <1>3, <1>4 DEF DecisionStands, RefusedOnlyAfterChange, Usable, Candidates, ChainTypeOK
<1>8. RoundBounded'
  BY <1>2, <1>4 DEF RoundBounded, RunsBounded, Serial
<1>9. QED
  BY <1>2, <1>4, <1>6, <1>7, <1>8 DEF ChainTypeOK, MessageCarries

LEMMA LoadKeeps == HandoffInv /\ LoadAgent => HandoffInv'
<1> SUFFICES ASSUME HandoffInv, LoadAgent PROVE HandoffInv'
  OBVIOUS
<1> USE HandoffFacts DEF HandoffInv
<1>1. /\ turn.at = "routed" /\ view' = view /\ runs' = runs
      /\ \/ Usable(turn.to) /\ turn' = [turn EXCEPT !.at = "loaded"] /\ sticky' = turn.to
         \/ ~Usable(turn.to) /\ turn' = [turn EXCEPT !.at = "refused"] /\ sticky' = sticky
  BY DEF LoadAgent
<1>2. /\ turn' \in Turn /\ turn'.kits = turn.kits /\ turn'.msg = turn.msg
      /\ turn'.origin = turn.origin /\ turn'.to = turn.to /\ turn'.changed = turn.changed
      /\ turn'.at = "loaded" \/ (turn'.at = "refused" /\ ~Usable(turn.to))
  <2>1. PICK at \in {"loaded", "refused"} :
          turn' = [turn EXCEPT !.at = at] /\ (at = "refused" => ~Usable(turn.to))
    BY <1>1
  <2>2. turn \in Turn
    BY DEF ChainTypeOK
  <2>3. /\ turn' \in Turn /\ turn'.kits = turn.kits /\ turn'.msg = turn.msg
        /\ turn'.origin = turn.origin /\ turn'.to = turn.to /\ turn'.changed = turn.changed
        /\ turn'.at = at
    BY <2>1, <2>2 DEF Turn
  <2>4. QED
    BY <2>1, <2>3
<1>3. ChainTypeOK'
  BY <1>1, <1>2 DEF ChainTypeOK, Turn
<1>4. MessageCarries' /\ DecisionFits' /\ DecisionStands'
  BY <1>1, <1>2 DEF MessageCarries, DecisionFits, DecisionStands, RefusedOnlyAfterChange
<1>5. RoundBounded'
  BY <1>1, <1>2 DEF RoundBounded, RunsBounded, Serial
<1>6. QED
  BY <1>3, <1>4, <1>5

LEMMA EquipKeeps == HandoffInv /\ EquipTurn => HandoffInv'
<1> SUFFICES ASSUME HandoffInv, EquipTurn PROVE HandoffInv'
  OBVIOUS
<1> USE HandoffFacts DEF HandoffInv
<1>1. PICK kit \in Kits :
        turn' = [turn EXCEPT !.at = "equipped", !.msg = NoMessage,
                             !.origin = ByUser, !.kits = {kit}]
  BY DEF EquipTurn
<1>2. turn.at = "loaded" /\ view' = view /\ sticky' = sticky /\ runs' = runs
  BY DEF EquipTurn
<1>3. NoMessage \in Sent /\ ByUser \in Origin
  BY DEF NoMessage, Sent, ByUser, Origin
<1>4. turn' \in Turn /\ turn'.at = "equipped"
  BY <1>1, <1>3 DEF ChainTypeOK, Turn
<1>5. runs.count + runs.passed + runs.left = 0
  BY <1>2 DEF RoundBounded
<1>6. runs.count = 0 /\ runs.passed = 0 /\ runs.left = 0
  BY <1>5 DEF ChainTypeOK
<1>7. RoundBounded'
  BY <1>2, <1>4, <1>6 DEF RoundBounded, RunsBounded
<1>8. QED
  BY <1>2, <1>4, <1>7 DEF ChainTypeOK, MessageCarries, DecisionFits, DecisionStands,
     RefusedOnlyAfterChange

\* A handoff is a fresh turn that carries what the router looks for.
LEMMA HandOverKeeps ==
  ASSUME HandoffInv, NEW kind \in {"escalate", "update", "delegate"},
         NEW target \in Agents \cup {Master}, NEW m \in Sent, HandOver(kind, target, m),
         m.first \in m.mentions \cup {NoOne}, kind = "escalate" => m.escalated,
         kind = "update" => target = Master
  PROVE  HandoffInv'
<1> USE HandoffFacts DEF HandoffInv
<1>1. /\ turn' = [NoTurn EXCEPT !.at = "sent", !.msg = m, !.hops = turn.hops + 1,
                    !.origin = [kind |-> kind, from |-> turn.to, target |-> target]]
      /\ sticky' = target /\ runs' = NoRuns /\ view' = view /\ turn.hops < MaxHops
  BY DEF HandOver
<1>2. /\ [kind |-> kind, from |-> turn.to, target |-> target] \in Origin
      /\ turn.hops + 1 \in 0..MaxHops
  BY <1>1 DEF Origin, ChainTypeOK, Turn
<1>3. /\ turn' \in Turn /\ turn'.at = "sent" /\ turn'.kits = {} /\ turn'.msg = m
      /\ turn'.origin.kind = kind /\ turn'.origin.target = target
  BY <1>1, <1>2 DEF NoTurn, Turn
<1>4. QED
  BY <1>1, <1>3, FreshTurn DEF MessageCarries

LEMMA HandoffsKeep ==
  HandoffInv /\ (Escalate \/ RequestUpdate \/ Delegate) => HandoffInv'
<1> SUFFICES ASSUME HandoffInv, Escalate \/ RequestUpdate \/ Delegate PROVE HandoffInv'
  OBVIOUS
<1>1. turn.to \in Agents \cup {Master, NoOne}
  BY DEF HandoffInv, ChainTypeOK, Turn
<1>2. CASE Escalate
  <2>1. PICK m \in UserMessages : HandOver("escalate", Master,
          [m EXCEPT !.escalated = TRUE, !.names = @ \cup {turn.to}, !.brief = FALSE])
    BY <1>2 DEF Escalate
  <2> DEFINE sent == [m EXCEPT !.escalated = TRUE, !.names = @ \cup {turn.to}, !.brief = FALSE]
  <2>2. sent \in Sent /\ sent.escalated /\ sent.first = m.first /\ sent.mentions = m.mentions
    <3>1. m \in Sent /\ m.names \cup {turn.to} \in SUBSET (Agents \cup {Master, NoOne})
      BY <1>1, HandoffFacts DEF Message, Sent
    <3>2. QED
      BY <3>1 DEF Sent
  <2> HIDE DEF sent
  <2>3. HandOver("escalate", Master, sent)
    BY <2>1 DEF sent
  <2>4. QED
    BY <2>2, <2>3, HandOverKeeps, HandoffFacts
<1>3. CASE RequestUpdate
  <2>1. PICK m \in UserMessages : HandOver("update", Master,
          [m EXCEPT !.names = @ \cup {turn.to}, !.brief = FALSE])
    BY <1>3 DEF RequestUpdate
  <2> DEFINE sent == [m EXCEPT !.names = @ \cup {turn.to}, !.brief = FALSE]
  <2>2. sent \in Sent /\ sent.first = m.first /\ sent.mentions = m.mentions
    <3>1. m \in Sent /\ m.names \cup {turn.to} \in SUBSET (Agents \cup {Master, NoOne})
      BY <1>1, HandoffFacts DEF Message, Sent
    <3>2. QED
      BY <3>1 DEF Sent
  <2> HIDE DEF sent
  <2>3. HandOver("update", Master, sent)
    BY <2>1 DEF sent
  <2>4. QED
    BY <2>2, <2>3, HandOverKeeps, HandoffFacts
<1>4. CASE Delegate
  <2>1. PICK a \in Agents \cup {Master}, m \in UserMessages : HandOver("delegate", a, m)
    BY <1>4 DEF Delegate
  <2>2. m \in Sent
    BY HandoffFacts DEF Message, Sent
  <2>3. QED
    BY <2>1, <2>2, HandOverKeeps, HandoffFacts
<1>5. QED
  BY <1>2, <1>3, <1>4

LEMMA RunFields ==
  ASSUME NEW r \in [left : Nat, passed : Nat, count : Nat], NEW x \in Nat, NEW y \in Nat,
         NEW s, s = [r EXCEPT !.left = x, !.passed = y] \/ s = [r EXCEPT !.passed = x, !.count = y]
  PROVE  /\ s \in [left : Nat, passed : Nat, count : Nat]
         /\ s = [r EXCEPT !.left = x, !.passed = y] =>
              s.left = x /\ s.passed = y /\ s.count = r.count
         /\ s = [r EXCEPT !.passed = x, !.count = y] =>
              s.left = r.left /\ s.passed = x /\ s.count = y
<1>1. CASE s = [r EXCEPT !.left = x, !.passed = y]
  BY <1>1
<1>2. CASE s = [r EXCEPT !.passed = x, !.count = y]
  BY <1>2
<1>3. QED
  BY <1>1, <1>2

\* A run that passes the limit when it is not yet reached leaves at most one
\* round more to count.
LEMMA RoundsKeep ==
  HandoffInv /\ (StartRound \/ CheckRun \/ CountRun) => HandoffInv'
<1> SUFFICES ASSUME HandoffInv, StartRound \/ CheckRun \/ CountRun PROVE HandoffInv'
  OBVIOUS
<1> USE HandoffFacts DEF HandoffInv
<1>1. /\ view' = view /\ sticky' = sticky /\ turn' = turn
      /\ runs \in [left : Nat, passed : Nat, count : Nat]
  BY DEF StartRound, CheckRun, CountRun, ChainTypeOK
<1>2. runs.left + runs.passed > 0 => turn.at = "equipped"
  BY <1>1 DEF RoundBounded
<1>3. CASE StartRound
  <2>1. PICK n \in 1..MaxCalls : runs' = [runs EXCEPT !.left = n]
    BY <1>3 DEF StartRound
  <2>2. runs.left = 0 /\ runs.passed = 0 /\ turn.at = "equipped"
    BY <1>3 DEF StartRound, Offers, RoundBounded
  <2>3. /\ runs' \in [left : Nat, passed : Nat, count : Nat]
        /\ runs'.left <= MaxCalls /\ runs'.passed = 0 /\ runs'.count = runs.count
    BY <1>1, <2>1, <2>2
  <2>4. RoundBounded'
    BY <1>1, <2>2, <2>3 DEF RoundBounded, RunsBounded, Serial
  <2>5. QED
    BY <1>1, <2>3, <2>4 DEF ChainTypeOK, MessageCarries, DecisionFits, DecisionStands,
       RefusedOnlyAfterChange, Usable
<1>4. CASE CheckRun
  <2>1. /\ runs.left > 0
        /\ \/ runs.count < MaxAgents /\ runs' = [runs EXCEPT !.left = @ - 1, !.passed = @ + 1]
           \/ runs' = [runs EXCEPT !.left = @ - 1]
    BY <1>4 DEF CheckRun
  <2>2. turn.at = "equipped" /\ (Serial => runs.passed = 0)
    BY <1>1, <1>4, <1>2, <2>1 DEF CheckRun
  <2>3. runs.left - 1 \in Nat
    BY <1>1, <2>1
  <2>4. /\ runs.left > 0 /\ (Serial => runs.passed = 0) /\ turn.at = "equipped"
        /\ runs' \in [left : Nat, passed : Nat, count : Nat]
        /\ runs'.left = runs.left - 1 /\ runs'.count = runs.count
        /\ \/ runs.count < MaxAgents /\ runs'.passed = runs.passed + 1
           \/ runs'.passed = runs.passed
    <3>1. CASE runs.count < MaxAgents /\ runs' = [runs EXCEPT !.left = @ - 1, !.passed = @ + 1]
      <4>1. runs.passed + 1 \in Nat /\ runs' = [runs EXCEPT !.left = runs.left - 1,
                                                          !.passed = runs.passed + 1]
        BY <1>1, <3>1
      <4>2. /\ runs' \in [left : Nat, passed : Nat, count : Nat]
            /\ runs'.left = runs.left - 1 /\ runs'.passed = runs.passed + 1
            /\ runs'.count = runs.count
        BY ONLY <1>1, <2>3, <4>1, RunFields
      <4>3. QED
        BY ONLY <2>1, <2>2, <3>1, <4>2
    <3>2. CASE runs' = [runs EXCEPT !.left = @ - 1]
      BY <1>1, <2>1, <2>2, <2>3, <3>2
    <3>3. QED
      BY <2>1, <3>1, <3>2
  <2>5. RoundBounded'
    BY <1>1, <2>4 DEF RoundBounded, RunsBounded, Serial
  <2>6. QED
    BY <1>1, <2>4, <2>5 DEF ChainTypeOK, MessageCarries, DecisionFits, DecisionStands,
       RefusedOnlyAfterChange, Usable
<1>5. CASE CountRun
  <2>1. runs.passed > 0 /\ runs' = [runs EXCEPT !.passed = @ - 1, !.count = @ + 1]
    BY <1>5 DEF CountRun
  <2>2. turn.at = "equipped"
    BY <1>1, <1>2, <2>1
  <2>3. runs.passed - 1 \in Nat
    BY <1>1, <2>1
  <2>4. /\ runs.passed > 0 /\ turn.at = "equipped"
        /\ runs' \in [left : Nat, passed : Nat, count : Nat]
        /\ runs'.left = runs.left /\ runs'.count = runs.count + 1
        /\ runs'.passed = runs.passed - 1
    <3>1. runs.count + 1 \in Nat /\ runs' = [runs EXCEPT !.passed = runs.passed - 1,
                                                       !.count = runs.count + 1]
      BY <1>1, <2>1
    <3>2. /\ runs' \in [left : Nat, passed : Nat, count : Nat]
          /\ runs'.passed = runs.passed - 1 /\ runs'.count = runs.count + 1
          /\ runs'.left = runs.left
      BY ONLY <1>1, <2>3, <3>1, RunFields
    <3>3. QED
      BY ONLY <2>1, <2>2, <3>2
  <2>5. RoundBounded'
    BY <1>1, <2>4 DEF RoundBounded, RunsBounded, Serial
  <2>6. QED
    BY <1>1, <2>4, <2>5 DEF ChainTypeOK, MessageCarries, DecisionFits, DecisionStands,
       RefusedOnlyAfterChange, Usable
<1>6. QED
  BY <1>3, <1>4, <1>5

LEMMA HandoffAlways == HandoffSpec => []HandoffInv
<1>1. HandoffInv /\ [HandoffNext]_handoffVars => HandoffInv'
  <2>1. ASSUME HandoffInv, UNCHANGED handoffVars PROVE HandoffInv'
    BY <2>1 DEF handoffVars, HandoffInv, ChainTypeOK, MessageCarries, DecisionFits,
       DecisionStands, RefusedOnlyAfterChange, Usable, RoundBounded, RunsBounded, Serial
  <2>2. QED
    BY <2>1, ChangeKeeps, AskKeeps, RouteKeeps, LoadKeeps, EquipKeeps, HandoffsKeep, RoundsKeep
       DEF HandoffNext
<1>2. QED
  BY HandoffStarts, <1>1, PTL DEF HandoffSpec

\* The endpoint's own check turns a routed message down only after a change of
\* the registry, for any agents, messages and changes (chat.py 59-64, router.py
\* 33-159).
THEOREM RouterNeverMisleads == HandoffSpec => []RefusedOnlyAfterChange
<1>1. HandoffInv => RefusedOnlyAfterChange
  BY DEF HandoffInv, DecisionStands
<1>2. QED
  BY <1>1, HandoffAlways, PTL

\* Every handoff arrives where it was sent, or where its text points, whatever
\* the model writes and the classifier answers (router.py 36-112, master.py
\* 790-801).
THEOREM HandoffsArrive == HandoffSpec => []HandoffArrives
<1>1. HandoffInv => HandoffArrives
  BY DEF HandoffInv, DecisionFits, HandoffArrives
<1>2. QED
  BY <1>1, HandoffAlways, PTL

\* The runs of a turn are bounded for every limit and every size of a round, and
\* a guest's parallel round adds at most itself less one (master.py 705-734).
THEOREM RunsAlwaysBounded == HandoffSpec => []RunsBounded
<1>1. HandoffInv => RunsBounded
  BY DEF HandoffInv, RoundBounded
<1>2. QED
  BY <1>1, HandoffAlways, PTL

-----------------------------------------------------------------------------
(* The provider's lists.                                                   *)

\* No provider lists a tool twice, and each handles what it lists.
ListsWell(list, handles) ==
  IsInjective(list) /\ \A j \in DOMAIN list : list[j] \in handles

LEMMA ServersAre ==
  Servers = {"system", "web-search", "file-export", "partner-integration", "contract-db",
             "company-docs", "gitlab", "zalopay-faq", "zalopay-deals", "zalopay-docs"}
BY DEF Servers, Listed

LEMMA ProvidersListWell ==
  ASSUME NEW s \in Servers
  PROVE  ListsWell(Listed[s], Handled[s])
<1> USE ServersAre DEF ListsWell, IsInjective
<1>1. CASE s = "system"
  <2>1. Listed[s] = SystemLists /\ Handled[s] = SystemHandles
    BY <1>1 DEF Listed, Handled
  <2> QED BY <2>1 DEF SystemLists, SystemHandles
<1>2. CASE s = "web-search"
  <2>1. Listed[s] = WebSearchLists /\ Handled[s] = WebSearchHandles
    BY <1>2 DEF Listed, Handled
  <2> QED BY <2>1 DEF WebSearchLists, WebSearchHandles
<1>3. CASE s = "file-export"
  <2>1. Listed[s] = FileExportLists /\ Handled[s] = FileExportHandles
    BY <1>3 DEF Listed, Handled
  <2> QED BY <2>1 DEF FileExportLists, FileExportHandles
<1>4. CASE s = "partner-integration"
  <2>1. Listed[s] = PartnerLists /\ Handled[s] = PartnerHandles
    BY <1>4 DEF Listed, Handled
  <2> QED BY <2>1 DEF PartnerLists, PartnerHandles
<1>5. CASE s = "contract-db"
  <2>1. Listed[s] = ContractLists /\ Handled[s] = ContractHandles
    BY <1>5 DEF Listed, Handled
  <2> QED BY <2>1 DEF ContractLists, ContractHandles
<1>6. CASE s = "company-docs"
  <2>1. Listed[s] = CompanyDocsLists /\ Handled[s] = CompanyDocsHandles
    BY <1>6 DEF Listed, Handled
  <2> QED BY <2>1 DEF CompanyDocsLists, CompanyDocsHandles
<1>7. CASE s = "gitlab"
  <2>1. Listed[s] = GitlabLists /\ Handled[s] = GitlabHandles
    BY <1>7 DEF Listed, Handled
  <2> QED BY <2>1 DEF GitlabLists, GitlabHandles
<1>8. CASE s = "zalopay-faq"
  <2>1. Listed[s] = FaqLists /\ Handled[s] = FaqHandles
    BY <1>8 DEF Listed, Handled
  <2> QED BY <2>1 DEF FaqLists, FaqHandles
<1>9. CASE s = "zalopay-deals"
  <2>1. Listed[s] = DealsLists /\ Handled[s] = DealsHandles
    BY <1>9 DEF Listed, Handled
  <2> QED BY <2>1 DEF DealsLists, DealsHandles
<1>10. CASE s = "zalopay-docs"
  <2>1. Listed[s] = DocsLists /\ Handled[s] = DocsHandles
    BY <1>10 DEF Listed, Handled
  <2> QED BY <2>1 DEF DocsLists, DocsHandles
<1> QED BY <1>1, <1>2, <1>3, <1>4, <1>5, <1>6, <1>7, <1>8, <1>9, <1>10

LEMMA BuilderListsWell == ListsWell(BuilderTools, BuilderHandlers)
BY DEF ListsWell, IsInjective, BuilderTools, BuilderHandlers

-----------------------------------------------------------------------------
(* First places.                                                           *)

Before == {ss \in Nat \X Nat : ss[1] < ss[2]}

LEMMA LeastPlace ==
  ASSUME NEW T \in SUBSET Nat, T # {}
  PROVE  \E m \in T : \A k \in T : m <= k
<1>1. IsWellFoundedOn(Before, Nat)
  BY NatLessThanWellFounded DEF OpToRel, Before
<1>2. PICK m \in T : \A k \in T : ~(<<k, m>> \in Before)
  BY ONLY <1>1, WFMin, T \in SUBSET Nat, T # {}
<1>3. ASSUME NEW k \in T PROVE m <= k
  <2>1. k \in Nat /\ m \in Nat /\ ~(<<k, m>> \in Before)
    BY <1>2, <1>3
  <2>2. ~(k < m)
    BY ONLY <2>1 DEF Before
  <2> QED BY ONLY <2>1, <2>2
<1> QED BY <1>3

\* dict.fromkeys: each server once.
LEMMA ConnectorsOnce ==
  ASSUME NEW kit \in Kit
  PROVE  /\ IsInjective(Connectors(kit))
         /\ Range(Connectors(kit)) = Range(AlwaysOn(kit)) \cup Range(kit.connectors)
<1> DEFINE all == AlwaysOn(kit) \o kit.connectors
           first == {i \in DOMAIN all : \A j \in 1..i - 1 : all[j] # all[i]}
<1> DEFINE Name == STRING \cup Servers
<1>1. AlwaysOn(kit) \in Seq(Name) /\ kit.connectors \in Seq(Name)
  <2>1. kit.connectors \in Seq(STRING) /\ STRING \subseteq Name
    BY DEF Kit
  <2>2. "system" \in Name /\ "web-search" \in Name
    BY ServersAre
  <2> HIDE DEF Name
  <2>3. kit.connectors \in Seq(Name)
    BY ONLY <2>1, SeqMonotonic
  <2>4. <<"system", "web-search">> \in Seq(Name) /\ <<"system">> \in Seq(Name)
    BY <2>2
  <2> QED BY <2>3, <2>4 DEF AlwaysOn
<1> HIDE DEF Name
<1>2. Connectors(kit) = [i \in first |-> all[i]]
  BY DEF Connectors, Restrict
<1>3. /\ DOMAIN all \subseteq Nat \ {0} /\ \A i \in DOMAIN all : 1..i \subseteq DOMAIN all
      /\ Range(all) = Range(AlwaysOn(kit)) \cup Range(kit.connectors)
  <2> HIDE DEF all
  <2>1. all \in Seq(Name) /\ all = AlwaysOn(kit) \o kit.connectors
    BY <1>1 DEF all
  <2>2. DOMAIN all = 1..Len(all) /\ Len(all) \in Nat
    BY <2>1
  <2>3. DOMAIN all \subseteq Nat \ {0} /\ \A i \in DOMAIN all : 1..i \subseteq DOMAIN all
    BY <2>2
  <2>4. Range(all) = Range(AlwaysOn(kit)) \cup Range(kit.connectors)
    BY ONLY <1>1, <2>1, RangeConcatenation
  <2> QED BY <2>3, <2>4
<1> HIDE DEF all
<1>4. IsInjective(Connectors(kit))
  <2>1. ASSUME NEW i \in first, NEW j \in first, all[i] = all[j] PROVE i = j
    <3>1. i \in Nat /\ j \in Nat /\ i \in 1..i /\ j \in 1..j /\ 0 < i /\ 0 < j
      BY <1>3, <2>1
    <3>2. ~(i < j) /\ ~(j < i)
      BY <2>1, <3>1
    <3> QED BY ONLY <3>1, <3>2
  <2> QED BY <1>2, <2>1 DEF IsInjective
<1>5. ASSUME NEW i \in DOMAIN all PROVE \E m \in first : all[m] = all[i]
  <2> DEFINE same == {k \in DOMAIN all : all[k] = all[i]}
  <2>1. same \in SUBSET Nat /\ same # {}
    BY <1>3, <1>5
  <2>2. PICK m \in same : \A k \in same : m <= k
    BY ONLY <2>1, LeastPlace
  <2>3. m \in DOMAIN all /\ all[m] = all[i] /\ m \in Nat
    BY <2>1, <2>2
  <2>4. ASSUME NEW j \in 1..m - 1 PROVE all[j] # all[m]
    <3>1. j \in 1..m /\ j < m
      BY <2>3, <2>4
    <3>2. j \in DOMAIN all
      BY <1>3, <2>3, <3>1
    <3>3. ~(m <= j)
      BY ONLY <2>3, <2>4, <3>1
    <3> QED BY <2>2, <2>3, <3>2, <3>3
  <2> QED BY <2>3, <2>4
<1>6. Range(Connectors(kit)) = Range(all)
  BY <1>2, <1>5 DEF Range
<1> QED BY <1>3, <1>4, <1>6

-----------------------------------------------------------------------------
(* The parts of the list of tools.                                         *)

LEMMA WireNames ==
  ASSUME NEW s, NEW n, NEW s2, NEW n2
  PROVE  /\ Wire(s, n) = Wire(s2, n2) <=> s = s2 /\ n = n2
         /\ Wire(s, n)[1] = s /\ Wire(s, n)[2] = n
BY DEF Wire

LEMMA BareNames ==
  ASSUME NEW n, NEW n2
  PROVE  /\ Bare(n) = Bare(n2) <=> n = n2
         /\ Bare(n)[2] = n
         /\ \A s \in Servers : Wire(s, n2) # Bare(n)
BY ServersAre DEF Wire, Bare

\* A tool of a provider, on the wire.
CatalogTool(t) == \E s \in Servers : \E j \in DOMAIN Listed[s] : t = Wire(s, Listed[s][j])

LEMMA ToolsForOnce ==
  ASSUME NEW f, IsInjective(f), NEW live
  PROVE  /\ IsInjective(ToolsFor(f, live))
         /\ \A t \in Range(ToolsFor(f, live)) : CatalogTool(t)
         /\ \A i \in DOMAIN f : f[i] \in Servers \cap live =>
              \A j \in DOMAIN Listed[f[i]] : Wire(f[i], Listed[f[i]][j]) \in Range(ToolsFor(f, live))
<1> DEFINE listing == {i \in DOMAIN f : f[i] \in Servers \cap live}
           places == UNION {{i} \X DOMAIN Listed[f[i]] : i \in listing}
           tool(p) == Wire(f[p[1]], Listed[f[p[1]]][p[2]])
<1>1. ToolsFor(f, live) = [p \in places |-> tool(p)]
  BY DEF ToolsFor
<1>2. ASSUME NEW p \in places
      PROVE  p = <<p[1], p[2]>> /\ p[1] \in listing /\ p[2] \in DOMAIN Listed[f[p[1]]]
  OBVIOUS
<1>3. ASSUME NEW i \in listing, NEW j \in DOMAIN Listed[f[i]]
      PROVE  <<i, j>> \in places /\ tool(<<i, j>>) = Wire(f[i], Listed[f[i]][j])
  OBVIOUS
<1>4. ASSUME NEW p \in places, NEW q \in places, tool(p) = tool(q) PROVE p = q
  <2>1. f[p[1]] = f[q[1]] /\ Listed[f[p[1]]][p[2]] = Listed[f[q[1]]][q[2]]
    BY <1>4, WireNames
  <2>2. p[1] = q[1]
    BY <1>2, <2>1 DEF IsInjective
  <2>3. IsInjective(Listed[f[p[1]]])
    BY <1>2, ProvidersListWell DEF ListsWell
  <2>4. p[2] = q[2]
    BY <1>2, <2>1, <2>2, <2>3 DEF IsInjective
  <2> QED BY <1>2, <2>2, <2>4
<1>5. ASSUME NEW p \in places PROVE CatalogTool(tool(p))
  BY <1>2 DEF CatalogTool
<1> HIDE DEF places, tool
<1>6. IsInjective(ToolsFor(f, live))
  BY <1>1, <1>4 DEF IsInjective
<1>7. \A t \in Range(ToolsFor(f, live)) : CatalogTool(t)
  BY <1>1, <1>5 DEF Range
<1>8. ASSUME NEW i \in listing, NEW j \in DOMAIN Listed[f[i]]
      PROVE  Wire(f[i], Listed[f[i]][j]) \in Range(ToolsFor(f, live))
  <2>1. <<i, j>> \in DOMAIN ToolsFor(f, live) /\ ToolsFor(f, live)[<<i, j>>] = tool(<<i, j>>)
    BY <1>1, <1>3, <1>8
  <2> QED BY <1>3, <1>8, <2>1 DEF Range
<1> QED BY <1>6, <1>7, <1>8

LEMMA CatalogPart ==
  ASSUME NEW kit \in Kit
  PROVE  /\ IsInjective(CatalogTools(kit))
         /\ \A t \in Range(CatalogTools(kit)) : CatalogTool(t)
         /\ \A s \in Servers : \A j \in DOMAIN Listed[s] :
              /\ s \in Range(AlwaysOn(kit)) \cup Range(kit.connectors)
              /\ kit.live \/ s # "web-search"
              /\ ProfileActive(kit) \/ Wire(s, Listed[s][j]) \notin WorkspaceTools
              => Wire(s, Listed[s][j]) \in Range(CatalogTools(kit))
<1> DEFINE live == IF kit.live THEN Servers ELSE Servers \ {"web-search"}
           tools == ToolsFor(Connectors(kit), live)
           gated == IF kit.packager /\ ~ProfileActive(kit) THEN WorkspaceTools ELSE {}
<1>1. CatalogTools(kit) = [p \in {p \in DOMAIN tools : tools[p] \notin gated} |-> tools[p]]
  BY DEF CatalogTools, Restrict
<1>2. /\ IsInjective(tools) /\ \A t \in Range(tools) : CatalogTool(t)
      /\ \A i \in DOMAIN Connectors(kit) : Connectors(kit)[i] \in Servers \cap live =>
              \A j \in DOMAIN Listed[Connectors(kit)[i]] :
                Wire(Connectors(kit)[i], Listed[Connectors(kit)[i]][j]) \in Range(tools)
  BY ConnectorsOnce, ToolsForOnce
<1>3. ASSUME NEW s \in Servers, NEW j \in DOMAIN Listed[s],
             s \in Range(AlwaysOn(kit)) \cup Range(kit.connectors),
             kit.live \/ s # "web-search"
      PROVE  Wire(s, Listed[s][j]) \in Range(tools)
  <2>1. PICK i \in DOMAIN Connectors(kit) : Connectors(kit)[i] = s
    BY <1>3, ConnectorsOnce DEF Range
  <2> QED BY <1>2, <1>3, <2>1
<1> HIDE DEF tools
<1>4. IsInjective(CatalogTools(kit)) /\ \A t \in Range(CatalogTools(kit)) : CatalogTool(t)
  BY <1>1, <1>2 DEF IsInjective, Range
<1>5. \A t \in Range(tools) : t \notin gated => t \in Range(CatalogTools(kit))
  BY <1>1 DEF Range
<1> QED BY <1>3, <1>4, <1>5

\* A catalog tool comes from a server the agent has, and a live one.
LEMMA CatalogOnly ==
  ASSUME NEW kit \in Kit, NEW t \in Range(CatalogTools(kit))
  PROVE  \E s \in Range(AlwaysOn(kit)) \cup Range(kit.connectors) : \E n :
           /\ t = Wire(s, n)
           /\ kit.live \/ s # "web-search"
<1> DEFINE live == IF kit.live THEN Servers ELSE Servers \ {"web-search"}
           f == Connectors(kit)
           tools == ToolsFor(f, live)
           gated == IF kit.packager /\ ~ProfileActive(kit) THEN WorkspaceTools ELSE {}
           listing == {i \in DOMAIN f : f[i] \in Servers \cap live}
           places == UNION {{i} \X DOMAIN Listed[f[i]] : i \in listing}
<1>1. CatalogTools(kit) = [p \in {p \in DOMAIN tools : tools[p] \notin gated} |-> tools[p]]
  BY DEF CatalogTools, Restrict
<1>2. tools = [p \in places |-> Wire(f[p[1]], Listed[f[p[1]]][p[2]])]
  BY DEF ToolsFor
<1>3. \A p \in places : p[1] \in listing
  OBVIOUS
<1>4. \A i \in listing : f[i] \in Range(f) /\ (kit.live \/ f[i] # "web-search")
  BY DEF Range
<1> HIDE DEF tools, places, listing, f, gated
<1>5. PICK p \in places : t = Wire(f[p[1]], Listed[f[p[1]]][p[2]])
  <2>1. PICK p \in DOMAIN CatalogTools(kit) : t = CatalogTools(kit)[p]
    BY DEF Range
  <2>2. p \in DOMAIN tools /\ t = tools[p]
    BY <1>1, <2>1
  <2> QED BY <1>2, <2>2
<1>6. f[p[1]] \in Range(f) /\ (kit.live \/ f[p[1]] # "web-search")
  BY <1>3, <1>4, <1>5
<1>7. Range(f) = Range(AlwaysOn(kit)) \cup Range(kit.connectors)
  BY ConnectorsOnce DEF f
<1> QED BY <1>5, <1>6, <1>7

LEMMA MasterPart ==
  ASSUME NEW kit \in Kit
  PROVE  /\ IsInjective(MasterTools(kit))
         /\ \A t \in Range(MasterTools(kit)) :
              \E n \in BuilderHandlers : t = Bare(n) /\ (kit.guest => n \notin GuestBlocked)
         /\ kit.master \/ MasterTools(kit) = <<>>
         /\ kit.master /\ BuilderEnabled /\ ~kit.guest =>
              Bare("set_salutation") \in Range(MasterTools(kit))
<1>1. CASE ~kit.master \/ ~BuilderEnabled
  <2>1. MasterTools(kit) = <<>>
    BY <1>1 DEF MasterTools
  <2>2. IsInjective(<< >>) /\ Range(<< >>) = {}
    BY DEF IsInjective, Range
  <2> QED BY <1>1, <2>1, <2>2
<1>2. CASE kit.master /\ BuilderEnabled
  <2> DEFINE blocked == IF kit.guest THEN GuestBlocked ELSE {}
             kept == {i \in DOMAIN BuilderTools : BuilderTools[i] \notin blocked}
  <2>1. MasterTools(kit) = [i \in kept |-> Bare(BuilderTools[i])]
    BY <1>2 DEF MasterTools
  <2>2. IsInjective(MasterTools(kit))
    BY <2>1, BareNames, BuilderListsWell DEF ListsWell, IsInjective
  <2>3. ASSUME NEW t \in Range(MasterTools(kit))
        PROVE  \E n \in BuilderHandlers : t = Bare(n) /\ (kit.guest => n \notin GuestBlocked)
    BY <2>1, BuilderListsWell DEF ListsWell, Range
  <2>4. 15 \in DOMAIN BuilderTools /\ BuilderTools[15] = "set_salutation"
    BY DEF BuilderTools
  <2>5. ~kit.guest => Bare("set_salutation") \in Range(MasterTools(kit))
    BY <2>1, <2>4 DEF Range
  <2> QED BY <1>2, <2>2, <2>3, <2>5
<1> QED BY <1>1, <1>2

LEMMA BuilderNames == Range(BuilderTools) = MasterPromptNames
<1>1. DOMAIN BuilderTools = 1..17
  BY DEF BuilderTools
<1>2. \A i \in 1..17 : BuilderTools[i] \in MasterPromptNames
  BY DEF BuilderTools, MasterPromptNames
<1>3. \A n \in MasterPromptNames : \E i \in 1..17 : BuilderTools[i] = n
  <2>1. /\ BuilderTools[1] = "list_agents" /\ BuilderTools[2] = "get_agent_detail"
        /\ BuilderTools[3] = "create_agent" /\ BuilderTools[4] = "update_agent"
        /\ BuilderTools[5] = "list_skills" /\ BuilderTools[6] = "create_skill"
        /\ BuilderTools[7] = "update_skill" /\ BuilderTools[8] = "attach_skill"
        /\ BuilderTools[9] = "submit_for_review" /\ BuilderTools[10] = "fetch_url"
        /\ BuilderTools[11] = "delete_agent" /\ BuilderTools[12] = "run_agent"
        /\ BuilderTools[13] = "self_test_agent" /\ BuilderTools[14] = "delegate_to_agent"
        /\ BuilderTools[15] = "set_salutation" /\ BuilderTools[16] = "list_templates"
        /\ BuilderTools[17] = "apply_template"
    BY DEF BuilderTools
  <2>2. {1, 2, 3, 4, 5, 6, 7, 8, 9, 10, 11, 12, 13, 14, 15, 16, 17} \subseteq 1..17
    OBVIOUS
  <2> QED BY ONLY <2>1, <2>2 DEF MasterPromptNames
<1> QED BY <1>1, <1>2, <1>3 DEF Range

\* Which of the builder's tools a turn has.
LEMMA MasterRange ==
  ASSUME NEW kit \in Kit
  PROVE  \A n : Bare(n) \in Range(MasterTools(kit)) <=>
           /\ kit.master /\ BuilderEnabled /\ n \in MasterPromptNames
           /\ ~(kit.guest /\ n \in GuestBlocked)
<1>1. CASE ~kit.master \/ ~BuilderEnabled
  <2>1. MasterTools(kit) = <<>>
    BY <1>1 DEF MasterTools
  <2>2. Range(<< >>) = {}
    BY DEF Range
  <2> QED BY <1>1, <2>1, <2>2
<1>2. CASE kit.master /\ BuilderEnabled
  <2> DEFINE blocked == IF kit.guest THEN GuestBlocked ELSE {}
             kept == {i \in DOMAIN BuilderTools : BuilderTools[i] \notin blocked}
  <2>1. MasterTools(kit) = [i \in kept |-> Bare(BuilderTools[i])]
    BY <1>2 DEF MasterTools
  <2>2. \A n : n \in MasterPromptNames <=> \E i \in DOMAIN BuilderTools : BuilderTools[i] = n
    BY BuilderNames DEF Range
  <2>3. \A n : n \in blocked <=> kit.guest /\ n \in GuestBlocked
    BY DEF Kit
  <2> HIDE DEF blocked
  <2>4. ASSUME NEW n, Bare(n) \in Range(MasterTools(kit))
        PROVE  n \in MasterPromptNames /\ n \notin blocked
    <3>1. PICK i \in kept : Bare(n) = Bare(BuilderTools[i])
      BY <2>1, <2>4 DEF Range
    <3>2. n = BuilderTools[i]
      BY <3>1, BareNames
    <3> QED BY <2>2, <3>1, <3>2
  <2>5. ASSUME NEW n \in MasterPromptNames, n \notin blocked
        PROVE  Bare(n) \in Range(MasterTools(kit))
    BY <2>1, <2>2, <2>5 DEF Range
  <2> QED BY <1>2, <2>3, <2>4, <2>5
<1> QED BY <1>1, <1>2

LEMMA KnowledgePart ==
  ASSUME NEW kit \in Kit
  PROVE  /\ IsInjective(KnowledgeTools(kit))
         /\ Range(KnowledgeTools(kit)) = IF kit.docs THEN {Bare("knowledge_search")} ELSE {}
BY DEF KnowledgeTools, IsInjective, Range

LEMMA JoinedPair == ASSUME NEW a, NEW b PROVE <<a>> \o <<b>> = <<a, b>>
<1> DEFINE S == {a, b}
<1>1. <<a>> \in Seq(S) /\ <<b>> \in Seq(S) /\ <<a, b>> \in Seq(S)
  OBVIOUS
<1> HIDE DEF S
<1>2. Len(<<a>>) = 1 /\ Len(<<b>>) = 1 /\ Len(<<a, b>>) = 2
  OBVIOUS
<1>3. /\ <<a>> \o <<b>> \in Seq(S) /\ Len(<<a>> \o <<b>>) = 2
      /\ (<<a>> \o <<b>>)[1] = a /\ (<<a>> \o <<b>>)[2] = b
  BY <1>1, <1>2, ConcatProperties
<1>4. \A i \in 1..2 : (<<a>> \o <<b>>)[i] = <<a, b>>[i]
  BY <1>3
<1> DEFINE joined == <<a>> \o <<b>>
           pair == <<a, b>>
<1>5. joined \in Seq(S) /\ pair \in Seq(S) /\ Len(joined) = Len(pair) /\ Len(joined) = 2
      /\ \A i \in 1..2 : joined[i] = pair[i]
  BY <1>1, <1>2, <1>3, <1>4
<1> HIDE DEF joined, pair
<1>6. joined = pair
  BY ONLY <1>5, SeqEqual
<1> QED BY <1>6 DEF joined, pair

LEMMA ChildPart ==
  ASSUME NEW kit \in Kit
  PROVE  /\ IsInjective(ChildTools(kit))
         /\ Range(ChildTools(kit)) =
              IF kit.master THEN {}
              ELSE {Bare("request_update")} \cup (IF kit.escalate THEN {Bare("escalate")} ELSE {})
<1>1. CASE kit.master
  BY <1>1 DEF ChildTools, IsInjective, Range
<1>2. CASE ~kit.master /\ kit.escalate
  <2>1. ChildTools(kit) = <<Bare("escalate")>> \o <<Bare("request_update")>>
    BY <1>2 DEF ChildTools
  <2>2. ChildTools(kit) = <<Bare("escalate"), Bare("request_update")>>
    BY <2>1, JoinedPair
  <2> QED BY <1>2, <2>2, BareNames DEF IsInjective, Range
<1>3. CASE ~kit.master /\ ~kit.escalate
  <2>1. ChildTools(kit) = <<Bare("request_update")>>
    BY <1>3 DEF ChildTools
  <2> QED BY <1>3, <2>1 DEF IsInjective, Range
<1> QED BY <1>1, <1>2, <1>3

-----------------------------------------------------------------------------
(* The whole list.                                                         *)

LEMMA ListOnce ==
  ASSUME NEW kit \in Kit
  PROVE  /\ IsInjective(ToolList(kit))
         /\ OfferedTools(kit) = Range(KnowledgeTools(kit)) \cup Range(ChildTools(kit))
                                \cup Range(MasterTools(kit)) \cup Range(CatalogTools(kit))
<1> DEFINE parts == <<KnowledgeTools(kit), ChildTools(kit), MasterTools(kit), CatalogTools(kit)>>
           places == UNION {{k} \X DOMAIN parts[k] : k \in 1..4}
<1>1. ToolList(kit) = [p \in places |-> parts[p[1]][p[2]]]
  BY DEF ToolList
<1>2. /\ parts[1] = KnowledgeTools(kit) /\ parts[2] = ChildTools(kit)
      /\ parts[3] = MasterTools(kit) /\ parts[4] = CatalogTools(kit)
  OBVIOUS
<1> HIDE DEF parts
<1>3. \A k \in 1..4 : IsInjective(parts[k])
  BY <1>2, KnowledgePart, ChildPart, MasterPart, CatalogPart
<1>4. ASSUME NEW k \in 1..4, NEW m \in 1..4, k # m PROVE Range(parts[k]) \cap Range(parts[m]) = {}
  <2>1. \A t \in Range(parts[4]) : \E s \in Servers : \E n : t = Wire(s, n)
    BY <1>2, CatalogPart DEF CatalogTool
  <2>2. \A t \in Range(parts[3]) : kit.master /\ \E n \in BuilderHandlers : t = Bare(n)
    <3>1. Range(<< >>) = {}
      BY DEF Range
    <3> QED BY <1>2, <3>1, MasterPart
  <2>3. \A t \in Range(parts[2]) : ~kit.master /\ t \in {Bare("request_update"), Bare("escalate")}
    BY <1>2, ChildPart
  <2>4. \A t \in Range(parts[1]) : t = Bare("knowledge_search")
    BY <1>2, KnowledgePart
  <2>5. \A n, n2 : n # n2 => Bare(n) # Bare(n2)
    BY BareNames
  <2>6. \A s \in Servers : \A n, n2 : Wire(s, n2) # Bare(n)
    BY BareNames
  <2>7. "knowledge_search" \notin BuilderHandlers \cup {"request_update", "escalate"}
    BY DEF BuilderHandlers
  <2>8. Range(parts[4]) \cap (Range(parts[1]) \cup Range(parts[2]) \cup Range(parts[3])) = {}
    BY <2>1, <2>2, <2>3, <2>4, <2>6
  <2>9. Range(parts[1]) \cap (Range(parts[2]) \cup Range(parts[3])) = {}
    BY <2>2, <2>3, <2>4, <2>5, <2>7
  <2>10. Range(parts[2]) \cap Range(parts[3]) = {}
    BY <2>2, <2>3
  <2> QED BY ONLY <1>4, <2>8, <2>9, <2>10
<1>5. ASSUME NEW p \in places
      PROVE  p = <<p[1], p[2]>> /\ p[1] \in 1..4 /\ p[2] \in DOMAIN parts[p[1]]
  OBVIOUS
<1>6. ASSUME NEW k \in 1..4, NEW x \in DOMAIN parts[k] PROVE <<k, x>> \in places
  OBVIOUS
<1> HIDE DEF places
<1>7. ASSUME NEW p \in places, NEW q \in places, parts[p[1]][p[2]] = parts[q[1]][q[2]]
      PROVE  p = q
  <2>1. p[1] = q[1]
    BY <1>4, <1>5, <1>7 DEF Range
  <2>2. p[2] = q[2]
    BY <1>3, <1>5, <1>7, <2>1 DEF IsInjective
  <2> QED BY <1>5, <2>1, <2>2
<1>8. IsInjective(ToolList(kit))
  BY <1>1, <1>7 DEF IsInjective
<1>9. ASSUME NEW t PROVE t \in OfferedTools(kit) <=> \E k \in 1..4 : t \in Range(parts[k])
  <2>1. ASSUME t \in OfferedTools(kit) PROVE \E k \in 1..4 : t \in Range(parts[k])
    BY <1>1, <1>5, <2>1 DEF OfferedTools, Range
  <2>2. ASSUME NEW k \in 1..4, t \in Range(parts[k]) PROVE t \in OfferedTools(kit)
    <3>1. PICK x \in DOMAIN parts[k] : t = parts[k][x]
      BY <2>2 DEF Range
    <3>2. <<k, x>> \in places /\ t = parts[<<k, x>>[1]][<<k, x>>[2]]
      BY <1>6, <3>1
    <3> QED BY <1>1, <3>2 DEF OfferedTools, Range
  <2> QED BY <2>1, <2>2
<1> QED BY <1>2, <1>8, <1>9

\* An offered tool with a server is of the catalog.
LEMMA WireIsCatalog ==
  ASSUME NEW kit \in Kit, NEW s \in Servers, NEW n, Wire(s, n) \in OfferedTools(kit)
  PROVE  Wire(s, n) \in Range(CatalogTools(kit))
<1>1. Wire(s, n) \notin Range(KnowledgeTools(kit))
  BY KnowledgePart, BareNames
<1>2. Wire(s, n) \notin Range(ChildTools(kit))
  <2>1. \A t \in Range(ChildTools(kit)) : t \in {Bare("request_update"), Bare("escalate")}
    BY ChildPart
  <2> QED BY <2>1, BareNames
<1>3. Wire(s, n) \notin Range(MasterTools(kit))
  BY MasterPart, BareNames
<1> QED BY <1>1, <1>2, <1>3, ListOnce

\* Which tools of the catalog that a prompt can name are offered.
LEMMA OfferedCatalog ==
  ASSUME NEW kit \in Kit
  PROVE  /\ \A t \in WebTools : t \in OfferedTools(kit) <=>
              kit.live /\ (kit.web \/ Has(kit, "web-search"))
         /\ \A t \in ExportTools : Has(kit, "file-export") => t \in OfferedTools(kit)
         /\ \A t \in WorkspaceTools : ProfileActive(kit) =>
              (t \in OfferedTools(kit) <=> Has(kit, "partner-integration"))
<1>1. ASSUME NEW s \in Servers, NEW n \in Range(Listed[s]),
             s \in Range(AlwaysOn(kit)) \cup Range(kit.connectors),
             kit.live \/ s # "web-search",
             ProfileActive(kit) \/ Wire(s, n) \notin WorkspaceTools
      PROVE  Wire(s, n) \in OfferedTools(kit)
  <2>1. PICK j \in DOMAIN Listed[s] : n = Listed[s][j]
    BY <1>1 DEF Range
  <2>2. Wire(s, n) \in Range(CatalogTools(kit))
    BY <1>1, <2>1, CatalogPart
  <2> QED BY <2>2, ListOnce
<1>2. /\ \A n \in {"search", "fetch"} : n \in Range(Listed["web-search"])
      /\ \A n \in Range(FileExportLists) : n \in Range(Listed["file-export"])
      /\ \A n \in {"save_file", "list_workspace", "package_project"} :
           n \in Range(Listed["partner-integration"])
      /\ {"web-search", "file-export", "partner-integration"} \subseteq Servers
  <2>1. /\ Listed["web-search"] = WebSearchLists /\ Listed["file-export"] = FileExportLists
        /\ Listed["partner-integration"] = PartnerLists
    BY ServersAre DEF Listed
  <2>2. \A n \in {"search", "fetch"} : n \in Range(WebSearchLists)
    BY DEF WebSearchLists, Range
  <2>3. \A n \in {"save_file", "list_workspace", "package_project"} : n \in Range(PartnerLists)
    <3>1. /\ {4, 5, 6} \subseteq DOMAIN PartnerLists /\ PartnerLists[4] = "save_file"
          /\ PartnerLists[5] = "list_workspace" /\ PartnerLists[6] = "package_project"
      BY DEF PartnerLists
    <3> QED BY ONLY <3>1 DEF Range
  <2> QED BY <2>1, <2>2, <2>3, ServersAre
<1>3. \A s : s \in Range(kit.connectors) <=> Has(kit, s)
  BY DEF Has, Range
<1>4. Range(AlwaysOn(kit)) = {"system"} \cup {s \in {"web-search"} : kit.web}
  <2>1. CASE kit.web
    <3>1. AlwaysOn(kit) = <<"system", "web-search">>
      BY <2>1 DEF AlwaysOn
    <3>2. Range(<<"system", "web-search">>) = {"system", "web-search"}
      BY DEF Range
    <3> QED BY <2>1, <3>1, <3>2
  <2>2. CASE ~kit.web
    <3>1. AlwaysOn(kit) = <<"system">>
      BY <2>2 DEF AlwaysOn
    <3>2. Range(<<"system">>) = {"system"}
      BY DEF Range
    <3> QED BY <2>2, <3>1, <3>2
  <2> QED BY <2>1, <2>2
<1>5. ASSUME NEW s \in Servers, NEW n, Wire(s, n) \in OfferedTools(kit)
      PROVE  s \in Range(AlwaysOn(kit)) \cup Range(kit.connectors) /\ (kit.live \/ s # "web-search")
  <2>1. Wire(s, n) \in Range(CatalogTools(kit))
    BY <1>5, WireIsCatalog
  <2>2. PICK s2 \in Range(AlwaysOn(kit)) \cup Range(kit.connectors) :
          \E n2 : Wire(s, n) = Wire(s2, n2) /\ (kit.live \/ s2 # "web-search")
    BY <2>1, CatalogOnly
  <2> QED BY <2>2, WireNames
<1>6. ASSUME NEW t \in WebTools
      PROVE  t \in OfferedTools(kit) <=> kit.live /\ (kit.web \/ Has(kit, "web-search"))
  <2>1. PICK n \in {"search", "fetch"} : t = Wire("web-search", n)
    BY <1>6 DEF WebTools
  <2>2. t \notin WorkspaceTools
    BY <2>1, WireNames DEF WorkspaceTools
  <2>3. "web-search" \in Range(AlwaysOn(kit)) \cup Range(kit.connectors) <=>
          kit.web \/ Has(kit, "web-search")
    BY <1>3, <1>4
  <2>4. "web-search" \in Servers /\ n \in Range(Listed["web-search"])
    BY <1>2
  <2>5. t \in OfferedTools(kit) => kit.live /\ (kit.web \/ Has(kit, "web-search"))
    BY <1>5, <2>1, <2>3, <2>4
  <2>6. kit.live /\ (kit.web \/ Has(kit, "web-search")) => t \in OfferedTools(kit)
    BY <1>1, <2>1, <2>2, <2>3, <2>4
  <2> QED BY <2>5, <2>6
<1>7. ASSUME NEW t \in ExportTools, Has(kit, "file-export") PROVE t \in OfferedTools(kit)
  <2>1. PICK n \in Range(FileExportLists) : t = Wire("file-export", n)
    BY <1>7 DEF ExportTools
  <2>2. t \notin WorkspaceTools
    BY <2>1, WireNames DEF WorkspaceTools
  <2> QED BY <1>1, <1>2, <1>3, <1>7, <2>1, <2>2
<1>8. ASSUME NEW t \in WorkspaceTools, ProfileActive(kit)
      PROVE  t \in OfferedTools(kit) <=> Has(kit, "partner-integration")
  <2>1. PICK n \in {"save_file", "list_workspace", "package_project"} :
          t = Wire("partner-integration", n)
    BY <1>8 DEF WorkspaceTools
  <2>2. Has(kit, "partner-integration") => t \in OfferedTools(kit)
    BY <1>1, <1>2, <1>3, <1>8, <2>1
  <2>3. t \in OfferedTools(kit) => Has(kit, "partner-integration")
    BY <1>2, <1>3, <1>4, <1>5, <2>1
  <2> QED BY <2>2, <2>3
<1> QED BY <1>6, <1>7, <1>8

\* Which tools without a server are offered.
LEMMA OfferedBare ==
  ASSUME NEW kit \in Kit
  PROVE  /\ kit.docs => Bare("knowledge_search") \in OfferedTools(kit)
         /\ ~kit.master => Bare("request_update") \in OfferedTools(kit)
         /\ Bare("escalate") \in OfferedTools(kit) <=> ~kit.master /\ kit.escalate
         /\ \A n \in MasterPromptNames : Bare(n) \in OfferedTools(kit) <=>
              kit.master /\ BuilderEnabled /\ ~(kit.guest /\ n \in GuestBlocked)
<1>1. {"knowledge_search", "request_update", "escalate"} \cap MasterPromptNames = {}
  BY DEF MasterPromptNames
<1>2. \A n : Bare(n) \notin Range(CatalogTools(kit))
  BY CatalogPart, BareNames DEF CatalogTool
<1>3. \A n : Bare(n) \in Range(KnowledgeTools(kit)) <=> kit.docs /\ n = "knowledge_search"
  BY KnowledgePart, BareNames
<1>4. \A n : Bare(n) \in Range(ChildTools(kit)) <=>
         ~kit.master /\ (n = "request_update" \/ (n = "escalate" /\ kit.escalate))
  <2>1. CASE kit.master
    BY <2>1, ChildPart
  <2>2. CASE ~kit.master /\ kit.escalate
    <3>1. Range(ChildTools(kit)) = {Bare("request_update"), Bare("escalate")}
      BY <2>2, ChildPart
    <3> QED BY <2>2, <3>1, BareNames
  <2>3. CASE ~kit.master /\ ~kit.escalate
    <3>1. Range(ChildTools(kit)) = {Bare("request_update")}
      BY <2>3, ChildPart
    <3> QED BY <2>3, <3>1, BareNames
  <2> QED BY <2>1, <2>2, <2>3
<1>5. \A n : Bare(n) \in OfferedTools(kit) <=>
         \/ Bare(n) \in Range(KnowledgeTools(kit))
         \/ Bare(n) \in Range(ChildTools(kit))
         \/ Bare(n) \in Range(MasterTools(kit))
  BY <1>2, ListOnce
<1>6. \A n \in {"knowledge_search", "request_update", "escalate"} : n \notin MasterPromptNames
  BY <1>1
<1>7. \A n \in MasterPromptNames : n \notin {"knowledge_search", "request_update", "escalate"}
  BY <1>1
<1> QED BY <1>3, <1>4, <1>5, <1>6, <1>7, MasterRange

\* What master's prompt names in vain.
VainBuilder(kit) ==
  {n \in MasterPromptNames :
     /\ kit.master /\ (n = "set_salutation" => ~kit.addressed)
     /\ \/ ~BuilderEnabled
        \/ kit.guest /\ n \in {"fetch_url", "self_test_agent", "set_salutation"}}

LEMMA VainParts ==
  ASSUME NEW kit
  PROVE  \A t : t \in NamedInVain(kit) <=>
           \/ \E n \in VainBuilder(kit) : t = Bare(n)
           \/ t \in WebTools /\ (~kit.live \/ ~(kit.web \/ Has(kit, "web-search")))
           \/ t = Bare("escalate") /\ ~kit.master /\ kit.web /\ ~kit.escalate
           \/ t \in WorkspaceTools /\ ProfileActive(kit) /\ ~Has(kit, "partner-integration")
BY DEF NamedInVain, VainBuilder

\* A tool with a server is never one of the builder's.
LEMMA WireIsNotBare ==
  ASSUME NEW t \in WebTools \cup ExportTools \cup WorkspaceTools, NEW n
  PROVE  t # Bare(n)
<1>1. PICK s \in {"web-search", "file-export", "partner-integration"} : \E m : t = Wire(s, m)
  BY DEF WebTools, ExportTools, WorkspaceTools
<1>2. s \in Servers
  BY ServersAre
<1> QED BY <1>1, <1>2, BareNames

\* The builder's tools of master's prompt: what is named, not forbidden and not
\* offered.
LEMMA BuilderVain ==
  ASSUME NEW kit \in Kit, NEW n \in MasterPromptNames, kit.master,
         n = "set_salutation" => ~kit.addressed
  PROVE  Bare(n) \notin OfferedTools(kit) /\ Bare(n) \notin NoteForbids(kit)
           <=> n \in VainBuilder(kit)
<1>1. Bare(n) \in OfferedTools(kit) <=> BuilderEnabled /\ ~(kit.guest /\ n \in GuestBlocked)
  BY OfferedBare
<1>2. Bare(n) \in NoteForbids(kit) <=>
        /\ kit.guest /\ BuilderEnabled
        /\ n \in {"submit_for_review", "update_agent", "update_skill", "delete_agent"}
  BY BareNames DEF NoteForbids
<1>3. GuestBlocked = {"submit_for_review", "update_agent", "update_skill", "delete_agent"}
                       \cup {"fetch_url", "self_test_agent", "set_salutation"}
  BY DEF GuestBlocked
<1>4. {"submit_for_review", "update_agent", "update_skill", "delete_agent"}
        \cap {"fetch_url", "self_test_agent", "set_salutation"} = {}
  OBVIOUS
<1>5. n \in VainBuilder(kit) <=>
        ~BuilderEnabled \/ (kit.guest /\ n \in {"fetch_url", "self_test_agent", "set_salutation"})
  BY DEF VainBuilder
<1> QED BY ONLY <1>1, <1>2, <1>3, <1>4, <1>5

\* What the prompt names and the turn lacks.
LEMMA NamedExactly ==
  ASSUME NEW kit \in Kit
  PROVE  NamedTools(kit) \ OfferedTools(kit) = NamedInVain(kit)
<1>1. \A t \in NoteForbids(kit) : \E n : t = Bare(n)
  BY DEF NoteForbids
<1>2. NoteForbids(kit) # {} => kit.master
  BY DEF NoteForbids
<1>3. \A t \in WebTools \cup ExportTools \cup WorkspaceTools : t \notin NoteForbids(kit)
  BY <1>1, WireIsNotBare
<1>4. ASSUME NEW t \in NamedTools(kit), t \notin OfferedTools(kit) PROVE t \in NamedInVain(kit)
  <2>1. CASE t \in WebTools
    BY <1>4, <2>1, OfferedCatalog, VainParts
  <2>2. CASE kit.master /\ t \in MasterPrompt(kit) \ WebTools
    <3>1. PICK n \in MasterPromptNames : t = Bare(n) /\ (n = "set_salutation" => ~kit.addressed)
      BY <2>2 DEF MasterPrompt
    <3>2. t \notin NoteForbids(kit)
      BY <1>4 DEF NamedTools
    <3>3. n \in VainBuilder(kit)
      BY <1>4, <2>2, <3>1, <3>2, BuilderVain
    <3> QED BY <3>1, <3>3, VainParts
  <2>3. CASE kit.master /\ ~kit.addressed /\ t = Bare("set_salutation")
    <3>1. "set_salutation" \in MasterPromptNames
      BY DEF MasterPromptNames
    <3> QED BY <2>2, <2>3, <3>1, <2>1 DEF MasterPrompt
  <2>4. CASE t \in ExportTools /\ Has(kit, "file-export")
    BY <1>4, <2>4, OfferedCatalog
  <2>5. CASE t \in WorkspaceTools /\ ProfileActive(kit)
    BY <1>4, <2>5, OfferedCatalog, VainParts
  <2>6. CASE kit.docs /\ t = Bare("knowledge_search")
    BY <1>4, <2>6, OfferedBare
  <2>7. CASE ~kit.master /\ t = Bare("request_update")
    BY <1>4, <2>7, OfferedBare
  <2>8. CASE ~kit.master /\ (kit.escalate \/ kit.web) /\ t = Bare("escalate")
    BY <1>4, <2>8, OfferedBare, VainParts
  <2>9. \/ t \in WebTools
        \/ kit.master /\ t \in MasterPrompt(kit)
        \/ kit.master /\ ~kit.addressed /\ t = Bare("set_salutation")
        \/ t \in ExportTools /\ Has(kit, "file-export")
        \/ t \in WorkspaceTools /\ ProfileActive(kit)
        \/ kit.docs /\ t = Bare("knowledge_search")
        \/ ~kit.master /\ t = Bare("request_update")
        \/ ~kit.master /\ (kit.escalate \/ kit.web) /\ t = Bare("escalate")
    BY <1>4 DEF NamedTools, DecisionTree, DateContextNames, WebSectionNames
  <2> QED BY <2>1, <2>2, <2>3, <2>4, <2>5, <2>6, <2>7, <2>8, <2>9
<1>5. ASSUME NEW t \in NamedInVain(kit) PROVE t \in NamedTools(kit) /\ t \notin OfferedTools(kit)
  <2>1. CASE t \in WebTools /\ (~kit.live \/ ~(kit.web \/ Has(kit, "web-search")))
    <3>1. t \notin OfferedTools(kit)
      BY <2>1, OfferedCatalog
    <3>2. t \in NamedTools(kit)
      BY <1>3, <2>1 DEF NamedTools, DateContextNames
    <3> QED BY <3>1, <3>2
  <2>2. CASE t = Bare("escalate") /\ ~kit.master /\ kit.web /\ ~kit.escalate
    <3>1. t \notin OfferedTools(kit)
      BY <2>2, OfferedBare
    <3>2. t \in NamedTools(kit)
      BY <1>2, <2>2 DEF NamedTools, WebSectionNames
    <3> QED BY <3>1, <3>2
  <2>3. CASE t \in WorkspaceTools /\ ProfileActive(kit) /\ ~Has(kit, "partner-integration")
    <3>1. t \notin OfferedTools(kit)
      BY <2>3, OfferedCatalog
    <3>2. t \in NamedTools(kit)
      BY <1>3, <2>3 DEF NamedTools
    <3> QED BY <3>1, <3>2
  <2>4. CASE \E n \in VainBuilder(kit) : t = Bare(n)
    <3>1. PICK n \in VainBuilder(kit) : t = Bare(n)
      BY <2>4
    <3>2. n \in MasterPromptNames /\ kit.master /\ (n = "set_salutation" => ~kit.addressed)
      BY <3>1 DEF VainBuilder
    <3>3. Bare(n) \notin OfferedTools(kit) /\ Bare(n) \notin NoteForbids(kit)
      BY <3>1, <3>2, BuilderVain
    <3>4. Bare(n) \in MasterPrompt(kit)
      BY <3>2 DEF MasterPrompt
    <3> QED BY <3>1, <3>2, <3>3, <3>4 DEF NamedTools
  <2> QED BY <1>5, <2>1, <2>2, <2>3, <2>4, VainParts
<1> QED BY <1>4, <1>5

\* A call of an offered tool ends in code for it.
LEMMA OfferedIsReached ==
  ASSUME NEW kit \in Kit, NEW t \in OfferedTools(kit)
  PROVE  Reaches(kit, t)
<1>1. CASE t \in Range(KnowledgeTools(kit)) \cup Range(ChildTools(kit))
  BY <1>1 DEF Reaches
<1>2. CASE t \in Range(MasterTools(kit))
  <2>1. PICK n \in BuilderHandlers : t = Bare(n) /\ (kit.guest => n \notin GuestBlocked)
    BY <1>2, MasterPart
  <2>2. t[2] = n
    BY <2>1, BareNames
  <2> QED BY <1>2, <2>1, <2>2 DEF Reaches, BuilderRuns
<1>3. CASE t \in Range(CatalogTools(kit)) /\ t \notin Range(MasterTools(kit))
  <2>1. PICK s \in Servers : \E j \in DOMAIN Listed[s] : t = Wire(s, Listed[s][j])
    BY <1>3, CatalogPart DEF CatalogTool
  <2>2. PICK j \in DOMAIN Listed[s] : t = Wire(s, Listed[s][j])
    BY <2>1
  <2>3. t[1] = s /\ t[2] = Listed[s][j] /\ Listed[s][j] \in Handled[s]
    BY <2>2, WireNames, ProvidersListWell DEF ListsWell
  <2> QED BY <1>3, <2>3 DEF Reaches, CatalogRuns
<1> QED BY <1>1, <1>2, <1>3, ListOnce

\* Every turn is equipped soundly: the prompt names in vain exactly what
\* NamedInVain says, whatever connectors its agent has, repeated or unknown ones
\* among them, and whether or not the builder is on; no tool is offered twice and
\* every one ends in code (chat_engine.py 398-403, 491-512, 565-642).
THEOREM TurnsEquippedSoundly == HandoffSpec => []EquippedSoundly
<1>1. Kits \subseteq Kit
  BY HandoffFacts
<1>2. HandoffInv => turn.kits \subseteq Kits
  BY DEF HandoffInv, ChainTypeOK, Turn
<1>3. turn.kits \subseteq Kits => EquippedSoundly
  BY <1>1, NamedExactly, ListOnce, OfferedIsReached DEF EquippedSoundly
<1> QED BY <1>2, <1>3, HandoffAlways, PTL
=============================================================================
