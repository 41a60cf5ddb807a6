------------------------------ MODULE Handoff ------------------------------
(***************************************************************************)
(* A user's chain of turns: the chat endpoint routes a message, loads the  *)
(* agent, equips it and streams its answer; a handoff makes the page send  *)
(* the next message by itself, to the agent named in the delegate event    *)
(* (api/chat.py, core/router.py, core/chat_engine.py, builder/master.py).  *)
(* Meanwhile other requests change which agents this user may use.         *)
(*                                                                         *)
(* view[a] is the registry as it concerns this user: gone, hidden (no      *)
(* right to use it), usable (can_use_agent, but not a candidate of the     *)
(* router: another's private agent for an admin, one's own rejected one),  *)
(* or visible (a candidate; every candidate is usable).                    *)
(***************************************************************************)
EXTENDS Routing, Prompting, Naturals

CONSTANTS UserMessages,     \* messages a user or a model writes, \subseteq Message
          Kits,             \* what turns are equipped with, \subseteq Kit
          MaxAgents,        \* settings.orchestration_max_agents
          MaxCalls,         \* bound: run_agent calls of one round
          MaxHops           \* bound: handoffs of one chain

ASSUME HandoffAssumption ==
  /\ UserMessages \subseteq Message
  /\ \A m \in UserMessages : ~m.escalated /\ m.first \in m.mentions \cup {NoOne}
  /\ Kits \subseteq Kit
  /\ MaxAgents \in Nat \ {0} /\ MaxCalls \in Nat \ {0} /\ MaxHops \in Nat

VARIABLES
  view,      \* the registry for this user
  sticky,    \* state.stickyAgent of the page
  turn,      \* the turn in progress
  runs       \* run_agent calls of the turn: left in the round, passed, counted

handoffVars == <<view, sticky, turn, runs>>

Views == {"gone", "hidden", "usable", "visible"}

\* visible_agents().
Candidates == {a \in Agents : view[a] = "visible"}

\* can_use_agent() of an agent that exists.
Usable(a) == a \in {Master} \cup {x \in Agents : view[x] \in {"usable", "visible"}}

NoMessage == [escalated |-> FALSE, mentions |-> {}, first |-> NoOne,
              names |-> {}, brief |-> TRUE]

\* Who sent the message: the user, or the page for an agent's handoff.
Origin == [kind : {"user", "escalate", "update", "delegate"},
           from : Agents \cup {Master, NoOne}, target : Agents \cup {Master, NoOne}]
ByUser == [kind |-> "user", from |-> NoOne, target |-> NoOne]

NoTurn == [at |-> "idle", msg |-> NoMessage, origin |-> ByUser, hops |-> 0,
           to |-> NoOne, changed |-> FALSE, kits |-> {}]
NoRuns == [left |-> 0, passed |-> 0, count |-> 0]

HandoffInit ==
  /\ view = [a \in Agents |-> "visible"]
  /\ sticky = NoOne
  /\ turn = NoTurn
  /\ runs = NoRuns

-----------------------------------------------------------------------------
\* Requests of others and of the user: publish, share, reject, delete, create.
ChangeRegistry ==
  \E a \in Agents : \E v \in Views \ {view[a]} :
    /\ view' = [view EXCEPT ![a] = v]
    /\ turn' = [turn EXCEPT !.changed = @ \/ turn.at = "routed"]
    /\ UNCHANGED <<sticky, runs>>

\* The user sends a message, to the agent the page keeps, to one picked from
\* the page, or to none in a new conversation.
Ask ==
  /\ turn.at \in {"idle", "refused", "equipped"}
  /\ \E m \in UserMessages : turn' = [NoTurn EXCEPT !.at = "sent", !.msg = m]
  /\ sticky' \in {sticky, NoOne, Master} \cup Candidates
  /\ runs' = NoRuns
  /\ UNCHANGED view

\* chat(): the routing decision, over the candidates of this moment.
RouteMessage ==
  /\ turn.at = "sent"
  /\ \E d \in Routes(turn.msg, sticky, Candidates) :
       turn' = [turn EXCEPT !.at = "routed", !.to = d.to, !.changed = FALSE]
  /\ UNCHANGED <<view, sticky, runs>>

\* chat(): the agent is loaded and the right to use it checked once more; the
\* meta event tells the page which agent answers.
LoadAgent ==
  /\ turn.at = "routed"
  /\ IF Usable(turn.to)
     THEN turn' = [turn EXCEPT !.at = "loaded"] /\ sticky' = turn.to
     ELSE turn' = [turn EXCEPT !.at = "refused"] /\ UNCHANGED sticky
  /\ UNCHANGED <<view, runs>>

\* stream(): prompt and tools from one reading of the agent; the message has
\* done its work.
EquipTurn ==
  /\ turn.at = "loaded"
  /\ \E kit \in Kits :
       /\ kit.master = (turn.to = Master)
       /\ kit.escalate => turn.to \in Escalators
       /\ turn' = [turn EXCEPT !.at = "equipped", !.msg = NoMessage,
                               !.origin = ByUser, !.kits = {kit}]
  /\ UNCHANGED <<view, sticky, runs>>

-----------------------------------------------------------------------------
Offers(tool) == \E kit \in turn.kits : tool \in OfferedTools(kit)

\* The delegate event: the stream ends, the page keeps the target as its
\* sticky agent and sends the message.
HandOver(kind, target, m) ==
  /\ turn.at = "equipped"
  /\ turn.hops < MaxHops
  /\ turn' = [NoTurn EXCEPT !.at = "sent", !.msg = m, !.hops = turn.hops + 1,
                !.origin = [kind |-> kind, from |-> turn.to, target |-> target]]
  /\ sticky' = target
  /\ runs' = NoRuns
  /\ UNCHANGED view

\* escalate: the marker and the agent's name go before the text.
Escalate ==
  /\ Offers(Bare("escalate"))
  /\ \E m \in UserMessages :
       HandOver("escalate", Master,
         [m EXCEPT !.escalated = TRUE, !.names = @ \cup {turn.to}, !.brief = FALSE])

\* request_update: another opening, which names the agent as well.
RequestUpdate ==
  /\ Offers(Bare("request_update"))
  /\ \E m \in UserMessages :
       HandOver("update", Master,
         [m EXCEPT !.names = @ \cup {turn.to}, !.brief = FALSE])

\* _h_delegate_to_agent: any agent the user may use, master too; the model
\* writes the text.
Delegate ==
  /\ Offers(Bare("delegate_to_agent"))
  /\ \E a \in Agents \cup {Master}, m \in UserMessages :
       Usable(a) /\ HandOver("delegate", a, m)

-----------------------------------------------------------------------------
\* Builder turns run the tools of a round one by one; a guest's master uses a
\* thread per call.
Serial == \E kit \in turn.kits : ~kit.guest

\* The model asks for several run_agent calls in one round.
StartRound ==
  /\ Offers(Bare("run_agent"))
  /\ runs.left = 0 /\ runs.passed = 0
  /\ \E n \in 1..MaxCalls : runs' = [runs EXCEPT !.left = n]
  /\ UNCHANGED <<view, sticky, turn>>

\* Mutant: the limit is checked with an off-by-one.
CheckRunOffByOne ==
  /\ runs.left > 0
  /\ Serial => runs.passed = 0
  /\ \/ runs.count <= MaxAgents /\ runs' = [runs EXCEPT !.left = @ - 1, !.passed = @ + 1]
     \/ runs' = [runs EXCEPT !.left = @ - 1]
  /\ UNCHANGED <<view, sticky, turn>>

\* _h_run_agent up to the count: refused at the limit, or when the agent is
\* master, missing or not this user's to use.
CheckRun ==
  /\ runs.left > 0
  /\ Serial => runs.passed = 0
  /\ \/ runs.count < MaxAgents /\ runs' = [runs EXCEPT !.left = @ - 1, !.passed = @ + 1]
     \/ runs' = [runs EXCEPT !.left = @ - 1]
  /\ UNCHANGED <<view, sticky, turn>>

\* _h_run_agent from the count on: the call is counted and the agent run.
CountRun ==
  /\ runs.passed > 0
  /\ runs' = [runs EXCEPT !.passed = @ - 1, !.count = @ + 1]
  /\ UNCHANGED <<view, sticky, turn>>

HandoffNext ==
  \/ ChangeRegistry \/ Ask \/ RouteMessage \/ LoadAgent \/ EquipTurn
  \/ Escalate \/ RequestUpdate \/ Delegate
  \/ StartRound \/ CheckRun \/ CountRun

HandoffSpec == HandoffInit /\ [][HandoffNext]_handoffVars

-----------------------------------------------------------------------------
\* A turn is refused (500 or 403) only when the registry changed between the
\* routing decision and the load: the router never names an agent that the
\* endpoint's own check would turn down (chat.py 59-64, router.py 39-47).
RefusedOnlyAfterChange == turn.at = "refused" => turn.changed

\* A handoff arrives where it was sent: an escalation at master although its
\* text names the agent that escalated (router.py 36-37), a delegation at its
\* target, at master, or at an agent its text mentions, and a request for an
\* update at master or back at the agent it names or another the text mentions.
HandoffArrives ==
  turn.at = "loaded" =>
    CASE turn.origin.kind = "escalate" -> turn.to = Master
      [] turn.origin.kind = "delegate" ->
           turn.to \in {turn.origin.target, Master} \cup turn.msg.mentions \cup turn.msg.names
      [] turn.origin.kind = "update" ->
           turn.to \in {Master, turn.origin.from} \cup turn.msg.mentions \cup turn.msg.names
      [] OTHER -> TRUE

\* What a prompt names in vain.  Every prompt's date context and master's own
\* prompt say to search the web; the web section of a child says to escalate; the
\* note for guests forbids less than guests lose; without the builder master's
\* prompt stays; the note of the experimental mode relies on the connector.
NamedInVain(kit) ==
  LET builder == {n \in MasterPromptNames :
                    /\ kit.master /\ (n = "set_salutation" => ~kit.addressed)
                    /\ \/ ~BuilderEnabled
                       \/ kit.guest /\ n \in {"fetch_url", "self_test_agent", "set_salutation"}}
  IN  {Bare(n) : n \in builder}
        \cup {t \in WebTools : ~kit.live \/ ~(kit.web \/ Has(kit, "web-search"))}
        \cup {t \in {Bare("escalate")} : ~kit.master /\ kit.web /\ ~kit.escalate}
        \cup {t \in WorkspaceTools : ProfileActive(kit) /\ ~Has(kit, "partner-integration")}

\* A turn is equipped soundly.  The system prompt tells the model to call tools
\* the turn offers, and otherwise exactly those named in vain: build_system_prompt
\* and _assemble_tools decide on the same flags in different places, and the fixed
\* texts on none (chat_engine.py 398-403, 491-512, 565-622, master_system.md).  No
\* tool is offered twice, which the API refuses (chat_engine.py 566).  A call of an
\* offered tool reaches code that handles it (chat_engine.py 574-642, catalog.py
\* 92-97, master.py 354).
EquippedSoundly ==
  \A kit \in turn.kits :
    /\ NamedTools(kit) \ OfferedTools(kit) = NamedInVain(kit)
    /\ IsInjective(ToolList(kit))
    /\ \A t \in OfferedTools(kit) : Reaches(kit, t)

\* A turn of a signed-in user's master runs at most MaxAgents agents; a
\* guest's, whose calls run in parallel, at most the calls of one round less
\* one more (master.py 705-734).
RunsBounded ==
  runs.count + runs.passed <= IF Serial THEN MaxAgents ELSE MaxAgents - 1 + MaxCalls
=============================================================================
