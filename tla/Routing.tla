------------------------------ MODULE Routing ------------------------------
(***************************************************************************)
(* The intent router (core/router.py): which agent answers a message.      *)
(*                                                                         *)
(* A message is abstracted to what the rules look at: whether it opens     *)
(* with the marker of an escalation, the slugs written after an @, which   *)
(* of them stands free first, the agents whose display name follows an @,  *)
(* and whether it is too short to judge.  An agent stands for its own      *)
(* slug; Master is the literal @master, MasterSlug the slug of master's    *)
(* row, Unknown a slug nobody has.  The answers of the classifying model   *)
(* are nondeterministic.                                                   *)
(***************************************************************************)

CONSTANTS Agents,       \* every agent except master
          Master,
          MasterSlug,
          Unknown,
          NoOne,        \* no mention, no sticky agent
          Escalators    \* agents with escalate_enabled

ASSUME RoutingAssumption ==
  /\ Escalators \subseteq Agents
  /\ {Master, MasterSlug, Unknown, NoOne} \cap Agents = {}
  /\ NoOne \notin {Master, MasterSlug, Unknown}

Mentionable == Agents \cup {Master, MasterSlug, Unknown}

\* ChatRequest.message, as far as route() reads it.
Message == [escalated : BOOLEAN, mentions : SUBSET Mentionable,
            first : Mentionable \cup {NoOne}, names : SUBSET Agents,
            brief : BOOLEAN]

\* RouteDecision; the confidence and the note only decorate the answer.
Decide(agent, why) == [to |-> agent, by |-> why]

\* _known: the candidates the message mentions, by slug or by name; master
\* counts under the slug of its row, not as the literal @master.
KnownMentions(m, cand) ==
  ((m.mentions \cup m.names) \cap cand)
    \cup {x \in {Master} : MasterSlug \in m.mentions}

\* Step 0b: two different agents are mentioned.
Several(m, cand) == \E a, b \in KnownMentions(m, cand) : a # b

\* Step 1: the first free-standing slug.
Mentioned(m, cand) ==
  IF m.first \in cand THEN Decide(m.first, "mention")
  ELSE IF m.first = Unknown \/ m.first \in Agents
       THEN Decide(Master, "fallback_unknown_mention")
       ELSE Decide(Master, "mention")

\* _in_scope: asked only when the agent escalates; short messages and errors
\* of the model count as in scope.
InScope(agent, m) == IF m.brief THEN {TRUE} ELSE BOOLEAN

\* Step 2: the agent the page keeps.
StickyRoutes(m, sticky, cand) ==
  IF sticky = Master THEN {Decide(Master, "explicit")}
  ELSE IF sticky \notin cand THEN {Decide(Master, "fallback_stale_agent")}
  ELSE {Decide(sticky, "explicit")}
         \cup {Decide(Master, "escalate") :
                 x \in {y \in InScope(sticky, m) : sticky \in Escalators /\ ~y}}

\* Steps 3 and 4: the classifier names a candidate with confidence, or master.
ClassifiedRoutes(cand) ==
  {Decide(Master, "fallback_master")} \cup {Decide(a, "classify") : a \in cand}

\* Mutant: an escalation is not recognised before the mentions.
RoutesWithoutMarker(m, sticky, cand) ==
  IF Several(m, cand) THEN {Decide(Master, "orchestrate")}
  ELSE IF m.first # NoOne THEN {Mentioned(m, cand)}
  ELSE IF m.names \cap cand # {} THEN {Decide(a, "mention") : a \in m.names \cap cand}
  ELSE IF sticky # NoOne THEN StickyRoutes(m, sticky, cand)
  ELSE ClassifiedRoutes(cand)

\* route(): the decisions it may return for the candidates it read.
Routes(m, sticky, cand) ==
  IF m.escalated THEN {Decide(Master, "escalate")}
  ELSE IF Several(m, cand) THEN {Decide(Master, "orchestrate")}
  ELSE IF m.first # NoOne THEN {Mentioned(m, cand)}
  ELSE IF m.names \cap cand # {} THEN {Decide(a, "mention") : a \in m.names \cap cand}
  ELSE IF sticky # NoOne THEN StickyRoutes(m, sticky, cand)
  ELSE ClassifiedRoutes(cand)
=============================================================================
