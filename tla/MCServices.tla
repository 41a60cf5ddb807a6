----------------------------- MODULE MCServices ----------------------------
(***************************************************************************)
(* The parts of the server around the registry and the reply.  They share  *)
(* no state in the code, so a behaviour of one run checks one of them      *)
(* while the others rest in their initial states: part says which.         *)
(***************************************************************************)
EXTENDS Handoff, Limiter, Gateway, ToolPool, Workspace, Documents, Startup

CONSTANTS a, b, r, o, t, d1, d2, d3

VARIABLE part

ServicesInit ==
  /\ part \in {"handoff", "limiter", "gateway", "pool", "workspace", "documents", "startup"}
  /\ HandoffInit /\ LimiterInit /\ GatewayInit /\ PoolInit
  /\ WorkspaceInit /\ DocumentsInit /\ StartupInit

ServicesNext ==
  \/ /\ part = "handoff" /\ HandoffNext
     /\ UNCHANGED <<part, limiterVars, gatewayVars, poolVars,
                    workspaceVars, documentsVars, startupVars>>
  \/ /\ part = "limiter" /\ LimiterNext
     /\ UNCHANGED <<part, handoffVars, gatewayVars, poolVars,
                    workspaceVars, documentsVars, startupVars>>
  \/ /\ part = "gateway" /\ GatewayNext
     /\ UNCHANGED <<part, handoffVars, limiterVars, poolVars,
                    workspaceVars, documentsVars, startupVars>>
  \/ /\ part = "pool" /\ PoolNext
     /\ UNCHANGED <<part, handoffVars, limiterVars, gatewayVars,
                    workspaceVars, documentsVars, startupVars>>
  \/ /\ part = "workspace" /\ WorkspaceNext
     /\ UNCHANGED <<part, handoffVars, limiterVars, gatewayVars,
                    poolVars, documentsVars, startupVars>>
  \/ /\ part = "documents" /\ DocumentsNext
     /\ UNCHANGED <<part, handoffVars, limiterVars, gatewayVars,
                    poolVars, workspaceVars, startupVars>>
  \/ /\ part = "startup" /\ StartupNext
     /\ UNCHANGED <<part, handoffVars, limiterVars, gatewayVars,
                    poolVars, workspaceVars, documentsVars>>

ServicesVars == <<part, handoffVars, limiterVars, gatewayVars, poolVars, workspaceVars,
                  documentsVars, startupVars>>
ServicesSpec == ServicesInit /\ [][ServicesNext]_ServicesVars

-----------------------------------------------------------------------------
\* What users and models write: at most two agents named in all.
MCMessages ==
  {m \in [escalated : {FALSE}, mentions : SUBSET Mentionable,
          first : Mentionable \cup {NoOne}, names : SUBSET Agents, brief : BOOLEAN] :
     /\ m.first \in m.mentions \cup {NoOne}
     /\ Cardinality(m.mentions) + Cardinality(m.names) <= 2
     /\ m.mentions \cup m.names # {} => ~m.brief
     /\ m.first = NoOne => m.mentions = {}}

\* An agent with and without escalation, web search, documents and connectors,
\* among them an unknown and a repeated one; the packager in and out of
\* experimental mode; master for a guest and for a known and an unknown user.
PlainKit ==
  [master |-> FALSE, packager |-> FALSE, experimental |-> FALSE, escalate |-> TRUE,
   web |-> TRUE, docs |-> TRUE, connectors |-> <<>>, guest |-> FALSE,
   addressed |-> FALSE, live |-> TRUE]
MCKits ==
  {[PlainKit EXCEPT !.escalate = e, !.web = w, !.docs = d, !.live = l, !.connectors = c] :
     e \in BOOLEAN, w \in BOOLEAN, d \in BOOLEAN, l \in BOOLEAN,
     c \in {<<>>, <<"web-search", "file-export", "gone", "file-export">>}}
    \cup {[PlainKit EXCEPT !.packager = TRUE, !.experimental = x, !.web = FALSE,
                           !.connectors = <<"partner-integration">>] : x \in BOOLEAN}
    \cup {kit \in {[PlainKit EXCEPT !.master = TRUE, !.escalate = FALSE, !.docs = FALSE,
                                   !.guest = g, !.addressed = s, !.live = l] :
                     g \in BOOLEAN, s \in BOOLEAN, l \in BOOLEAN} :
            kit.guest => ~kit.addressed}

\* Two calls in two ticks, two in four: three calls fill each window, stamps
\* enter the burst window out of order and one expires behind a newer head.
MCMaxAllowed == [l \in Limiters |-> 2]
MCWindow == [l \in Limiters |-> IF l = "burst" THEN 2 ELSE 4]

\* Files that are saved: a required one and another; the required one also by
\* a call without a conversation.
MCSaved == {<<Conv, r>>, <<Conv, o>>, <<DefaultDir, r>>}

\* Two documents of one file name; a text with a paragraph to be cut, one that
\* fits a chunk, one of two paragraphs in two chunks.
MCFileOf == [u \in Uploads |-> IF u = d3 THEN "other" ELSE "same"]
MCTextOf == [u \in Uploads |-> CASE u = d1 -> <<2, 9, 1>> [] u = d2 -> <<1, 1>> [] OTHER -> <<3, 2>>]

\* The first version seeds one pair, the second both.
MCShipped == <<1, 2>>
=============================================================================
