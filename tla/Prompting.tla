------------------------------ MODULE Prompting ------------------------------
(***************************************************************************)
(* What a turn is equipped with: the tools ChatEngine._assemble_tools      *)
(* offers the model, where a call of one goes, and the tools the system    *)
(* prompt built by build_system_prompt tells the model to call.            *)
(***************************************************************************)
EXTENDS Toolset

CONSTANT BuilderEnabled   \* settings.builder_enabled

\* What these functions read; master: the agent is master; packager: it has a
\* capability profile (Upia); experimental: the setting that puts profiles in
\* force; connectors: the agent's, as stored; addressed: the user's form of
\* address is known, never a guest's; live: the gateway behind web-search has listed.
Kit == [master : BOOLEAN, packager : BOOLEAN, experimental : BOOLEAN,
        escalate : BOOLEAN, web : BOOLEAN, docs : BOOLEAN,
        connectors : Seq(STRING), guest : BOOLEAN,
        addressed : BOOLEAN, live : BOOLEAN]

Has(kit, server) == \E i \in DOMAIN kit.connectors : kit.connectors[i] = server

\* active_profile: the packager's profile only in experimental mode.
ProfileActive(kit) == kit.packager /\ kit.experimental

\* The servers of every agent; a closed-domain agent gets no web search.
AlwaysOn(kit) == IF kit.web THEN <<"system", "web-search">> ELSE <<"system">>

\* dict.fromkeys over both lists: the first occurrence of each server.
Connectors(kit) ==
  LET all == AlwaysOn(kit) \o kit.connectors
  IN  Restrict(all, {i \in DOMAIN all : \A j \in 1..i - 1 : all[j] # all[i]})

\* Tools of the catalog, less the gated ones of a profile out of force.
CatalogTools(kit) ==
  LET tools == ToolsFor(Connectors(kit), IF kit.live THEN Servers ELSE Servers \ {"web-search"})
      gated == IF kit.packager /\ ~ProfileActive(kit) THEN WorkspaceTools ELSE {}
  IN  Restrict(tools, {p \in DOMAIN tools : tools[p] \notin gated})

\* extra_tools of the chat endpoint: the builder's tools, fewer for a guest.
MasterTools(kit) ==
  IF ~kit.master \/ ~BuilderEnabled THEN <<>>
  ELSE LET blocked == IF kit.guest THEN GuestBlocked ELSE {}
           kept == {i \in DOMAIN BuilderTools : BuilderTools[i] \notin blocked}
       IN  [i \in kept |-> Bare(BuilderTools[i])]

\* The tools injected into every agent but master.
ChildTools(kit) ==
  IF kit.master THEN <<>>
  ELSE (IF kit.escalate THEN <<Bare("escalate")>> ELSE <<>>) \o <<Bare("request_update")>>

KnowledgeTools(kit) == IF kit.docs THEN <<Bare("knowledge_search")>> ELSE <<>>

\* _assemble_tools: what the model is offered, each tool at its place
\* <<part of the list, place in the part>>.
ToolList(kit) ==
  LET parts == <<KnowledgeTools(kit), ChildTools(kit), MasterTools(kit), CatalogTools(kit)>>
  IN  [p \in UNION {{k} \X DOMAIN parts[k] : k \in 1..4} |-> parts[p[1]][p[2]]]
OfferedTools(kit) == Range(ToolList(kit))

\* execute: the wrappers from the outside in; the call ends in code for it.
Reaches(kit, t) ==
  \/ t \in Range(KnowledgeTools(kit)) \cup Range(ChildTools(kit))
  \/ t \in Range(MasterTools(kit)) /\ BuilderRuns(t[2], kit.guest)
  \/ t \notin Range(MasterTools(kit)) /\ CatalogRuns(t)

\* stream(): the tools a call of which is given the conversation's id.
GivenConversation(kit) == OfferedTools(kit) \cap Stateful

WebTools == {Wire("web-search", "search"), Wire("web-search", "fetch")}
ExportTools == {Wire("file-export", n) : n \in Range(FileExportLists)}

\* _decision_tree: one step per tool the agent has.
DecisionTree(kit) ==
  {Bare("request_update")}
    \cup {t \in {Bare("escalate")} : kit.escalate}
    \cup {t \in {Bare("knowledge_search")} : kit.docs}
    \cup {t \in WebTools : kit.web}
    \cup {t \in ExportTools : Has(kit, "file-export")}

\* The text of every prompt's date context, of the web section and of master's
\* own prompt is fixed.  The persona of another agent and its skills are free
\* text and left out.
DateContextNames == WebTools
WebSectionNames == WebTools \cup {Bare("escalate")}
MasterPromptNames ==
  {"set_salutation", "list_templates", "apply_template", "list_agents", "list_skills",
   "get_agent_detail", "create_skill", "create_agent", "attach_skill", "update_skill",
   "update_agent", "submit_for_review", "self_test_agent", "delete_agent", "fetch_url",
   "run_agent", "delegate_to_agent"}

\* master_system.md: set_salutation is for a user whose form of address is unknown.
MasterPrompt(kit) ==
  WebTools \cup {Bare(n) : n \in {m \in MasterPromptNames : m = "set_salutation" => ~kit.addressed}}

\* Mutant: the note for guests is left out.
NoNote(kit) == {}

\* GUEST_BUILDER_NOTE: what it tells a guest's master never to call.
NoteForbids(kit) ==
  IF kit.master /\ kit.guest /\ BuilderEnabled
  THEN {Bare("submit_for_review"), Bare("update_agent"), Bare("update_skill"),
        Bare("delete_agent")}
  ELSE {}

\* build_system_prompt: the tools the prompt tells the model to call.  The note
\* of the experimental mode names the workspace.
NamedTools(kit) ==
  (DateContextNames
    \cup (IF kit.master
          THEN MasterPrompt(kit) \cup {t \in {Bare("set_salutation")} : ~kit.addressed /\ ~kit.guest}
          ELSE DecisionTree(kit) \cup {t \in WebSectionNames : kit.web})
    \cup {t \in {Bare("knowledge_search")} : kit.docs}
    \cup {t \in ExportTools : Has(kit, "file-export")}
    \cup {t \in WorkspaceTools : ProfileActive(kit)}) \ NoteForbids(kit)
=============================================================================
