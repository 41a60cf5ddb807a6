------------------------------ MODULE Toolset ------------------------------
(***************************************************************************)
(* The tools there are: what every provider lists, what its call()         *)
(* handles, the builder's tools and the ones the engine injects.  A tool   *)
(* is known on the wire as <<server, name>> (tools/base.py to_wire);       *)
(* builder and injected tools have no server.  Descriptions and input      *)
(* schemas are left out.  What the code filters and joins keeps its place  *)
(* in the lists it comes from, which orders it.                            *)
(***************************************************************************)
EXTENDS Sequences, SequencesExt

Wire(server, name) == <<server, name>>
Bare(name) == <<"", name>>

\* list_tools() of each provider, in its order.
SystemLists == <<"get_current_date">>
WebSearchLists == <<"search", "fetch">>
FileExportLists == <<"export_xlsx", "export_csv", "export_docx">>
PartnerLists ==
  <<"read_phase", "read_reference", "read_template", "save_file", "list_workspace",
    "package_project", "go_build", "go_test", "go_vet", "create_gitlab_repo",
    "create_mr", "merge_mr", "deploy_sandbox", "query_bill_sandbox">>
ContractLists == <<"search_contracts", "get_contract">>
CompanyDocsLists == <<"search_policy">>
GitlabLists ==
  <<"get_mr", "get_mr_diff", "get_mr_discussions", "post_mr_note", "save_review">>
FaqLists == <<"list_categories", "list_folders", "list_articles">>
DealsLists == <<"list_deals", "get_deal">>
DocsLists == <<"list_docs", "read_doc">>

\* The providers create_app registers.
Listed ==
  [s \in {"system", "web-search", "file-export", "partner-integration", "contract-db",
          "company-docs", "gitlab", "zalopay-faq", "zalopay-deals", "zalopay-docs"} |->
     CASE s = "system" -> SystemLists
       [] s = "web-search" -> WebSearchLists
       [] s = "file-export" -> FileExportLists
       [] s = "partner-integration" -> PartnerLists
       [] s = "contract-db" -> ContractLists
       [] s = "company-docs" -> CompanyDocsLists
       [] s = "gitlab" -> GitlabLists
       [] s = "zalopay-faq" -> FaqLists
       [] s = "zalopay-deals" -> DealsLists
       [] s = "zalopay-docs" -> DocsLists]

Servers == DOMAIN Listed

\* The names call() of each provider has a branch for; any other raises.
SystemHandles == {"get_current_date"}
WebSearchHandles == {"search", "fetch"}
FileExportHandles == {"export_csv", "export_xlsx", "export_docx"}
PartnerHandles ==
  {"read_phase", "read_reference", "read_template", "save_file", "list_workspace",
   "package_project", "go_vet", "go_build", "go_test", "create_gitlab_repo",
   "create_mr", "merge_mr", "deploy_sandbox", "query_bill_sandbox"}
ContractHandles == {"search_contracts", "get_contract"}
CompanyDocsHandles == {"search_policy"}
GitlabHandles == {"get_mr", "get_mr_diff", "get_mr_discussions", "post_mr_note", "save_review"}
FaqHandles == {"list_categories", "list_folders", "list_articles"}
DealsHandles == {"list_deals", "get_deal"}
DocsHandles == {"list_docs", "read_doc"}

Handled ==
  [s \in Servers |->
     CASE s = "system" -> SystemHandles
       [] s = "web-search" -> WebSearchHandles
       [] s = "file-export" -> FileExportHandles
       [] s = "partner-integration" -> PartnerHandles
       [] s = "contract-db" -> ContractHandles
       [] s = "company-docs" -> CompanyDocsHandles
       [] s = "gitlab" -> GitlabHandles
       [] s = "zalopay-faq" -> FaqHandles
       [] s = "zalopay-deals" -> DealsHandles
       [] s = "zalopay-docs" -> DocsHandles]

\* The tools that get the conversation's id from the engine: they work on its
\* directory.
Stateful == {Wire("partner-integration", "save_file"),
             Wire("partner-integration", "list_workspace"),
             Wire("partner-integration", "package_project"),
             Wire("file-export", "export_xlsx"), Wire("file-export", "export_csv"),
             Wire("file-export", "export_docx")}

\* The packager's profile: its tools that experimental mode exposes.
WorkspaceTools == {Wire("partner-integration", "save_file"),
                   Wire("partner-integration", "list_workspace"),
                   Wire("partner-integration", "package_project")}

\* MASTER_TOOLS, in order.
BuilderTools ==
  <<"list_agents", "get_agent_detail", "create_agent", "update_agent", "list_skills",
    "create_skill", "update_skill", "attach_skill", "submit_for_review", "fetch_url",
    "delete_agent", "run_agent", "self_test_agent", "delegate_to_agent",
    "set_salutation", "list_templates", "apply_template">>

\* _GUEST_BLOCKED_TOOLS.
GuestBlocked == {"update_agent", "update_skill", "delete_agent", "submit_for_review",
                 "fetch_url", "self_test_agent", "set_salutation"}

\* The handlers of MasterToolset, found by name.
BuilderHandlers ==
  {"set_salutation", "list_templates", "apply_template", "fetch_url", "list_agents",
   "delete_agent", "get_agent_detail", "list_skills", "create_agent", "update_agent",
   "update_skill", "create_skill", "attach_skill", "submit_for_review", "run_agent",
   "self_test_agent", "delegate_to_agent"}

\* MasterToolset.execute: a name without a handler, and a blocked name asked by
\* a guest, is an error.
BuilderRuns(name, guest) ==
  name \in BuilderHandlers /\ ~(guest /\ name \in GuestBlocked)

\* ToolCatalog.execute: a name without a server, or of an unknown one, is an
\* error.
CatalogRuns(tool) ==
  tool[1] \in Servers /\ tool[2] \in Handled[tool[1]]

\* ToolCatalog.tools_for: the tools of the connectors, each at its place
\* <<connector, place in its list>>; unknown servers are skipped, a server
\* outside live lists nothing.
ToolsFor(connectors, live) ==
  LET listing == {i \in DOMAIN connectors : connectors[i] \in Servers \cap live}
      places == UNION {{i} \X DOMAIN Listed[connectors[i]] : i \in listing}
  IN  [p \in places |-> Wire(connectors[p[1]], Listed[connectors[p[1]]][p[2]])]
=============================================================================
