# Cục Cưng agent platform: TLA+ verification project

This directory holds a formal model of the *Cục Cưng – Agent Platform* server
(`src/app`): TLA+ modules that model its core logic, TLC configurations that
check them on small instances, and proofs, checked by TLAPS, that hold for every
instance. All paths below are relative to `src/`.

Contents: 1 the system, 2 what is hard in it, 3 the modules, 4 the runs,
5 disagreements between code and documentation, 6 the proofs, 7 what is only
model-checked, 8 what is not modelled, 9 the plan.

## 1. The system

A FastAPI server lets employees chat with *agents* (a persona plus *skills*,
which are instruction texts, plus *connectors*, which are tools) and build new
ones in a conversation with the *master* agent. What is built is private until
an administrator (the *checker*) approves it. Handlers declared with `def` run
in Starlette's thread pool, so requests overlap; each repository call opens its
own database session and commits by itself. SQLite (WAL) enforces no foreign
key.

| Component | State | Operations | Correct when |
|---|---|---|---|
| Governance (`app/core/governance.py`) | none of its own; rules over agents and skills | propose_update, submit, retract, approve, reject, delete, permissions | only what an admin approved is served; status follows the diagram; access widens only by review |
| Registry storage (`app/storage/sql.py`) | tables agents, skills, agent_skills, messages, conv_meta, agent_docs, usage_log, users | whole-row create, update, delete; links; guest migration | links resolve; a write based on an old read does no harm |
| Master toolset (`app/builder/master.py`) | a counter per request | create, update, attach, submit with skills, run_agent, delegate, self-test | the chat cannot do more than the REST routes |
| HTTP handlers (`app/api/agents.py`, `skills.py`, `review.py`) | none | submit, edit, retract, delete, review page, approve, reject | as governance; the admin approves what was shown |
| Sign-in (`app/api/auth.py`, `app/auth`) | cookies, users table | Google and admin login, migration of a guest's work | a guest's items change hands together |
| Tool loop (`app/llm/anthropic_client.py`, `base.py`) | the conversation of one reply, the round, the clock | ask, run tools, report, retry with results, stop | what is sent to the model is acceptable; the reply ends; limits and handoffs stop it |
| Chat engine (`app/core/chat_engine.py`) | text of the reply, handoff target | assembles tools, consumes the loop's events, appends the pair of messages | every turn leaves one pair; a handoff ends the turn |
| Router (`app/core/router.py`) | none | escalation marker, mentions, sticky agent with scope guard, classification | an escalated message reaches the master; a user reaches only agents he may use |
| Chat endpoint, limits, history (`app/api/chat.py`, `history.py`, `app/auth/rate_limiter.py`) | limiter windows, conv_meta | chat, list, rename, delete | limits hold; one metadata row per conversation |
| Memory (`app/memory`) | messages table or a remote store | get_history, append (retried once remotely), delete | roles alternate in what is read back |
| Tool catalog (`app/tools/catalog.py`) | four worker threads | execute with a time limit | every call is answered in time |
| MCP gateway (`app/tools/mcp_gateway.py`) | token cache, tool list cache | get_token, list_tools, call | an expired token is never used |
| Knowledge base (`app/knowledge`) | remote chunks, agent_docs registry | ingest, search, delete | registry and chunks agree |
| Partner workspace (`app/tools/partner_integration.py`) | files per conversation, staging directory, zip | save_file, package_project | nothing incomplete is packaged |
| Start-up (`app/main.py`, `seeds`) | initial registry | migrate, seed, sync | seeded items are public |
| Web client (`web/app.js`) | page | chat, review, builder pages; resubmits a delegated message | a delegated message is sent once, and never into an erased conversation |

How they interact. `POST /chat` asks the two rate limiters, lets the router name
an agent, loads it and checks the permission again, then streams
`ChatEngine.stream`, which reads the history, assembles the tools (escalate,
request_update, knowledge search, the master's builder tools, the catalog) and
consumes the events of `chat_with_tools`. Builder tools call governance and the
repositories in the thread that runs the tool. When a tool result names an agent
(escalate, request_update, delegate_to_agent) the engine emits a `delegate`
event and stops reading; the browser submits the message again to that agent.
Whatever happened, the turn ends by appending one user and one assistant
message, in two commits. The REST routes for agents, skills and review call the
same governance object.

## 2. What is hard

* Governance rules must hold over *sequences* of calls: an edit of a public row
  waits in `pending_changes`, beside other edits, visibility changes,
  migrations of ownership and deletions.
* Handlers are read, check, compute, write. `update()` writes every column of
  the copy that was read, compares no version, and raises `KeyError` if the row
  is gone. Two handlers interleave at every transaction.
* An admin decides from a page loaded minutes ago.
* One reply is a loop of requests with parallel tools, a soft and a hard time
  limit, five kinds of failure, a consumer that may leave at any event, and
  handoffs among the tools.
* Turns of one conversation overlap, two stores are written one after the
  other, remote calls fail, worker threads run out.

`PROJECT.json` lists each hazard at its line, with the properties that cover it
or a note why none does.

## 3. The modules

```
ItemLifecycle          rows, permissions, what each operation writes (pure)
  |- Governance        every request alone: one action per handler
  |    |- ReviewDesk   plus the page an admin decides from
  |- GovernanceRace    requests overlap: one action per transaction
                       (with one worker: implements Governance)
Reply                  what a reply's events promise their consumer
  ^- ToolLoop          the loop that produces them (implements Reply)
Transcript             what a conversation promises when turns do not overlap
  ^- Conversation      page, turns, messages, sidebar (then implements it)
Routing                which agent answers a message (pure)
Toolset                what every provider lists and handles (pure)
  |- Prompting         what a turn is equipped with, what its prompt names (pure)
       |- Handoff      a chain of turns: route, load, equip, hand over
Limiter                the two sliding windows in front of a turn
ToolPool               the executor that runs the catalog's tools
Gateway                token and list of the MCP gateway
Workspace              files, packaging and exports of a conversation
Documents              chunks, remote store and registry of a knowledge base
Startup                seeding, stops and failed starts, deployments
```

How the modules follow a message: `Limiter` lets it in, `Handoff` names and
equips the agent, `Conversation` reads the history and appends the pair,
`ToolLoop` is the reply in between, `ToolPool`, `Gateway`, `Workspace` and
`Documents` are what its tools do, and the builder's tools among them are the
actions of `Governance`, whose initial registry `Startup` leaves.

`ItemLifecycle.tla`. A row has a status, a visibility, text columns, queued
changes, an owner and a version. Text is abstract: each editable column holds a
value, `ValidIn` says which values pass validation for which item. That keeps
every distinction the rules make: equal or different, valid or not, queued or
applied. The operators `Proposed`, `Submitted`, `Retracted`, `Approved`,
`Rejected` compute the row that the method of the same name writes, the
`Accepts...` operators and `Reviewable` when it does not raise. A deleted or
never created row is `Absent`. `review_note`, `reviewed_by` and timestamps are
left out: no rule reads them.

`Governance.tla`. State: `row` (tables agents and skills), `links` (agent_skills)
and the history variable `published`, the texts an approval has put under each
name. Every handler that can change the registry is one action with all its
writes; a call that is refused changes nothing and so is not a step. Direct
deletion (`DELETE /agents/{name}`) and deletion from the chat are different
actions because the code paths differ: only the first lets an admin delete in
any status and removes exclusive private skills.

`GovernanceRace.tla`. Adds `job[w]`, the local variables of request `w`: the
operation, the user, the copy it will write, the skills or the guest it still
has to deal with. Each `Begin...` action is the first read with the checks on
it; `Check...` actions are later reads; `Insert`, `Save`, `InsertLink`,
`DeleteRow`, `PurgeSkill`, `MoveAgents`, `MoveSkills` are the committing
transactions. Reads of the rows of all attached skills, one after the other in
the code, are one step.

`ReviewDesk.tla`. `Governance` with `page[u]`, what admin `u` last loaded.

`Reply.tla`, `ToolLoop.tla`. `Reply` is the contract between a model client and
the chat engine: text, announced tool calls, their reports, one `Done`.
`ToolLoop` is `AnthropicMaaSClient.chat_with_tools` with
`execute_tools_maybe_parallel` and the consumer's decision to stop reading. Any tool
may raise, those that hand over included.
`pc` is where the generator is; `convo` is the message list of the next request;
`calls`, `finished`, `outcome`, `reported` describe the round in progress. The
clock is the two thresholds the code compares it with. The model is free to
answer anything, also to call tools it was not offered, because the executor
does not check. `mode` ranges over streaming or not, parallel or not, with or
without a time limit, so the master's serial configuration and the ordinary
parallel one are both covered. A batch of calls has at least one call: the API
answers `tool_use` only with one.

`Transcript.tla`, `Conversation.tla`. A turn is a series of transactions (read
the history, append the question, append the answer, look for the sidebar row,
write it) and `at[n]` is how far turn `n` has come; the reply in between is one
step, whatever events `Reply` allows it. `log` is the table of messages, `row`
the row of `conv_meta`. The page keeps two marks, "a turn is running" and
"delete when it is over", which are `marked` and `pending`; `watched` are the
turns whose stream it still reads. `Upsets` names what may disturb a turn, so
that a run says which disturbances it allows. `Transcript` is the conversation
without all this: a list of exchanges, each answered from the last ones.
`DeleteAgent` is the part of `SqlAgentRepo.delete` that concerns a conversation: in
one transaction, of which `GovernanceRace!DeleteRow` has the registry's part, the
messages of the agent's turns go and the sidebar row if it names the agent. `Theirs`
are the turns the agent answers; it is deleted once, when it has answered; a turn
that runs goes on. `cut` and `unlisted` are histories: the agent's turns that had
written by then, and the turns whose row went with it.
The module has one conversation of one signed-in user in one browser page (a second
tab would keep marks of its own) and the default SQL memory.

`Routing.tla` is `IntentRouter.route` as an operator: the set of decisions it may
return for a message, the page's sticky agent and the candidates it has read. A
message is what the rules look at: the marker of an escalation, the slugs and
names after an @, which slug stands free first, whether it is too short to
judge. The classifier and the check of scope answer anything.

`Toolset.tla` has the tools each provider lists and, separately, those its
`call()` has a branch for; `Prompting.tla` has `_assemble_tools`, the wrappers
around `execute`, and the tools that the system prompt tells the model to call: by its
date context, by master's own prompt (`master_system.md`), by the decision tree and
the sections after it, less those the note for guests forbids; all as functions of one `Kit` (what they read of agent, user and
settings; the connectors as stored, unknown and repeated ones included). Where
the code filters or joins lists of tools the model keeps each tool at its place
in the list it comes from: the places give the order, and two places with the
same tool are a tool offered twice. The personas and skills of the other agents are
free text, the seeded ones too, and left out; so is what the note of the experimental
mode says about documents that have been loaded.

`Handoff.tla`. `turn.at` goes from `sent` over `routed` and `loaded` to
`equipped`; each is a separate reading of the registry, and `ChangeRegistry` may
come in between. `view[a]` says what matters of the registry for this user:
whether he may use the agent and whether the router offers it to him, which are
different rules in the code. The three handoff tools end the stream and make the
page send the next message. `runs` counts the calls of `run_agent`: those that
have passed the check of the limit, those that have been counted.

`Limiter.tla`. A call reads the clock, then takes the lock; `Lag` bounds the
wait between. `granted` is a history of who was let through and when.

`ToolPool.tla`. `queue`, `working`, `future`, `answer`: the executor's queue, the
calls its workers run, what became of them, what their callers were told. A
caller that gives up changes nothing in the pool, as in the code. A call may time out
without having run; the model has that, and no property denies it.

`Gateway.tla`. Tokens are identified by the moment of their issue. A caller's
place is one between two statements at which another thread may run: after the
answer of the token server, after storing it outside of the check, between
storing a list and its time.

`Workspace.tla`. The workspace directory, the staging directory all packagings
of a conversation share, the ZIP and the exported file, written step by step;
any step may fail. A file being rewritten is a state of its own, since
`write_text` empties it first. Whether the directory is the conversation's or
`default` depends on whether the engine gave the call an id.

`Documents.tla`. `chunk_text` as recursive functions over the lengths of
paragraphs and over the pieces they are cut into, the store as a set of records, each document's way through insertion and registration, one
deletion at a time with the failures it ignores. `smooth` and `swept` are
histories: nothing has failed so far, and file names some deletion has swept, once and
for all: a document uploaded again under such a name stays exempt.

`Startup.tla`. Each transaction of a start is an action, `Stop` may come between
any two, `StartFails` is the `approve` that raises, `SlugCollision` the insert that the
unique slug refuses. `Shipped` says how many pairs each version of the code seeds.
While the server is up, the admin does with the seeded items what governance permits,
and people create items of their own under a seeded name that is free (`TakeName`) or
under another name that `slugify` maps to a seeded slug (`TakeSlug`). A start brings
the text of the code into public rows without an approval; `Governance`, whose
`PublishedWasApproved` is about what people do, has no start in it.

`MC*.tla` give the constants of the small instances. `MCServices` puts the last
seven state machines side by side: they share no state in the code, so the
variable `part` picks the one that moves in a behaviour.

## 4. The runs

| Run | Instance | Shows |
|---|---|---|
| `governance` | 2 agents, 1 skill, owner, admin, guest; 2 texts and an invalid one; version up to 2; about 109 000 states | all nine rules below for requests that run one at a time |
| `race` | 1 agent, 1 skill, 2 requests in flight; about 859 000 states | the five rules that survive every interleaving |
| `race_serial` | 1 agent, 1 skill, 3 users, 1 request in flight; about 58 000 states | `GovernanceRace` implements `Governance` when requests do not overlap |
| `tool_loop` | 3 rounds, up to 2 calls a round, one tool and one handoff; about 917 000 states | the reply: conversation, limits, handoff, end, contract |
| `chat` | 4 turns in a row, history of 4 messages, 1 rename, deletion | input of the model, deletion, refinement of `Transcript` |
| `chat_upset` | 2 turns, 1 rename, deletion, all upsets, the agent of the first turn deleted; about 5 044 000 states | what a turn leaves behind all the same |
| `services` | one state machine at a time, bounds below; about 3 234 000 states | ten rules of routing and handoffs, limits, tools, files, documents, start-up |
| `public_skills`, `race_diagram`, `blind_approval` | as above | violations, section 5 |
| `chat_overlap`, `chat_handoff` | 3 turns, one kind of upset each | violations, section 5 |

Rules of the registry (`governance`):

* `PublishedWasApproved`: a public row carries a text an approval published
  under that name.
* `QueuedEditsAreSound`: queued edits exist only beside public rows, never hide
  the agent, and always give a valid text, although they are validated long
  before they are applied.
* `LinksResolve`: no link names a missing item.
* `ReviewedAgentHasSkills`: an agent under review or in service has a skill,
  through every deletion.
* `SkillsPublicAtApproval`: an agent enters service only while all its skills
  are in service. (It does not stay so: section 5.)
* `StatusFollowsDiagram`: status changes are edges of the diagram at the head of
  `governance.py`, with retract, create and delete added.
* `VersionNamesText`: the text of a public skill changes only with its version.
* `ExposedOnlyByReview`: a user who is neither owner nor admin gains access to
  an agent only through the review queue.

Under overlap (`race`), `LinksResolve`, `ReviewedAgentHasSkills`,
`SkillsPublicAtApproval`, `StatusFollowsDiagram` and `ExposedOnlyByReview` are
not claimed: stale copies break them. What survives is `PublishedWasApproved`
and `QueuedEditsAreSound` (because the whole row is written, a status never
lands on another request's text), `DeletedStaysDeleted` (because of the
`KeyError`), and `HeldCopiesAreFit`, which says why: whatever a handler holds
between its read and its write stays fit to be written.

The reply (`tool_loop`): `CallsAreAnswered` (every call is answered in the next
message, in call order, by its own output), `DoubledByNudge` (two user messages in a
row come into a request by the nudge of the time limit, once for each round that ends
past it, and by nothing else; section 5), `HandoffIsLast`, `DeadlineHolds` (a request started past 1.5 times the limit is
the last, nothing runs after it), `ReplyEnds`, `EventsKeepContract`.

The conversation. With turns in a row (`chat`): `InputAlternates` (the history
read, cut to the last messages, followed by the question), `ErasedStaysErased`,
`TranscriptKept`. Under all upsets (`chat_upset`): `NoStrayAnswer` (no message
twice, no answer without its question before it), `TurnLeavesPair` (and the deletion
of another agent takes nothing of it), `ListedWhenAnswered` (two colliding inserts, one
of which fails silently, still leave the row, until the conversation or the agent the
row names is deleted), `TitleKept` (only assigned columns are written, so turns that
read the row before a rename do not undo it, in contrast to the registry).
`NoStrayAnswer` holds because a failed append raises and skips the next one; of the
deleted agent's turns the one that was between its appends leaves its answer alone, and
they are exempt.

Around the reply (`services`):

* `HandoffArrives`: an escalation reaches master although its text names the
  agent that escalated; the other handoffs reach their target, master, or an
  agent their text names.
* `EquippedSoundly`: the tools the prompt tells the model to call are offered, but for
  exactly those of `NamedInVain` (section 5), no tool is offered twice, and each offered
  tool has code behind it.
* `RunsBounded`: how many agents one turn of master runs. `run_agent` checks its
  count before it raises it, so a guest's parallel calls exceed the limit by up
  to the calls of a round less one.
* `LimitIsExact`: neither limiter lets more than its limit through in a window
  (less the wait for the lock), nor refuses a call that had fewer before it.
* `NothingStale`: no request carries an expired token, no list that counts as
  valid is older than its time and two requests, whoever stored what last.
* `HeldUpByEarlier`: a call that waits for a worker is held up by calls made
  before it only, although those that timed out keep their workers.
* `PackageComplete`: what is sent for a packaging or export that nothing of its
  conversation overlapped is what that call wrote; a package has the whole
  template, every required file, no file older than the call, whatever an
  earlier failure left in the staging directory.
* `StoreMatchesRegistry`: the text of a listed document is in the store, part by
  part, unless a document of its file name is or was being deleted; while nothing failed
  the store holds nothing that is not listed.
* `StopDamageBounded`: each stop in mid-start, each deletion of a seeded agent and each
  seeded name taken by people costs at most one seeded pair and one refused approval; a
  start that comes to its end has brought every text up to date.
* `SlugBlocksStart`: what has no bound. While the slug of a seeded agent that is absent
  is held by another agent, no start comes to its end, whatever is restarted, until
  another version is deployed.

`Handoff` states one more, `RefusedOnlyAfterChange` (the router never names an agent
that the endpoint's own check turns down unless the registry changed in between), which
is proved and has no run.

Bounds and why they suffice. Governance compares rows of one item, the skills
of one agent and the agents of one skill; two agents sharing one skill exhibit
sharing and exclusivity, one column suffices because columns are never compared
with each other, and two valid texts suffice to tell whether the right one is
served. Agents take one valid text in that run, skills two, because only skills
have versions; symmetry is over the agents, whose handles differ only by name.
`MaxVersion` bounds how often a skill's queued edit is approved: the second
value already distinguishes a raised version from one that is not. In `race`
the only user is an admin, who may do all that an owner may, so every operation
overlaps with every other; identities matter in `race_serial` (owner, admin,
guest) and in the proofs. Two workers suffice to put any one write between any
read and write. `tool_loop` has three rounds because the time limit passes in
one round, takes its effect in the next and ends the reply there, and two calls
because two are the fewest that can end out of order.

In `chat` four turns make eight messages,
twice the history, so that the cut slides over pairs; an even `HistoryLimit` is
assumed there because the code counts messages (with an odd one every longer
history starts with an answer). In `chat_upset` two turns suffice: the
properties speak of one turn or of two messages, and a third turn could only
repeat what the second does to the first; the agent to be deleted answers one of them, so
that the other's messages and row are under its deletion.

In `services`: two agents, one of which escalates, and master; messages that name
at most two of them by slug or name (two are what "several" means to the router);
two handoffs in a row, so that a handoff follows a handoff; three calls of
`run_agent` against a limit of two; kits with and without escalation, web search,
documents and a live gateway, without connectors or with four stored ones, one of a
server that is gone and one stored twice, and those of packager and master. Three
limited calls against limits of two in windows of two ticks (burst) and four (session),
five ticks in all, a wait of at most one for the lock: both limiters refuse, the burst
window holds two stamps out of order, and one that has expired stays behind a newer
head. Two
threads and eight moments in the gateway, twice the life of a token. Five pool
calls, one of them of no known server, over two workers: two run, two wait.
Three files (required, of the template, neither), one text saved of each, two
packers: enough for two packagings, a packaging and an export, and a packaging
after one that failed. Three documents, two of one file name, a listing cut after
three of their records. Two seeded pairs, of which the first version of the code has one;
two stops and two deletions or names taken: one pair damaged while the other is not, a
new start that finds both, a slug taken before the version that seeds it.

`CHECK_DEADLOCK` is off in `tool_loop`, in the runs of the conversation and in
`services`: a reply that is over and a page that has sent its last turn have no
further step, and clocks, calls and documents are used up by their bounds.
The registry never stops.

Fairness. The safety specifications of the registry, of the conversation and of
the parts in `services` have none: nothing obliges a user, an admin or a remote
server to act, and what they promise is safety. `ToolLoop!Spec` has
`WF_vars(Step)`: the thread that serves a reply goes on by itself. Each wait in
it is bounded: requests by `request_timeout` (90 s), catalog tools by
`tool_timeout_seconds`, the tools that write the registry by SQLite's busy
timeout. `Tick` and `Leave`, the clock and the user, have no fairness;
`ReplyEnds` depends on neither. `Text` is the one self-loop a fair scheduler
could take for ever; it leaves the state unchanged the second time, so it is no
step under `WF_vars(Step)`. The bound the code puts on the length of an answer
is `max_tokens`.

## 5. Disagreements

* `public_skills`: `governance.py:420` wants every skill of an approved agent in
  service. `attach_skill` never looks at the agent's status, so a private skill
  is attached to an agent that is already public, and served.
* `race_diagram`: `governance.py:3-5` draws the status diagram. Two overlapping
  requests leave it: a retract that read the agent while it was under review
  overwrites the approval that came in between, and public becomes private.
* `blind_approval`: `review.py:1` promises no blind approval. The approve request
  names the item only; what the owner did after the page was loaded is approved
  unseen.

* `chat_overlap`: `chat_engine.py:966-970` stores a pair in every case so that the
  next request does not have two user messages in a row, which the API refuses.
  A second turn of the conversation reads the history before or between the two
  appends of the first. The page lets it: Enter submits while the button is
  disabled.
* `chat_handoff`: `app.js:18-19` defers a deletion until the server has written, so
  that the conversation does not come back. After a handoff the page starts the
  second turn from within the first, whose `finally` then removes the mark of the
  running turn; the deletion is not deferred. A broken connection (upset
  `loss`) and overlapping turns have the same effect.

Some disagreements are stated as properties that hold: they say exactly where the code
does not do what its text says.

* The nudge (`DoubledByNudge`, run `tool_loop`). `chat_engine.py:966-970` says the API
  answers two user messages in a row with 400, the reason why a pair is always stored
  and why `chat_overlap` matters. `anthropic_client.py:273-278` appends the nudge of the
  time limit as a user message of its own after the results, which are one too. Every
  round that ends past the limit does it. If the API is as the comment says, the request
  the nudge is meant for fails and the reply ends in the apology for a failed request.
* Prompts (`EquippedSoundly`, run `services`). The comment at `chat_engine.py:500-501`
  says that an agent of a closed domain is not given the instructions to search the web;
  the date context of every prompt (398-403) tells it to use `web-search` all the same.
  `master_system.md` is the same for a guest, whose master lacks `submit_for_review`,
  `update_agent`, `update_skill`, `delete_agent`, `fetch_url`, `self_test_agent` and
  `set_salutation` (`master.py:297-309`); the note for guests forbids the first four
  only. The web section tells an agent without `escalate` to escalate (276). With
  `builder_enabled` off master's prompt still names all the builder's tools. The
  packager's profile does not make sure of its connector: an edit that takes
  `partner-integration` from Upia leaves a prompt that names workspace tools the turn
  does not offer. Without a live gateway nobody has the web tools. These are the
  members of `NamedInVain`, and there are no others.
* Seeding (`StopDamageBounded`, `SlugBlocksStart`, run `services`). `_seed_one` calls
  itself idempotent (`demo_data.py:548-549` and its docstring). A stop inside a pair is
  not repaired: the row stays private, one later start fails at the approval of its
  agent, and the next leaves that agent under review. And an agent of another name that
  has the slug of a seeded agent which is absent (deleted, or new in this version) makes
  the insert at 603 raise, since slugs are unique (`sql.py:23`) and `slugify` drops accents
  (`core/models.py:16-21`); the server does not start until another version is deployed or
  the table is mended by hand.
* The deletion of an agent and conversations (`NoStrayAnswer`, `ListedWhenAnswered`, run
  `chat_upset`). `sql.py:310-318` takes the agent's messages out of every conversation it
  has answered in, and the sidebar row of those it answered last, though the other agents'
  messages stay and nobody has deleted the conversation. A turn that is between its
  appends leaves an answer without a question, with which the next history may start,
  as an assistant message: with upset `agent` alone `InputAlternates` does not hold.

Other things the models follow the code in, though a reader of the documentation
might expect otherwise; no property is devoted to them:

* The message of `request_update` names the agent it is about, and the router
  recognises only escalations before mentions (`router.py:36-47`), so it may be
  routed back to that agent. `HandoffArrives` allows it.
* An admin, or the owner of a rejected agent, may delegate to an agent that he may
  use but that is no candidate of the router; the message then goes to master.
* The limit of `run_agent` is exceeded by a guest, as in `RunsBounded`.
* The gate on the workspace tools looks at the packager's profile only; any other
  agent with the connector `partner-integration` gets them ungated.
* A workspace tool that is called without having been offered works on the
  directory `default`, while the engine sends the ZIP of the conversation.
* Deleting one of two documents of the same file name removes the chunks of both;
  the other stays listed (`swept`).
* An agent with web search switched off gets it all the same if `web-search` is among its
  connectors (`chat_engine.py:566`).

## 6. The proofs

All theorems hold for any numbers of agents, skills, users, columns, values,
workers, tools, rounds, calls, files and documents. They rest on the named
assumptions of the modules about their constants, each next to the constants it
is about, which TLC evaluates in every run. Those with content are
`GatewayAssumption` (a fetch and a call together take no longer than the safety
margin, which holds for the code's 60 s and its default timeouts, and a token
lives longer than a fetch and the margin) and `DocumentsAssumption` (the overlap
is at most half of a chunk, as the chunker clamps it); the others say that bounds
are numbers and that names differ. Four theorems assume more, in their statements:
`ErasedForGood` (which upsets), `InputsAlternate` and `ExchangesAreKept` (no upset,
an even history), `RaceRefinesGovernance` (one worker).

`ItemLifecycleProofs.tla` shows, operation by operation, that the row it writes
is well formed and *sound* (`SoundRow`: queued edits only on public rows, the
text and the text after the queued edit valid). The interesting lemma is
`ProposedSound`: merging a new edit into the queue validates the merged edit
against the current text.

`GovernanceProofs.tla`. The inductive invariant `RegistryInv` is type
correctness, soundness of every row, and `PublishedWasApproved`. Soundness has
to be in it: an approval publishes a queued text, whose validity is known only
because the queue was sound. `LinksResolve` and `ReviewedAgentHasSkills` are
proved on top of it (a deletion removes only skills linked to no other agent),
and the four action properties from the invariant and a case split on `Next`.

`GovernanceRaceProofs.tla`. The inductive invariant `RaceInv` adds what each
handler holds: `HeldCopiesAreFit`. A copy's fitness mentions `published`, which
only grows, and no other shared state; therefore no step of another request can
spoil it, and `Save` may write it whatever the row has become. This is the
argument why whole-row overwrites, harmful elsewhere, keep the rule
`PublishedWasApproved` for any number of overlapping requests.

With one worker `RaceRefinesGovernance` shows that `GovernanceRace` implements
`Governance`. A request with several commits is mapped to the state after all of
them (`SettledRow`): submitting an agent with its skills, deleting an agent with its
own skills and moving a guest's items each take effect at the first commit, the
later ones are stutters. `SerialInv` has one part per operation: what the copy in
hand was computed from, and the checks it passed, are still true of the tables at
the moment of writing, since nobody else writes. So the check of a handler, made
transactions ago, is the guard of the action in `Governance`.

`ToolLoopProofs.tla`. The inductive invariant `LoopInv` has five parts: types;
`SendableConvo` (answered calls, and how the list ends, which is what lets a round be
appended); `NoHandoffSoFar` (reported
results contained no handoff, so a round that was reported to its end contains
none); `BatchInHand` (how far the round has come at each `pc`); `PastHardLimit`
(after a request past the hard limit the loop never reaches the tools). From it
follow the safety properties of the run (`RoundDoubles`: of the places where two user
messages follow each other a round adds the one before its nudge), and
`LoopKeepsContract`: every step
of the loop is a step of `Reply` or leaves the events alone.

`ConversationProofs.tla`. For every set of upsets, any number of turns and any
history. The inductive invariant `ConvInv` says how much of its pair a turn has
written at each place (`LogInv`), that the row a turn found is still the row
unless a deletion removed it (`RowInv`), that a deletion is asked for once
(`PageInv`, without which an erased conversation could count as not erased) and the
agent deleted once (`AgentInv`). What the first two say they say of turns that are not
in `cut` or `unlisted`; `KeptFacts` says what the deletion of an agent leaves, as a
mapping that keeps the order.
`LogFrame` and `RowFrame` carry the invariant over the many steps that only move
a turn; the two appends are proved conjunct by conjunct.

Two rules of the conversation hold for some upsets only and are proved for those.
`ErasedForGood`: with at most failing appends, crashes and the deletion of an agent, turns come one at a
time (`OneAtATime`: only the last is under way, and the page's mark says so), so
that a deletion is always deferred past the last write. `InputsAlternate`: with an
even `HistoryLimit` and no upset the table holds whole pairs, and one question
while a turn is between its appends (`PairsInv`); the cut of an even length leaves
whole pairs. Then the conversation also implements `Transcript`
(`ExchangesAreKept`): the exchanges are the answered pairs of the table, and
`BasisInv` says that what a turn has read is still the last of the exchanges, or
nothing, until its answer is written.

`HandoffProofs.tla`. `HandoffInv` is type correctness, `MessageCarries` (a message
of a handoff has the marker or the names its tool put there), `DecisionFits` (the
decision is one the message allows), `DecisionStands` (it names a candidate as long
as the registry has not changed since) and `RoundBounded` (passed and counted runs,
weighed against the calls the round has left). `RoutesToCandidates` and
`RoutesWhereSent` are the two facts about the cascade the rest uses.
`TurnsEquippedSoundly` is about the lists of tools. The list has four parts, and no
tool is in two of them: builder and injected tools have no server and different
names (`ListOnce`). Within the catalog's part a tool tells its server and its place in
that server's list, so it could be offered twice only through a connector that is
there twice; `ConnectorsOnce` excludes this, keeping of each connector the first of
its places (`LeastPlace`). The prompt's part goes through the kinds of tools one by one:
web, workspace, builder, the rest.

`ServerProofs.tla`, the limits. `LimiterInv` relates a window to the history (`Sound`): its
entries were let through, each once, in the order they entered and at most `Lag`
after their stamps, and every call missing in it was let through longer ago than
the window is wide, less `Lag`. Stamps may be out of order. Nobody passes too
early all the same, because entries leave through a head that has expired; and
nobody is refused without cause, because what stands behind a head that counts was
let through after it. The counting goes through an injection from the recent
grants to places of the window and one back. `ClocksRecent` and `PassedInOrder`
say that a waiting call read the clock recently and that each call passes a
limiter once.

`ServerProofs.tla`, start-up. `StartShape` says what the rows of a pair and the place
of the start tell about each other; it alone is no bound. The bound counts. `Damaged`
are the pairs out of service that no start is about to bring in and that are amiss:
the running version ships them, or their agent is there, or their skill is there and
not public. `Stuck` are those whose agent would fail its approval once it is created:
their skill is there and not public, and the agent is absent or just in hand. A stop,
a deletion or a taken name adds at most one pair to each set, and a failed start uses
up a stuck pair; `DamageCounted` and `FailuresCounted` weigh the sets against
`stops + meddled`, and the proof shows for every step which side of each inequality
moves. A start that ends in a slug collision is outside these counts.
`SlugKeepsServerDown` says why it must be: no start passes a pair whose agent is
absent while another agent holds its slug, and nobody frees the slug while the server
is down.

`ToolSideProofs.tla`. Gateway: the stored token expires at most a fetch after what the
client believes (`TokenNearlyExact`), a thread's request is bounded by its timeout
(`ThreadBounded`), the list is at most two calls older than its stamp
(`CacheNearlyExact`). Pool: each call is submitted once, the queue is the end of the
order of submission, everything before that end has started, and the workers are
all busy while somebody waits. Workspace: `OverlapsMarked` (two live calls of a
directory are both marked), `DiskKept` (files only gain text) and `Progress` (what
an unmarked call has put into staging, ZIP and answer at each place).
Documents: `ChunksKept`, `RemovalSweeps`, `NoOrphans`, and that every text is well cut
(`TextsAreWellCut`): paragraphs are cut into different pieces no longer than a chunk
(`CutParts`, `PiecesDistinct`), and the loop over the pieces keeps `Packed`: closed
chunks and buffer hold the pieces so far, each once. These are inductions over data.
The library's induction theorems take an operator, which the provers cannot
instantiate; `InductiveSet` states induction for a set instead, and `StepsCompose`
that a function defined by such a recursion exists, with the steps given as a
function.

## 7. Only model-checked

`ReplyEnds`, which is liveness under fairness. The provers have no rule for it
beyond propositional temporal logic, and none for ENABLED.

The violations of section 5 are found by TLC; a violation needs no proof.

## 8. Not modelled

* The remote memory (`agentbase_memory.py`), which retries an append once and then
  drops it; it is not the default backend. The conversation model has the default,
  where an append fails by raising.
* A second conversation, and with it the reuse of a deleted row's id by SQLite
  (`sql.py:527`); guests' turns, which skip the row of the sidebar; the upload of a
  large attachment to the knowledge base in mid-turn.
* Agent self-test: sequential, stores nothing, no rule depends on its verdict.
* `AnthropicMaaSClient.chat`, which no caller reaches, and the plan B client
  `openai_client.py`, selected only by `LLM_PROVIDER=openai`. It has no time
  limit and catches no failure of a request.
* The data tools' lookups (`tools/zalopay_*.py`, `tools/mock/`) in fixed data or on the network, which change no state but
  caches of pages; only what they list and handle is modelled. Likewise the
  simulated build and deployment tools, which return fixed or random texts.
* Knowledge search, the lists of the sidebar and of the catalog, templates, the
  download of artifacts: reads. Feedback and usage: inserts that no decision reads.
* `check_duplicate_name` and the similarity search: advice to the model, no state.
* The master's own row in the registry: it is not subject to review. (`Startup` has
  its text.)
* Token counts, latency, logging, the wording of answers, the extraction of
  text from uploads, file formats and contents, the rewriting of module paths in a
  package, the rest of the browser code, the OAuth exchange and cookies.

## 9. What is left

In the order of what it would add:

1. The remote memory with its retry, a second conversation for the reuse of row
   ids, guests' turns.
2. A property for the deletion of a private skill that another agent attaches
   between the scan and the purge (`agents.py:136`), and one for a widening that
   was queued before the visibility of a public agent was narrowed.
