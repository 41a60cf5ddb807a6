------------------------------ MODULE Governance ------------------------------
(***************************************************************************)
(* The registry of agents and skills when every request runs alone: the    *)
(* maker-checker rules of app/core/governance.py with the handlers of      *)
(* app/builder/master.py and app/api/{agents,skills,review,auth}.py that   *)
(* drive them.  One action per handler, with all the writes the handler    *)
(* makes.  A handler that raises or answers with an error changes nothing, *)
(* so only the accepted calls are steps.                                   *)
(*                                                                         *)
(* This is also the abstract specification of GovernanceRace.tla, where    *)
(* the reads and writes of concurrent handlers interleave.                 *)
(***************************************************************************)
EXTENDS ItemLifecycle

CONSTANTS
  Seeded,      \* items ensure_seed creates and approves at start-up
  SeedLinks,   \* the agent_skills rows it inserts
  SeedOwner,   \* their created_by
  SeedText,    \* their text columns
  MaxVersion   \* bound on skill versions

ASSUME SeedAssumption ==
  /\ Seeded \subseteq Items
  /\ SeedLinks \subseteq (Agents \cap Seeded) \X (Skills \cap Seeded)
  /\ \A a \in Agents \cap Seeded : \E s \in Skills : <<a, s>> \in SeedLinks
  /\ SeedOwner \in Users
  /\ \A i \in Seeded : SeedText \in [Fields -> ValidIn[i]]
  /\ \A a, b \in Agents \cap Seeded : Slug[a] = Slug[b] => a = b
  /\ MaxVersion \in Nat

VARIABLES
  row,        \* tables agents and skills: the row of each name
  links,      \* table agent_skills
  published   \* history: the texts an approval has published under each name

vars == <<row, links, published>>

SkillsOf(a) == {s \in Skills : <<a, s>> \in links}
UsersOfSkill(s) == {a \in Agents : <<a, s>> \in links}

\* Mutant: a skill another agent uses is removed too.
ExclusiveOrShared(a) == {s \in SkillsOf(a) : row[s].status = "private"}

\* The skills delete_agent removes with the agent: private, attached to no other.
Exclusive(a) ==
  {s \in SkillsOf(a) : row[s].status = "private" /\ UsersOfSkill(s) = {a}}

SlugFree(a) == \A b \in Agents : Exists(row[b]) => Slug[b] # Slug[a]

Init ==
  /\ row = [i \in Items |->
              IF i \in Seeded THEN SeededRow(SeedOwner, SeedText) ELSE Absent]
  /\ links = SeedLinks
  /\ published = [i \in Items |-> IF i \in Seeded THEN {SeedText} ELSE {}]

-----------------------------------------------------------------------------
(* The maker *)

\* _h_create_agent: duplicate name, payload, duplicate slug, insert.
CreateAgent(u, a, text, vis) ==
  /\ ~Exists(row[a])
  /\ Passes(a, text)
  /\ SlugFree(a)
  /\ row' = [row EXCEPT ![a] = Created(u, text, vis)]
  /\ UNCHANGED <<links, published>>

CreateSkill(u, s, text) ==
  /\ ~Exists(row[s])
  /\ Passes(s, text)
  /\ row' = [row EXCEPT ![s] = Created(u, text, "company")]
  /\ UNCHANGED <<links, published>>

\* _h_attach_skill asks for the agent's owner and a skill the user may see; it
\* does not look at the agent's status.
MayAttach(u, s) == row[s].status = "public" \/ CanEdit(row[s], u)

\* Mutant: the columns of the link are swapped.
AttachSwapped(u, a, s) ==
  /\ Exists(row[a]) /\ CanEdit(row[a], u)
  /\ Exists(row[s]) /\ MayAttach(u, s)
  /\ links' = links \cup {<<s, a>>}
  /\ UNCHANGED <<row, published>>

AttachSkill(u, a, s) ==
  /\ Exists(row[a]) /\ CanEdit(row[a], u)
  /\ Exists(row[s]) /\ MayAttach(u, s)
  /\ links' = links \cup {<<a, s>>}
  /\ UNCHANGED <<row, published>>

Update(u, i, e) ==
  /\ LoggedIn(u)
  /\ Exists(row[i]) /\ CanUpdate(row[i], u)
  /\ i \in Skills => e.visibility = Keep
  /\ AcceptsEdit(i, row[i], e)
  /\ row' = [row EXCEPT ![i] = Proposed(row[i], e)]
  /\ UNCHANGED <<links, published>>

MaySubmit(u, i) ==
  /\ LoggedIn(u)
  /\ Exists(row[i]) /\ CanEdit(row[i], u)
  /\ AcceptsSubmit(i, row[i])
  /\ i \in Agents => SkillsOf(i) # {}

\* POST /agents/{name}/submit and /skills/{name}/submit.
Submit(u, i) ==
  /\ MaySubmit(u, i)
  /\ row' = [row EXCEPT ![i] = Submitted(row[i])]
  /\ UNCHANGED <<links, published>>

\* _h_submit_for_review: the attached private skills go with the agent, except
\* those the user may not submit.
SubmitWithSkills(u, a) ==
  /\ MaySubmit(u, a)
  /\ row' = [i \in Items |->
               IF i = a \/ (i \in SkillsOf(a) /\ MaySubmit(u, i))
                 THEN Submitted(row[i]) ELSE row[i]]
  /\ UNCHANGED <<links, published>>

\* Only agents have a retract route.
Retract(u, a) ==
  /\ LoggedIn(u)
  /\ CanEdit(row[a], u)
  /\ row[a].status = "pending_review"
  /\ row' = [row EXCEPT ![a] = Retracted(row[a])]
  /\ UNCHANGED <<links, published>>

\* Mutant: the links of the deleted agent stay.
DeleteWithoutLinks(u, a) ==
  /\ LoggedIn(u)
  /\ CanEdit(row[a], u)
  /\ row[a].status \in {"private", "rejected"}
  /\ row' = [row EXCEPT ![a] = Absent]
  /\ UNCHANGED <<links, published>>

\* Governance.delete_agent (the chat tool): the agent and its links, no skill.
DeleteFromChat(u, a) ==
  /\ LoggedIn(u)
  /\ CanEdit(row[a], u)
  /\ row[a].status \in {"private", "rejected"}
  /\ row' = [row EXCEPT ![a] = Absent]
  /\ links' = {l \in links : l[1] # a}
  /\ UNCHANGED published

\* DELETE /agents/{name}: an admin in any status; exclusive private skills too.
MayDelete(u, r) ==
  /\ CanEdit(r, u)
  /\ IsAdmin(u) \/ r.status \in {"private", "rejected"}
DeleteAgent(u, a) ==
  /\ LoggedIn(u)
  /\ Exists(row[a])
  /\ MayDelete(u, row[a])
  /\ row' = [i \in Items |-> IF i = a \/ i \in Exclusive(a) THEN Absent ELSE row[i]]
  /\ links' = {l \in links : l[1] # a /\ l[2] \notin Exclusive(a)}
  /\ UNCHANGED published

-----------------------------------------------------------------------------
(* The checker *)

\* Mutant: approve only asks that the attached skills exist.
SkillsExist(a) == \A s \in SkillsOf(a) : Exists(row[s])

\* approve looks at the attached skills only on an agent's first review.
SkillsReady(a) == \A s \in SkillsOf(a) : row[s].status = "public"
Approve(u, i) ==
  /\ IsAdmin(u)
  /\ Reviewable(row[i])
  /\ row[i].status = "pending_review" /\ i \in Agents => SkillsReady(i)
  /\ row[i].version < MaxVersion
  /\ row' = [row EXCEPT ![i] = Approved(i, row[i])]
  /\ published' = [published EXCEPT ![i] = @ \cup {row'[i].text}]
  /\ UNCHANGED links

Reject(u, i) ==
  /\ IsAdmin(u)
  /\ Reviewable(row[i])
  /\ row' = [row EXCEPT ![i] = Rejected(row[i])]
  /\ UNCHANGED <<links, published>>

-----------------------------------------------------------------------------
(* Login: reassign_guest and reassign_guest_skills move what the guest made. *)

Login(g, u) ==
  /\ LoggedIn(u)
  /\ \E i \in Items : row[i].owner = g
  /\ row' = [i \in Items |-> IF row[i].owner = g THEN [row[i] EXCEPT !.owner = u]
                                                   ELSE row[i]]
  /\ UNCHANGED <<links, published>>

-----------------------------------------------------------------------------

Next ==
  \/ \E u \in Users, a \in Agents, t \in [Fields -> Values], v \in Visibilities :
       CreateAgent(u, a, t, v)
  \/ \E u \in Users, s \in Skills, t \in [Fields -> Values] : CreateSkill(u, s, t)
  \/ \E u \in Users, a \in Agents, s \in Skills : AttachSkill(u, a, s)
  \/ \E u \in Users, i \in Items, e \in Edits : Update(u, i, e)
  \/ \E u \in Users, i \in Items : Submit(u, i)
  \/ \E u \in Users, a \in Agents : SubmitWithSkills(u, a)
  \/ \E u \in Users, a \in Agents : Retract(u, a)
  \/ \E u \in Users, a \in Agents : DeleteFromChat(u, a)
  \/ \E u \in Users, a \in Agents : DeleteAgent(u, a)
  \/ \E u \in Users, i \in Items : Approve(u, i)
  \/ \E u \in Users, i \in Items : Reject(u, i)
  \/ \E g \in Guests, u \in Users : Login(g, u)

Spec == Init /\ [][Next]_vars

-----------------------------------------------------------------------------
(* Properties *)

TypeOK ==
  /\ row \in [Items -> Row]
  /\ links \subseteq Agents \X Skills
  /\ published \in [Items -> SUBSET [Fields -> Values]]

\* Everything the company is served was published by an approval: whatever
\* mixture of direct edits, queued edits, rejections and re-submissions came
\* before, the text of a public row is one approve() wrote (governance.py
\* 400-435).
PublishedWasApproved ==
  \A i \in Items : row[i].status = "public" => row[i].text \in published[i]

\* A queued edit exists only beside a public row, and approving it can only
\* yield a valid text: approve applies pending_changes without validating it
\* again (governance.py 406-414), so the merge of several edits must have been.
QueuedEditsAreSound == \A i \in Items : SoundRow(i, row[i])

\* agent_skills never names a missing agent or skill (the database does not
\* enforce its foreign keys), across both ways to delete and skill sharing.
LinksResolve ==
  \A l \in links : Exists(row[l[1]]) /\ Exists(row[l[2]])

\* The rule submit checks - an agent under review or in service has a skill -
\* outlives the deletion of other agents and of their skills.
ReviewedAgentHasSkills ==
  \A a \in Agents :
    row[a].status \in {"pending_review", "public"} => SkillsOf(a) # {}

\* An agent goes into service only together with skills that are all in
\* service (the comment at governance.py 420).
SkillsPublicAtApproval ==
  [][\A a \in Agents :
       row[a].status # "public" /\ row'[a].status = "public"
         => \A s \in SkillsOf(a) : row[s].status = "public"]_vars

\* The status column moves only along the diagram at the head of
\* governance.py, plus retract, creation and deletion.
Diagram ==
  {<<"absent", "private">>, <<"private", "pending_review">>,
   <<"pending_review", "public">>, <<"pending_review", "rejected">>,
   <<"pending_review", "private">>, <<"rejected", "private">>}
  \cup {<<st, "absent">> : st \in Statuses}
StatusFollowsDiagram ==
  [][\A i \in Items :
       row'[i].status # row[i].status
         => <<row[i].status, row'[i].status>> \in Diagram]_vars

\* A version number names one text of a public skill: its content changes in
\* the very step that raises the version (the comment at governance.py 411).
VersionNamesText ==
  [][\A s \in Skills :
       row[s].status = "public" /\ row'[s].status = "public" =>
         /\ row'[s].version >= row[s].version
         /\ row'[s].text # row[s].text => row'[s].version > row[s].version]_vars

\* Someone who is neither owner nor admin gains access to an agent only through
\* the review queue: the agent was waiting for its first review, or its queued
\* edit asked for company visibility (can_use_agent, governance.py 110-116).
ExposedOnlyByReview ==
  [][\A a \in Agents, u \in Users :
       CanUse(row'[a], u) /\ ~CanUse(row[a], u) /\ row'[a].owner # u
         => row[a].status = "pending_review" \/ row[a].pending.visibility = "company"]_vars

\* What the comment at governance.py 420 says of the agents in service: every
\* skill attached to a public agent is public.
PublicAgentSkillsPublic ==
  \A a \in Agents :
    row[a].status = "public" => \A s \in SkillsOf(a) : row[s].status = "public"
=============================================================================
