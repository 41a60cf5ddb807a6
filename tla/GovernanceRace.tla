---------------------------- MODULE GovernanceRace ----------------------------
(***************************************************************************)
(* The registry under concurrent requests.  FastAPI runs every synchronous *)
(* handler in a thread pool and each repository call opens its own session *)
(* and commits by itself, so a handler is a series of transactions:        *)
(*                                                                         *)
(*   read the row and check it  ->  read what else it needs  ->  write     *)
(*                                                                         *)
(* and the write (SqlAgentRepo.update, SqlSkillRepo.update) overwrites     *)
(* every column with the copy taken at the read.  A worker is one request  *)
(* in flight; job[w] holds what its handler keeps in local variables.  One *)
(* repository transaction is one step; consecutive reads of the rows of    *)
(* all skills of an agent are one step too.                                *)
(*                                                                         *)
(* With one worker this implements Governance.tla (SerialRefinement).      *)
(***************************************************************************)
EXTENDS ItemLifecycle

CONSTANTS Seeded, SeedLinks, SeedOwner, SeedText, MaxVersion,  \* as in Governance
          Workers       \* requests in flight at once: threads of the pool

ASSUME SeedAssumption ==
  /\ Seeded \subseteq Items
  /\ SeedLinks \subseteq (Agents \cap Seeded) \X (Skills \cap Seeded)
  /\ \A a \in Agents \cap Seeded : \E s \in Skills : <<a, s>> \in SeedLinks
  /\ SeedOwner \in Users
  /\ \A i \in Seeded : SeedText \in [Fields -> ValidIn[i]]
  /\ \A a, b \in Agents \cap Seeded : Slug[a] = Slug[b] => a = b
  /\ MaxVersion \in Nat

VARIABLES row, links, published,   \* as in Governance
          job                      \* local variables of each request

vars == <<row, links, published, job>>

Ops == {"create", "attach", "update", "submit", "submitAll", "retract",
        "approve", "reject", "delete", "purge", "login"}
\* The operations whose write is repo.update.
SaveOps == {"update", "submit", "submitAll", "retract", "approve", "reject"}

\* read: the item has been read, more checks follow.  ready: only the write is
\* left.  list, loop: the second half of the chat's submit.
StepNames == {"read", "ready", "list", "loop"}

Idle == [step |-> "idle", op |-> "none", user |-> Nobody, item |-> Nobody,
         copy |-> Absent, rest |-> {}]
Jobs == [step : StepNames, op : Ops, user : Users,
         item : Items \cup {Nobody}, copy : Row, rest : SUBSET (Skills \cup Guests)]

SkillsOf(a) == {s \in Skills : <<a, s>> \in links}
UsersOfSkill(s) == {a \in Agents : <<a, s>> \in links}
Exclusive(a) ==
  {s \in SkillsOf(a) : row[s].status = "private" /\ UsersOfSkill(s) = {a}}
SlugFree(a) == \A b \in Agents : Exists(row[b]) => Slug[b] # Slug[a]

Init ==
  /\ row = [i \in Items |->
              IF i \in Seeded THEN SeededRow(SeedOwner, SeedText) ELSE Absent]
  /\ links = SeedLinks
  /\ published = [i \in Items |-> IF i \in Seeded THEN {SeedText} ELSE {}]
  /\ job = [w \in Workers |-> Idle]

-----------------------------------------------------------------------------
(* First transaction of each handler: read the item, check, copy *)

Begin(w, op, u, i, copy, rest, step) ==
  /\ job[w] = Idle
  /\ job' = [job EXCEPT ![w] = [step |-> step, op |-> op, user |-> u, item |-> i,
                                copy |-> copy, rest |-> rest]]
  /\ UNCHANGED <<row, links, published>>

\* An agent's handler has more to check, a skill's goes straight to its write.
NextCheck(i) == IF i \in Agents THEN "read" ELSE "ready"

BeginCreate(w, u, i, text, vis) ==
  /\ ~Exists(row[i])
  /\ Passes(i, text)
  /\ i \in Skills => vis = "company"
  /\ Begin(w, "create", u, i, Created(u, text, vis), {}, NextCheck(i))

BeginAttach(w, u, a, s) ==
  /\ Exists(row[a]) /\ CanEdit(row[a], u)
  /\ Begin(w, "attach", u, a, row[a], {s}, "read")

BeginUpdate(w, u, i, e) ==
  /\ LoggedIn(u)
  /\ Exists(row[i]) /\ CanUpdate(row[i], u)
  /\ i \in Skills => e.visibility = Keep
  /\ AcceptsEdit(i, row[i], e)
  /\ Begin(w, "update", u, i, Proposed(row[i], e), {}, "ready")

AcceptsSubmitBy(u, i) ==
  LoggedIn(u) /\ Exists(row[i]) /\ CanEdit(row[i], u) /\ AcceptsSubmit(i, row[i])

BeginSubmit(w, u, i) ==
  /\ AcceptsSubmitBy(u, i)
  /\ Begin(w, "submit", u, i, Submitted(row[i]), {}, NextCheck(i))

BeginSubmitAll(w, u, a) ==
  /\ AcceptsSubmitBy(u, a)
  /\ Begin(w, "submitAll", u, a, Submitted(row[a]), {}, "read")

BeginRetract(w, u, a) ==
  /\ LoggedIn(u)
  /\ CanEdit(row[a], u)
  /\ row[a].status = "pending_review"
  /\ Begin(w, "retract", u, a, Retracted(row[a]), {}, "ready")

BeginApprove(w, u, i) ==
  /\ IsAdmin(u)
  /\ Reviewable(row[i])
  /\ row[i].version < MaxVersion
  /\ Begin(w, "approve", u, i, Approved(i, row[i]), {},
           IF row[i].status = "pending_review" THEN NextCheck(i) ELSE "ready")

BeginReject(w, u, i) ==
  /\ IsAdmin(u)
  /\ Reviewable(row[i])
  /\ Begin(w, "reject", u, i, Rejected(row[i]), {}, "ready")

BeginDeleteFromChat(w, u, a) ==
  /\ LoggedIn(u)
  /\ CanEdit(row[a], u)
  /\ row[a].status \in {"private", "rejected"}
  /\ Begin(w, "delete", u, a, row[a], {}, "ready")

MayDelete(u, r) ==
  /\ CanEdit(r, u)
  /\ IsAdmin(u) \/ r.status \in {"private", "rejected"}
BeginDeleteAgent(w, u, a) ==
  /\ LoggedIn(u)
  /\ Exists(row[a])
  /\ MayDelete(u, row[a])
  /\ Begin(w, "delete", u, a, row[a], {}, "read")

-----------------------------------------------------------------------------
(* Further reads, between the first read and the write *)

\* The next step when the check holds, an error answer otherwise.
Check(w, op, ok, rest) ==
  /\ job[w].op = op /\ job[w].step = "read"
  /\ job' = [job EXCEPT ![w] =
               IF ok THEN [@ EXCEPT !.step = "ready", !.rest = rest] ELSE Idle]
  /\ UNCHANGED <<row, links, published>>

CheckSlug(w) == Check(w, "create", SlugFree(job[w].item), {})

MayAttach(u, s) == row[s].status = "public" \/ CanEdit(row[s], u)
CheckAttach(w) ==
  Check(w, "attach",
        \A s \in job[w].rest : Exists(row[s]) /\ MayAttach(job[w].user, s),
        job[w].rest)

CheckHasSkill(w) ==
  \E op \in {"submit", "submitAll"} :
    Check(w, op, SkillsOf(job[w].item) # {}, {})

\* Mutant: approve only asks that the attached skills exist.
SkillsExist(a) == \A s \in SkillsOf(a) : Exists(row[s])

SkillsReady(a) == \A s \in SkillsOf(a) : row[s].status = "public"
CheckSkills(w) == Check(w, "approve", SkillsReady(job[w].item), {})

ScanExclusive(w) == Check(w, "delete", TRUE, Exclusive(job[w].item))

-----------------------------------------------------------------------------
(* Writes *)

Ready(w, ops) == job[w].step = "ready" /\ job[w].op \in ops

\* repo.create: the primary key and the unique slug make a late insert fail.
Insert(w) ==
  LET i == job[w].item IN
  /\ Ready(w, {"create"})
  /\ IF Exists(row[i]) \/ (i \in Agents /\ ~SlugFree(i))
       THEN UNCHANGED row
       ELSE row' = [row EXCEPT ![i] = job[w].copy]
  /\ job' = [job EXCEPT ![w] = Idle]
  /\ UNCHANGED <<links, published>>

\* Mutant: the columns of the link are swapped.
InsertLinkSwapped(w) ==
  /\ Ready(w, {"attach"})
  /\ links' = links \cup (job[w].rest \X {job[w].item})
  /\ job' = [job EXCEPT ![w] = Idle]
  /\ UNCHANGED <<row, published>>

InsertLink(w) ==
  /\ Ready(w, {"attach"})
  /\ links' = links \cup ({job[w].item} \X job[w].rest)
  /\ job' = [job EXCEPT ![w] = Idle]
  /\ UNCHANGED <<row, published>>

\* What follows a write: the chat's submit goes on to the attached skills.
AfterSave(j) ==
  IF j.op # "submitAll" THEN Idle
  ELSE IF j.item \in Agents THEN [j EXCEPT !.step = "list", !.copy = Absent]
  ELSE IF j.rest # {} THEN [j EXCEPT !.step = "loop", !.item = Nobody, !.copy = Absent]
  ELSE Idle

\* Mutant: the UPDATE names only the governance columns, the text columns keep
\* what the row holds by now.
OverwriteStatus(r, copy) ==
  [r EXCEPT !.status = copy.status, !.visibility = copy.visibility,
            !.pending = copy.pending, !.version = copy.version]

\* Mutant: queueing an edit updates the pending_changes column alone.
OverwriteQueueOnly(r, copy) ==
  IF copy.pending # NoEdit THEN [r EXCEPT !.pending = copy.pending] ELSE copy

\* _agent_to_row, _skill_to_row: every column is set from the copy.
Overwrite(r, copy) == copy

\* Mutant: update inserts the row when it is gone.
SaveOrInsert(w) ==
  LET i == job[w].item IN
  /\ Ready(w, SaveOps)
  /\ row' = [row EXCEPT ![i] = job[w].copy]
  /\ published' = IF job[w].op = "approve"
                    THEN [published EXCEPT ![i] = @ \cup {job[w].copy.text}]
                    ELSE published
  /\ job' = [job EXCEPT ![w] = AfterSave(@)]
  /\ UNCHANGED links

\* repo.update: KeyError if the row is gone, otherwise it is overwritten.
Save(w) ==
  LET i == job[w].item IN
  /\ Ready(w, SaveOps)
  /\ IF Exists(row[i])
       THEN /\ row' = [row EXCEPT ![i] = Overwrite(@, job[w].copy)]
            /\ published' = IF job[w].op = "approve"
                              THEN [published EXCEPT ![i] = @ \cup {job[w].copy.text}]
                              ELSE published
            /\ job' = [job EXCEPT ![w] = AfterSave(@)]
       ELSE /\ UNCHANGED <<row, published>>
            /\ job' = [job EXCEPT ![w] = Idle]
  /\ UNCHANGED links

ListPrivateSkills(w) ==
  LET j == job[w]
      private == {s \in SkillsOf(j.item) : row[s].status = "private"}
  IN
  /\ j.step = "list"
  /\ job' = [job EXCEPT ![w] =
               IF private = {} THEN Idle
               ELSE [j EXCEPT !.step = "loop", !.item = Nobody, !.rest = private]]
  /\ UNCHANGED <<row, links, published>>

\* submit_for_review("skill", sn, ...); a GovernanceError is swallowed.
ReadSkill(w, s) ==
  LET j == job[w] IN
  /\ j.step = "loop" /\ s \in j.rest
  /\ job' = [job EXCEPT ![w] =
               IF AcceptsSubmitBy(j.user, s)
                 THEN [j EXCEPT !.step = "ready", !.item = s, !.rest = @ \ {s},
                                !.copy = Submitted(row[s])]
               ELSE IF j.rest = {s} THEN Idle
               ELSE [j EXCEPT !.rest = @ \ {s}]]
  /\ UNCHANGED <<row, links, published>>

\* SqlAgentRepo.delete: one transaction, which also takes the agent's messages and
\* sidebar rows (Conversation!DeleteAgent), its usage and feedback.
DeleteRow(w) ==
  LET a == job[w].item IN
  /\ Ready(w, {"delete"})
  /\ row' = [row EXCEPT ![a] = Absent]
  /\ links' = {l \in links : l[1] # a}
  /\ job' = [job EXCEPT ![w] =
               IF @.rest = {} THEN Idle
               ELSE [@ EXCEPT !.op = "purge", !.item = Nobody, !.copy = Absent]]
  /\ UNCHANGED published

PurgeSkill(w, s) ==
  LET j == job[w] IN
  /\ Ready(w, {"purge"}) /\ s \in j.rest
  /\ row' = [row EXCEPT ![s] = Absent]
  /\ links' = {l \in links : l[2] # s}
  /\ job' = [job EXCEPT ![w] =
               IF j.rest = {s} THEN Idle ELSE [j EXCEPT !.rest = @ \ {s}]]
  /\ UNCHANGED published

\* The rows of S made by guest g, handed to u.
Reowned(S, g, u) ==
  [i \in Items |-> IF i \in S /\ row[i].owner = g THEN [row[i] EXCEPT !.owner = u]
                                                  ELSE row[i]]

\* reassign_guest, then reassign_guest_skills: two transactions.
MoveAgents(w, g, u) ==
  /\ LoggedIn(u)
  /\ \E i \in Items : row[i].owner = g
  /\ job[w] = Idle
  /\ row' = Reowned(Agents, g, u)
  /\ job' = [job EXCEPT ![w] = [Idle EXCEPT !.step = "ready", !.op = "login",
                                            !.user = u, !.rest = {g}]]
  /\ UNCHANGED <<links, published>>

MoveSkills(w, g) ==
  /\ Ready(w, {"login"}) /\ g \in job[w].rest
  /\ row' = Reowned(Skills, g, job[w].user)
  /\ job' = [job EXCEPT ![w] = Idle]
  /\ UNCHANGED <<links, published>>

-----------------------------------------------------------------------------

Start(w, u) ==
  \/ \E i \in Items, t \in [Fields -> Values], v \in Visibilities :
       BeginCreate(w, u, i, t, v)
  \/ \E a \in Agents, s \in Skills : BeginAttach(w, u, a, s)
  \/ \E i \in Items, e \in Edits : BeginUpdate(w, u, i, e)
  \/ \E i \in Items : BeginSubmit(w, u, i)
  \/ \E a \in Agents : BeginSubmitAll(w, u, a)
  \/ \E a \in Agents : BeginRetract(w, u, a)
  \/ \E i \in Items : BeginApprove(w, u, i)
  \/ \E i \in Items : BeginReject(w, u, i)
  \/ \E a \in Agents : BeginDeleteFromChat(w, u, a)
  \/ \E a \in Agents : BeginDeleteAgent(w, u, a)
  \/ \E g \in Guests : MoveAgents(w, g, u)

Continue(w) ==
  \/ CheckSlug(w)
  \/ CheckAttach(w)
  \/ CheckHasSkill(w)
  \/ CheckSkills(w)
  \/ ScanExclusive(w)
  \/ Insert(w)
  \/ InsertLink(w)
  \/ Save(w)
  \/ ListPrivateSkills(w)
  \/ \E s \in Skills : ReadSkill(w, s)
  \/ DeleteRow(w)
  \/ \E s \in Skills : PurgeSkill(w, s)
  \/ \E g \in Guests : MoveSkills(w, g)

Next == \E w \in Workers : (\E u \in Users : Start(w, u)) \/ Continue(w)

Spec == Init /\ [][Next]_vars

-----------------------------------------------------------------------------
(* One worker: requests do not overlap *)

\* What the rows will be once the request in flight has finished the writes
\* that follow its first one.
Finishing(j, i) ==
  IF j.op = "purge" /\ i \in j.rest THEN Absent
  ELSE IF j.op = "login" /\ i \in Skills /\ row[i].owner \in j.rest
    THEN [row[i] EXCEPT !.owner = j.user]
  ELSE IF /\ j.op = "submitAll"
          /\ \/ j.step = "list" /\ i \in SkillsOf(j.item)
             \/ j.step = "loop" /\ i \in j.rest
             \/ j.step = "ready" /\ j.item \in Skills /\ i \in j.rest \cup {j.item}
          /\ AcceptsSubmitBy(j.user, i)
    THEN Submitted(row[i])
  ELSE row[i]

SettledRow ==
  [i \in Items |->
     IF \E w \in Workers : Finishing(job[w], i) # row[i]
       THEN Finishing(job[CHOOSE w \in Workers : Finishing(job[w], i) # row[i]], i)
       ELSE row[i]]

Serial == INSTANCE Governance WITH row <- SettledRow

\* Requests that run one after the other behave as Governance.tla says: the
\* separate transactions of each handler add up to its one action there.
SerialRefinement == Serial!Spec

-----------------------------------------------------------------------------
(* Properties that survive every interleaving *)

TypeOK ==
  /\ row \in [Items -> Row]
  /\ links \subseteq Agents \X Skills
  /\ published \in [Items -> SUBSET [Fields -> Values]]
  /\ job \in [Workers -> Jobs \cup {Idle}]

\* However edits, submissions, rejections, deletions and approvals of one item
\* overlap, a public row serves a text some approval has published under that
\* name: update() writes the whole copy, so a status never lands on the text of
\* another request (storage/sql.py 272-280).
PublishedWasApproved ==
  \A i \in Items : row[i].status = "public" => row[i].text \in published[i]

\* No interleaving leaves a queued edit beside a row that is not public, or one
\* that would publish an invalid text.
QueuedEditsAreSound == \A i \in Items : SoundRow(i, row[i])

\* What a handler holds between its read and its write is fit to be written
\* whatever happens to the row in the meantime: a sound row, and if it would be
\* written as public without an approval, with a text already published.
FitToWrite(j) ==
  /\ j.step \in {"read", "ready"} /\ j.op \in SaveOps \cup {"create"} =>
       /\ j.item \in Items
       /\ Exists(j.copy) /\ SoundRow(j.item, j.copy)
       /\ IF j.op = "approve" THEN j.copy.text \in [Fields -> Values]
          ELSE j.copy.status = "public" => j.copy.text \in published[j.item]
  /\ j.op = "create" => j.copy.status = "private" /\ j.copy.version = 1
  /\ j.step \in {"list", "loop"} => j.op = "submitAll"
  /\ j.op \in {"attach", "delete"} => j.item \in Agents /\ j.rest \subseteq Skills
HeldCopiesAreFit == \A w \in Workers : job[w] # Idle => FitToWrite(job[w])

\* A deleted item never comes back by a request that had read it before: only a
\* create brings a row back, as a fresh private one (the KeyError of update).
DeletedStaysDeleted ==
  [][\A i \in Items :
       ~Exists(row[i]) /\ Exists(row'[i])
         => /\ row'[i].status = "private"
            /\ row'[i].version = 1
            /\ \E w \in Workers : job[w].op = "create" /\ job[w].item = i]_vars

(* A property that does not survive *)

\* The diagram at the head of governance.py, with retract, create and delete.
Diagram ==
  {<<"absent", "private">>, <<"private", "pending_review">>,
   <<"pending_review", "public">>, <<"pending_review", "rejected">>,
   <<"pending_review", "private">>, <<"rejected", "private">>}
  \cup {<<st, "absent">> : st \in Statuses}
StatusFollowsDiagram ==
  [][\A i \in Items :
       row'[i].status # row[i].status
         => <<row[i].status, row'[i].status>> \in Diagram]_vars
=============================================================================
