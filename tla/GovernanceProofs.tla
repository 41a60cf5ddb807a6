---------------------------- MODULE GovernanceProofs ----------------------------
(***************************************************************************)
(* Proofs about Governance.tla, for any agents, skills, users, columns and *)
(* values.                                                                 *)
(*                                                                         *)
(* The argument goes row by row.  StepOnRow reduces the twelve handlers to *)
(* the nine things a request can do to one row (RowStep); the invariants   *)
(* and the action properties then follow from the lemmas of                *)
(* ItemLifecycleProofs about those nine.  RegistryInv is the inductive     *)
(* invariant: PublishedWasApproved and TypeOK alone are not inductive,     *)
(* since an approval publishes the queued edit unvalidated and is right    *)
(* only because the queue is sound.                                        *)
(***************************************************************************)
EXTENDS Governance, ItemLifecycleProofs

RegistryInv == TypeOK /\ PublishedWasApproved /\ QueuedEditsAreSound

Reowned(r, u) == [r EXCEPT !.owner = u]

\* What one request may do to the row of item i.
RowStep(i) ==
  \/ row'[i] = row[i]
  \/ /\ ~Exists(row[i])
     /\ \E u \in Users, t \in [Fields -> Values], v \in Visibilities :
          Passes(i, t) /\ row'[i] = Created(u, t, v)
  \/ \E e \in Edits :
       /\ Exists(row[i]) /\ AcceptsEdit(i, row[i], e)
       /\ row'[i] = Proposed(row[i], e)
  \/ AcceptsSubmit(i, row[i]) /\ row'[i] = Submitted(row[i])
  \/ row[i].status = "pending_review" /\ row'[i] = Retracted(row[i])
  \/ row'[i] = Absent
  \/ /\ Reviewable(row[i])
     /\ row[i].status = "pending_review" /\ i \in Agents => SkillsReady(i)
     /\ row'[i] = Approved(i, row[i])
     /\ row'[i].text \in published'[i]
  \/ Reviewable(row[i]) /\ row'[i] = Rejected(row[i])
  \/ \E u \in Users : row'[i] = Reowned(row[i], u)

LEMMA StepOnRow ==
  ASSUME RegistryInv, Next
  PROVE  /\ \A i \in Items : RowStep(i)
         /\ row' = [i \in Items |-> row'[i]]
<1> USE DEF Items
<1>0. row = [i \in Items |-> row[i]]
  BY DEF RegistryInv, TypeOK
<1>1. ASSUME NEW u \in Users, NEW a \in Agents, NEW t \in [Fields -> Values],
             NEW v \in Visibilities, CreateAgent(u, a, t, v)
      PROVE  /\ \A i \in Items : RowStep(i)
             /\ row' = [i \in Items |-> row'[i]]
  BY <1>0, <1>1 DEF CreateAgent, RowStep
<1>2. ASSUME NEW u \in Users, NEW s \in Skills, NEW t \in [Fields -> Values],
             CreateSkill(u, s, t)
      PROVE  /\ \A i \in Items : RowStep(i)
             /\ row' = [i \in Items |-> row'[i]]
  <2>1. "company" \in Visibilities
    BY DEF Visibilities
  <2> QED BY <1>0, <1>2, <2>1 DEF CreateSkill, RowStep
<1>3. ASSUME NEW u \in Users, NEW a \in Agents, NEW s \in Skills, AttachSkill(u, a, s)
      PROVE  /\ \A i \in Items : RowStep(i)
             /\ row' = [i \in Items |-> row'[i]]
  BY <1>0, <1>3 DEF AttachSkill, RowStep
<1>4. ASSUME NEW u \in Users, NEW j \in Items, NEW e \in Edits, Update(u, j, e)
      PROVE  /\ \A i \in Items : RowStep(i)
             /\ row' = [i \in Items |-> row'[i]]
  BY <1>0, <1>4 DEF Update, RowStep
<1>5. ASSUME NEW u \in Users, NEW j \in Items, Submit(u, j)
      PROVE  /\ \A i \in Items : RowStep(i)
             /\ row' = [i \in Items |-> row'[i]]
  BY <1>0, <1>5 DEF Submit, MaySubmit, RowStep
<1>6. ASSUME NEW u \in Users, NEW a \in Agents, SubmitWithSkills(u, a)
      PROVE  /\ \A i \in Items : RowStep(i)
             /\ row' = [i \in Items |-> row'[i]]
  BY <1>0, <1>6 DEF SubmitWithSkills, MaySubmit, RowStep
<1>7. ASSUME NEW u \in Users, NEW a \in Agents, Retract(u, a)
      PROVE  /\ \A i \in Items : RowStep(i)
             /\ row' = [i \in Items |-> row'[i]]
  BY <1>0, <1>7 DEF Retract, RowStep
<1>8. ASSUME NEW u \in Users, NEW a \in Agents, DeleteFromChat(u, a)
      PROVE  /\ \A i \in Items : RowStep(i)
             /\ row' = [i \in Items |-> row'[i]]
  BY <1>0, <1>8 DEF DeleteFromChat, RowStep
<1>9. ASSUME NEW u \in Users, NEW a \in Agents, DeleteAgent(u, a)
      PROVE  /\ \A i \in Items : RowStep(i)
             /\ row' = [i \in Items |-> row'[i]]
  BY <1>0, <1>9 DEF DeleteAgent, RowStep
<1>10. ASSUME NEW u \in Users, NEW j \in Items, Approve(u, j)
       PROVE  /\ \A i \in Items : RowStep(i)
              /\ row' = [i \in Items |-> row'[i]]
  <2>1. row'[j].text \in published'[j]
    BY <1>10 DEF Approve, RegistryInv, TypeOK
  <2> QED BY <1>0, <1>10, <2>1 DEF Approve, RowStep
<1>11. ASSUME NEW u \in Users, NEW j \in Items, Reject(u, j)
       PROVE  /\ \A i \in Items : RowStep(i)
              /\ row' = [i \in Items |-> row'[i]]
  BY <1>0, <1>11 DEF Reject, RowStep
<1>12. ASSUME NEW g \in Guests, NEW u \in Users, Login(g, u)
       PROVE  /\ \A i \in Items : RowStep(i)
              /\ row' = [i \in Items |-> row'[i]]
  BY <1>0, <1>12 DEF Login, RowStep, Reowned
<1> HIDE DEF Items
<1> QED
  BY <1>1, <1>2, <1>3, <1>4, <1>5, <1>6, <1>7, <1>8, <1>9, <1>10, <1>11, <1>12 DEF Next

\* The other two variables: a link joins an agent and a skill, and the history
\* of published texts only grows, by the text an approval wrote.
LEMMA StepOnLinks ==
  ASSUME RegistryInv, Next
  PROVE  links' \subseteq Agents \X Skills
<1> USE DEF RegistryInv, TypeOK
<1> QED BY DEF Next, CreateAgent, CreateSkill, AttachSkill, Update, Submit,
               SubmitWithSkills, Retract, DeleteFromChat, DeleteAgent, Approve,
               Reject, Login

LEMMA StepOnHistory ==
  ASSUME RegistryInv, Next
  PROVE  /\ published' \in [Items -> SUBSET [Fields -> Values]]
         /\ \A i \in Items : published[i] \subseteq published'[i]
<1>1. ASSUME NEW u \in Users, NEW j \in Items, Approve(u, j)
      PROVE  /\ published' \in [Items -> SUBSET [Fields -> Values]]
             /\ \A i \in Items : published[i] \subseteq published'[i]
  <2>1. row[j] \in Row /\ SoundRow(j, row[j]) /\ Reviewable(row[j])
    BY <1>1 DEF RegistryInv, TypeOK, QueuedEditsAreSound, Approve
  <2>2. row'[j].text \in [Fields -> Values]
    BY <1>1, <2>1, ApprovedSound DEF Approve, RegistryInv, TypeOK
  <2> QED BY <1>1, <2>2 DEF Approve, RegistryInv, TypeOK
<1>2. CASE UNCHANGED published
  BY <1>2 DEF RegistryInv, TypeOK
<1> QED
  BY <1>1, <1>2 DEF Next, CreateAgent, CreateSkill, AttachSkill, Update, Submit,
                    SubmitWithSkills, Retract, DeleteFromChat, DeleteAgent, Reject, Login

-----------------------------------------------------------------------------
(* The inductive invariant *)

LEMMA InitInv == Init => RegistryInv
<1> SUFFICES ASSUME Init PROVE RegistryInv
  OBVIOUS
<1>1. ASSUME NEW i \in Items
      PROVE  /\ row[i] \in Row /\ SoundRow(i, row[i])
             /\ row[i].status = "public" => row[i].text \in published[i]
             /\ published[i] \subseteq [Fields -> Values]
  <2>1. CASE i \in Seeded
    <3>1. row[i] = SeededRow(SeedOwner, SeedText) /\ published[i] = {SeedText}
      BY <1>1, <2>1 DEF Init
    <3>2. SeedOwner \in Users /\ SeedText \in [Fields -> ValidIn[i]]
      BY <2>1, SeedAssumption
    <3> QED BY <1>1, <3>1, <3>2, SeededSound
  <2>2. CASE i \notin Seeded
    <3>1. row[i] = Absent /\ published[i] = {}
      BY <1>1, <2>2 DEF Init
    <3> QED BY <1>1, <3>1, NoEditType, AbsentSound DEF Absent
  <2> QED BY <2>1, <2>2
<1>2. links \subseteq Agents \X Skills
  BY SeedAssumption DEF Init
<1> QED
  BY <1>1, <1>2 DEF RegistryInv, TypeOK, PublishedWasApproved, QueuedEditsAreSound, Init

\* One row keeps its type and its soundness, and serves a published text.
LEMMA RowKept ==
  ASSUME RegistryInv, Next, NEW i \in Items
  PROVE  /\ row'[i] \in Row
         /\ SoundRow(i, row'[i])
         /\ row'[i].status = "public" => row'[i].text \in published'[i]
<1>1. /\ row[i] \in Row /\ SoundRow(i, row[i])
      /\ row[i].status = "public" => row[i].text \in published'[i]
  BY StepOnHistory DEF RegistryInv, TypeOK, PublishedWasApproved, QueuedEditsAreSound
<1>2. RowStep(i)
  BY StepOnRow
<1>3. CASE row'[i] = row[i]
  BY <1>1, <1>3
<1>4. ASSUME NEW u \in Users, NEW t \in [Fields -> Values], NEW v \in Visibilities,
             Passes(i, t), row'[i] = Created(u, t, v)
      PROVE  row'[i] \in Row /\ SoundRow(i, row'[i]) /\ row'[i].status = "private"
  <2>1. t \in Text
    BY DEF Text
  <2> QED BY <1>4, <2>1, CreatedSound
<1>5. ASSUME NEW e \in Edits, Exists(row[i]), AcceptsEdit(i, row[i], e),
             row'[i] = Proposed(row[i], e)
      PROVE  /\ row'[i] \in Row /\ SoundRow(i, row'[i])
             /\ row'[i].status = "public" =>
                  row[i].status = "public" /\ row'[i].text = row[i].text
  BY <1>1, <1>5, ProposedSound
<1>6. CASE AcceptsSubmit(i, row[i]) /\ row'[i] = Submitted(row[i])
  BY <1>1, <1>6, SubmittedSound
<1>7. CASE row[i].status = "pending_review" /\ row'[i] = Retracted(row[i])
  BY <1>1, <1>7, RetractedSound
<1>8. CASE row'[i] = Absent
  BY <1>8, NoEditType, AbsentSound DEF Absent
<1>9. CASE /\ Reviewable(row[i]) /\ row'[i] = Approved(i, row[i])
           /\ row'[i].text \in published'[i]
  BY <1>1, <1>9, ApprovedSound
<1>10. CASE Reviewable(row[i]) /\ row'[i] = Rejected(row[i])
  BY <1>1, <1>10, RejectedSound
<1>11. ASSUME NEW u \in Users, row'[i] = Reowned(row[i], u)
       PROVE  /\ row'[i] \in Row /\ SoundRow(i, row'[i])
              /\ row'[i].status = row[i].status /\ row'[i].text = row[i].text
  BY <1>1, <1>11, ReownedSound DEF Reowned
<1> QED
  BY <1>1, <1>2, <1>3, <1>4, <1>5, <1>6, <1>7, <1>8, <1>9, <1>10, <1>11 DEF RowStep

LEMMA NextInv == RegistryInv /\ [Next]_vars => RegistryInv'
<1>1. ASSUME RegistryInv, Next PROVE RegistryInv'
  BY <1>1, StepOnRow, StepOnLinks, StepOnHistory, RowKept
  DEF RegistryInv, TypeOK, PublishedWasApproved, QueuedEditsAreSound
<1>2. ASSUME RegistryInv, UNCHANGED vars PROVE RegistryInv'
  BY <1>2 DEF RegistryInv, TypeOK, PublishedWasApproved, QueuedEditsAreSound, vars
<1> QED BY <1>1, <1>2

LEMMA InvHolds == Spec => []RegistryInv
BY InitInv, NextInv, PTL DEF Spec

\* The stored tables keep their types: approve() in particular never writes a
\* text that validation refused.
THEOREM TypeCorrect == Spec => []TypeOK
<1>1. RegistryInv => TypeOK
  BY DEF RegistryInv
<1> QED BY <1>1, InvHolds, PTL

\* A public row serves a text some approval published.
THEOREM PublishedTextWasApproved == Spec => []PublishedWasApproved
<1>1. RegistryInv => PublishedWasApproved
  BY DEF RegistryInv
<1> QED BY <1>1, InvHolds, PTL

\* pending_changes is empty beside a row that is not public, and what it holds
\* validates when it is applied.
THEOREM QueueIsSound == Spec => []QueuedEditsAreSound
<1>1. RegistryInv => QueuedEditsAreSound
  BY DEF RegistryInv
<1> QED BY <1>1, InvHolds, PTL

-----------------------------------------------------------------------------
(* Links: deletion *)

LEMMA ExistenceKept ==
  ASSUME NEW i \in Items, NEW r \in Row
  PROVE  /\ \A u, t, v : Exists(Created(u, t, v))
         /\ \A e \in Edits : Exists(Proposed(r, e))
         /\ Exists(Submitted(r)) /\ Exists(Retracted(r))
         /\ Exists(Approved(i, r)) /\ Exists(Rejected(r))
         /\ \A u \in Users : Exists(r) => Exists(Reowned(r, u))
<1>1. \A u, t, v : Created(u, t, v).status = "private"
  BY DEF Created, Absent
<1>2. /\ \A e \in Edits : Proposed(r, e).status \in {"public", "private"}
      /\ Submitted(r).status = "pending_review" /\ Retracted(r).status = "private"
      /\ Approved(i, r).status = "public"
      /\ Rejected(r).status \in {"public", "rejected"}
      /\ \A u \in Users : Reowned(r, u).status = r.status
  BY DEF Proposed, Submitted, Retracted, Approved, HasQueuedEdit, Rejected, Reowned, Row
<1> QED BY <1>1, <1>2 DEF Exists

LEMMA LinksResolveStep == RegistryInv /\ LinksResolve /\ [Next]_vars => LinksResolve'
<1> SUFFICES ASSUME RegistryInv, LinksResolve, [Next]_vars PROVE LinksResolve'
  OBVIOUS
<1> USE DEF RegistryInv, TypeOK, LinksResolve
<1>0. \A l \in links : l[1] \in Items /\ l[2] \in Items
  BY DEF Items
<1>2. ASSUME NEW u \in Users, NEW a \in Agents, NEW s \in Skills, AttachSkill(u, a, s)
      PROVE  LinksResolve'
  BY <1>2 DEF AttachSkill
<1>3. ASSUME NEW u \in Users, NEW a \in Agents, DeleteFromChat(u, a)
      PROVE  LinksResolve'
  <2>1. \A l \in links : l[2] # a /\ l[1] \in Agents
    BY NamesAssumption
  <2> QED BY <1>0, <1>3, <2>1 DEF DeleteFromChat
<1>4. ASSUME NEW u \in Users, NEW a \in Agents, DeleteAgent(u, a)
      PROVE  LinksResolve'
  <2>1. \A l \in links : l[2] # a /\ l[1] \notin Exclusive(a)
    BY NamesAssumption DEF Exclusive, SkillsOf
  <2>2. ASSUME NEW l \in links'
        PROVE  Exists(row[l[1]]) /\ Exists(row[l[2]])
               /\ row'[l[1]] = row[l[1]] /\ row'[l[2]] = row[l[2]]
    BY <1>0, <1>4, <2>1, <2>2 DEF DeleteAgent
  <2> QED BY <2>2
<1>5. ASSUME NEW j \in Items, NEW n, row' = [row EXCEPT ![j] = n], Exists(n), links' = links
      PROVE  LinksResolve'
  BY <1>0, <1>5
<1>6. ASSUME NEW u \in Users, NEW a \in Agents, SubmitWithSkills(u, a) PROVE LinksResolve'
  <2>1. \A i \in Items : Exists(row[i]) => Exists(row'[i])
    BY <1>6, ExistenceKept DEF SubmitWithSkills
  <2> QED BY <1>0, <1>6, <2>1 DEF SubmitWithSkills
<1>7. ASSUME NEW g \in Guests, NEW u \in Users, Login(g, u) PROVE LinksResolve'
  <2>1. \A i \in Items : Exists(row[i]) => Exists(row'[i])
    BY <1>7, ExistenceKept DEF Login, Reowned
  <2> QED BY <1>0, <1>7, <2>1 DEF Login
<1>8. ASSUME NEW u \in Users, NEW j \in Items,
             \/ \E t \in [Fields -> Values], v \in Visibilities :
                  j \in Agents /\ CreateAgent(u, j, t, v)
             \/ \E t \in [Fields -> Values] : j \in Skills /\ CreateSkill(u, j, t)
      PROVE  LinksResolve'
  BY <1>5, <1>8, ExistenceKept DEF CreateAgent, CreateSkill
<1>9. ASSUME NEW u \in Users, NEW j \in Items,
             \/ \E e \in Edits : Update(u, j, e)
             \/ Submit(u, j)
             \/ j \in Agents /\ Retract(u, j)
             \/ Approve(u, j)
             \/ Reject(u, j)
      PROVE  LinksResolve'
  <2>1. row[j] \in Row
    OBVIOUS
  <2> QED BY <1>5, <1>9, <2>1, ExistenceKept DEF Update, Submit, Retract, Approve, Reject
<1>10. CASE UNCHANGED vars
  BY <1>10 DEF vars
<1> QED
  BY <1>2, <1>3, <1>4, <1>6, <1>7, <1>8, <1>9, <1>10 DEF Next, Items

\* No row of agent_skills names a missing agent or skill: both ways to delete
\* remove the links of everything they delete.
THEOREM NoDanglingLink == Spec => []LinksResolve
<1>1. Init => LinksResolve
  <2>1. Exists(SeededRow(SeedOwner, SeedText))
    BY DEF SeededRow, Created, Absent, Exists
  <2> QED BY <2>1, SeedAssumption DEF Init, LinksResolve, Items
<1> QED BY <1>1, InvHolds, LinksResolveStep, PTL DEF Spec

-----------------------------------------------------------------------------
(* Agents under review or in service keep a skill *)

Reviewed(r) == r.status \in {"pending_review", "public"}

\* An agent comes under review only by a submit.
LEMMA BecomesReviewed ==
  ASSUME RegistryInv, Next, NEW a \in Agents, Reviewed(row'[a]), ~Reviewed(row[a])
  PROVE  row'[a] = Submitted(row[a]) /\ row[a].status = "private"
<1>1. row[a] \in Row /\ a \in Items
  BY DEF RegistryInv, TypeOK, Items
<1>2. RowStep(a)
  BY <1>1, StepOnRow
<1>3. \A u, t, v : ~Reviewed(Created(u, t, v))
  BY DEF Reviewed, Created, Absent
<1>4. \A e \in Edits : Reviewed(Proposed(row[a], e)) => Reviewed(row[a])
  BY <1>1 DEF Reviewed, Proposed, Row
<1>5. ~Reviewed(Retracted(row[a])) /\ ~Reviewed(Absent)
  BY <1>1 DEF Reviewed, Retracted, Absent, Row
<1>6. Reviewable(row[a]) => Reviewed(row[a])
  BY DEF Reviewed, Reviewable, HasQueuedEdit
<1>7. \A u \in Users : Reviewed(Reowned(row[a], u)) => Reviewed(row[a])
  BY <1>1 DEF Reviewed, Reowned, Row
<1> QED
  BY <1>2, <1>3, <1>4, <1>5, <1>6, <1>7 DEF RowStep, AcceptsSubmit

LEMMA ReviewedSkillsStep ==
  RegistryInv /\ ReviewedAgentHasSkills /\ [Next]_vars => ReviewedAgentHasSkills'
<1> SUFFICES ASSUME RegistryInv, ReviewedAgentHasSkills, [Next]_vars,
                    NEW a \in Agents, Reviewed(row'[a])
             PROVE  SkillsOf(a)' # {}
  BY DEF ReviewedAgentHasSkills, Reviewed
<1>1. CASE UNCHANGED vars
  BY <1>1 DEF vars, ReviewedAgentHasSkills, Reviewed, SkillsOf
<1> SUFFICES ASSUME Next PROVE SkillsOf(a)' # {}
  BY <1>1
<1>2. Reviewed(row[a]) \/ (row'[a] = Submitted(row[a]) /\ row[a].status = "private")
  BY BecomesReviewed
<1>3. Reviewed(row[a]) => SkillsOf(a) # {}
  BY DEF ReviewedAgentHasSkills, Reviewed
<1>4. a \in Items /\ a \notin Skills
  BY NamesAssumption DEF Items
<1>5. row[a].status = "private" => row'[a].status = "pending_review" \/ Reviewed(row[a])
  BY <1>2, <1>4 DEF Submitted, RegistryInv, TypeOK, Row
<1>6. ASSUME NEW u \in Users, NEW b \in Agents, DeleteFromChat(u, b)
      PROVE  SkillsOf(a)' # {}
  <2>1. a # b /\ row'[a] = row[a]
    BY <1>4, <1>6 DEF DeleteFromChat, RegistryInv, TypeOK, Reviewed, Absent
  <2>2. PICK s \in Skills : <<a, s>> \in links
    BY <1>3, <2>1 DEF SkillsOf
  <2>3. <<a, s>> \in links'
    BY <1>6, <2>1, <2>2 DEF DeleteFromChat
  <2> QED BY <2>3 DEF SkillsOf
<1>7. ASSUME NEW u \in Users, NEW b \in Agents, DeleteAgent(u, b)
      PROVE  SkillsOf(a)' # {}
  <2>1. a # b
    BY <1>4, <1>7 DEF DeleteAgent, Reviewed, Absent
  <2>2. row'[a] = row[a]
    BY <1>4, <1>7, <2>1 DEF DeleteAgent, Exclusive, SkillsOf
  <2>3. PICK s \in Skills : <<a, s>> \in links
    BY <1>3, <2>2 DEF SkillsOf
  \* A skill of a is not exclusive to b.
  <2>4. s \notin Exclusive(b)
    BY <2>1, <2>3 DEF Exclusive, UsersOfSkill
  <2>5. <<a, s>> \in links'
    BY <1>7, <2>1, <2>3, <2>4 DEF DeleteAgent
  <2> QED BY <2>5 DEF SkillsOf
<1>8. ASSUME links \subseteq links', Reviewed(row[a]) \/ SkillsOf(a) # {}
      PROVE  SkillsOf(a)' # {}
  BY <1>3, <1>8 DEF SkillsOf
<1>9. ASSUME NEW u \in Users, NEW j \in Items, Submit(u, j) PROVE SkillsOf(a)' # {}
  <2>1. Reviewed(row[a]) \/ j = a
    BY <1>4, <1>9 DEF Submit, RegistryInv, TypeOK
  <2> QED BY <1>8, <1>9, <2>1 DEF Submit, MaySubmit
<1>10. ASSUME NEW u \in Users, NEW b \in Agents, SubmitWithSkills(u, b)
       PROVE  SkillsOf(a)' # {}
  <2>1. Reviewed(row[a]) \/ b = a
    BY <1>4, <1>10 DEF SubmitWithSkills, SkillsOf
  <2> QED BY <1>4, <1>8, <1>10, <2>1 DEF SubmitWithSkills, MaySubmit
<1>11. ASSUME NEW u \in Users, NEW b \in Agents, NEW t \in [Fields -> Values],
              NEW v \in Visibilities, CreateAgent(u, b, t, v)
       PROVE  SkillsOf(a)' # {}
  <2>1. \/ row'[a] = row[a]
        \/ row'[a].status = "private"
    BY <1>4, <1>11 DEF CreateAgent, RegistryInv, TypeOK, Created, Absent
  <2> QED BY <1>8, <1>11, <2>1 DEF CreateAgent, Reviewed
<1>12. ASSUME NEW u \in Users,
              \/ \E b \in Agents, s \in Skills : AttachSkill(u, b, s)
              \/ \E s \in Skills, t \in [Fields -> Values] : CreateSkill(u, s, t)
       PROVE  SkillsOf(a)' # {}
  <2>1. row'[a] = row[a] /\ links \subseteq links'
    BY <1>4, <1>12 DEF AttachSkill, CreateSkill, RegistryInv, TypeOK
  <2> QED BY <1>8, <2>1
<1>13. ASSUME NEW u \in Users, NEW j \in Items,
              \/ \E e \in Edits : Update(u, j, e)
              \/ j \in Agents /\ Retract(u, j)
              \/ Approve(u, j)
              \/ Reject(u, j)
       PROVE  SkillsOf(a)' # {}
  <2>1. links' = links /\ (row'[a] = row[a] \/ j = a)
    BY <1>4, <1>13 DEF Update, Retract, Approve, Reject, RegistryInv, TypeOK
  <2>2. CASE Reviewed(row[a])
    BY <1>8, <2>1, <2>2
  <2>3. CASE ~Reviewed(row[a])
    <3>1. /\ j = a /\ row[a] \in Row
          /\ row'[a].status = "pending_review" /\ row[a].status = "private"
      BY <1>2, <1>5, <2>1, <2>3 DEF RegistryInv, TypeOK, Items
    <3>2. \A e \in Edits : Proposed(row[a], e).status # "pending_review"
      BY <3>1 DEF Proposed, Row
    <3> QED
      BY <1>13, <3>1, <3>2 DEF Update, Retract, Approve, Reject, Reviewable,
                               HasQueuedEdit, RegistryInv, TypeOK
  <2> QED BY <2>2, <2>3
<1>14. ASSUME NEW g \in Guests, NEW u \in Users, Login(g, u) PROVE SkillsOf(a)' # {}
  <2>1. Reviewed(row[a])
    BY <1>4, <1>14 DEF Login, RegistryInv, TypeOK, Reviewed, Row
  <2> QED BY <1>8, <1>14, <2>1 DEF Login
<1> QED
  BY <1>6, <1>7, <1>9, <1>10, <1>11, <1>12, <1>13, <1>14 DEF Next, Items

\* An agent under review or in service has a skill: neither way to delete takes
\* the last skill of another agent.
THEOREM ReviewedKeepsSkills == Spec => []ReviewedAgentHasSkills
<1>1. Init => ReviewedAgentHasSkills
  <2>1. ASSUME Init, NEW a \in Agents, Reviewed(row[a]) PROVE SkillsOf(a) # {}
    <3>1. a \in Agents \cap Seeded
      BY <2>1 DEF Init, Items, Absent, Reviewed
    <3>2. PICK s \in Skills : <<a, s>> \in SeedLinks
      BY <3>1, SeedAssumption
    <3> QED BY <2>1, <3>2 DEF Init, SkillsOf
  <2> QED BY <2>1 DEF ReviewedAgentHasSkills, Reviewed
<1> QED BY <1>1, InvHolds, ReviewedSkillsStep, PTL DEF Spec

-----------------------------------------------------------------------------
(* Action properties, row by row *)

LEMMA StatusStep ==
  ASSUME RegistryInv, Next, NEW i \in Items, row'[i].status # row[i].status
  PROVE  <<row[i].status, row'[i].status>> \in Diagram
<1>1. row[i] \in Row /\ row[i].status \in Statuses /\ SoundRow(i, row[i])
  BY DEF RegistryInv, TypeOK, QueuedEditsAreSound, Row
<1>2. RowStep(i)
  BY StepOnRow
<1>3. ASSUME ~Exists(row[i]), NEW u \in Users, NEW t, NEW v, row'[i] = Created(u, t, v)
      PROVE  row[i].status = "absent" /\ row'[i].status = "private"
  BY <1>3 DEF Exists, Created, Absent
<1>4. ASSUME NEW e \in Edits, Exists(row[i]), AcceptsEdit(i, row[i], e),
             row'[i] = Proposed(row[i], e)
      PROVE  row[i].status = "rejected" /\ row'[i].status = "private"
  BY <1>1, <1>4 DEF Exists, AcceptsEdit, Proposed, Row, Statuses
<1>5. ASSUME AcceptsSubmit(i, row[i]), row'[i] = Submitted(row[i])
      PROVE  row[i].status = "private" /\ row'[i].status = "pending_review"
  BY <1>1, <1>5, SubmittedSound DEF AcceptsSubmit
<1>6. CASE row[i].status = "pending_review" /\ row'[i] = Retracted(row[i])
  BY <1>1, <1>6, RetractedSound DEF Diagram
<1>7. CASE row'[i] = Absent
  BY <1>1, <1>7 DEF Absent, Diagram
<1>8. ASSUME Reviewable(row[i]), row'[i] = Approved(i, row[i])
      PROVE  row[i].status = "pending_review" /\ row'[i].status = "public"
  BY <1>1, <1>8, ApprovedSound DEF Reviewable, HasQueuedEdit
<1>9. ASSUME Reviewable(row[i]), row'[i] = Rejected(row[i])
      PROVE  row[i].status = "pending_review" /\ row'[i].status = "rejected"
  BY <1>1, <1>9 DEF Reviewable, HasQueuedEdit, Rejected, Row
<1>10. \A u \in Users : row'[i] # Reowned(row[i], u)
  BY <1>1 DEF Reowned, Row
<1> QED
  BY <1>2, <1>3, <1>4, <1>5, <1>6, <1>7, <1>8, <1>9, <1>10 DEF RowStep, Diagram

\* Run one at a time, the handlers move the status column only along the
\* documented diagram.
THEOREM StatusIsDisciplined == Spec => StatusFollowsDiagram
<1>1. RegistryInv /\ [Next]_vars =>
        [\A i \in Items : row'[i].status # row[i].status
           => <<row[i].status, row'[i].status>> \in Diagram]_vars
  BY StatusStep DEF vars
<1> QED BY <1>1, InvHolds, PTL DEF Spec, StatusFollowsDiagram

LEMMA EntryStep ==
  ASSUME RegistryInv, Next, NEW a \in Agents,
         row[a].status # "public", row'[a].status = "public"
  PROVE  SkillsReady(a)
<1>1. row[a] \in Row /\ a \in Items /\ SoundRow(a, row[a])
  BY DEF RegistryInv, TypeOK, QueuedEditsAreSound, Items
<1>2. RowStep(a)
  BY <1>1, StepOnRow
<1>3. \A u, t, v : Created(u, t, v).status = "private"
  BY DEF Created, Absent
<1>4. \A e \in Edits : Proposed(row[a], e).status # "public"
  BY <1>1 DEF Proposed, Row
<1>5. /\ Submitted(row[a]).status # "public" /\ Retracted(row[a]).status # "public"
      /\ Absent.status # "public"
      /\ \A u \in Users : Reowned(row[a], u).status # "public"
      /\ Reviewable(row[a]) => Rejected(row[a]).status # "public"
  BY <1>1 DEF Submitted, Retracted, Absent, Reowned, Rejected, Reviewable, HasQueuedEdit, Row
<1>6. Reviewable(row[a]) => row[a].status = "pending_review"
  BY DEF Reviewable, HasQueuedEdit
<1> QED BY <1>2, <1>3, <1>4, <1>5, <1>6 DEF RowStep

\* An agent enters service only when every attached skill is in service.
THEOREM AgentsEnterWithPublicSkills == Spec => SkillsPublicAtApproval
<1>1. RegistryInv /\ [Next]_vars =>
        [\A a \in Agents : row[a].status # "public" /\ row'[a].status = "public"
           => \A s \in SkillsOf(a) : row[s].status = "public"]_vars
  BY EntryStep DEF vars, SkillsReady
<1> QED BY <1>1, InvHolds, PTL DEF Spec, SkillsPublicAtApproval

LEMMA VersionStep ==
  ASSUME RegistryInv, Next, NEW s \in Skills,
         row[s].status = "public", row'[s].status = "public"
  PROVE  /\ row'[s].version >= row[s].version
         /\ row'[s].text # row[s].text => row'[s].version > row[s].version
<1>1. row[s] \in Row /\ s \in Items /\ row[s].version \in Nat /\ Exists(row[s])
  BY DEF RegistryInv, TypeOK, Items, Row, Exists
<1>2. RowStep(s)
  BY <1>1, StepOnRow
<1>3. \A e \in Edits : /\ Proposed(row[s], e).text = row[s].text
                       /\ Proposed(row[s], e).version = row[s].version
  BY <1>1 DEF Proposed, Row
<1>4. \/ row'[s].text = row[s].text /\ row'[s].version = row[s].version
      \/ row'[s].version = row[s].version + 1
  <2>1. row'[s] # Absent /\ ~AcceptsSubmit(s, row[s])
    BY DEF Absent, AcceptsSubmit
  <2>2. Rejected(row[s]).text = row[s].text /\ Rejected(row[s]).version = row[s].version
    BY <1>1 DEF Rejected, Row
  <2>3. Reviewable(row[s]) => Approved(s, row[s]).version = row[s].version + 1
    BY <1>1 DEF Approved, Reviewable, HasQueuedEdit, Row
  <2>4. \A u \in Users : /\ Reowned(row[s], u).text = row[s].text
                         /\ Reowned(row[s], u).version = row[s].version
    BY <1>1 DEF Reowned, Row
  <2> QED BY <1>1, <1>2, <1>3, <2>1, <2>2, <2>3, <2>4 DEF RowStep
<1> QED BY <1>1, <1>4

\* The text of a public skill never changes under one version number.
THEOREM VersionsNameTexts == Spec => VersionNamesText
<1>1. RegistryInv /\ [Next]_vars =>
        [\A s \in Skills : row[s].status = "public" /\ row'[s].status = "public" =>
           /\ row'[s].version >= row[s].version
           /\ row'[s].text # row[s].text => row'[s].version > row[s].version]_vars
  BY VersionStep DEF vars
<1> QED BY <1>1, InvHolds, PTL DEF Spec, VersionNamesText

LEMMA ExposureStep ==
  ASSUME RegistryInv, Next, NEW a \in Agents, NEW u \in Users,
         CanUse(row'[a], u), ~CanUse(row[a], u), row'[a].owner # u
  PROVE  row[a].status = "pending_review" \/ row[a].pending.visibility = "company"
<1>1. row[a] \in Row /\ a \in Items /\ row[a].pending \in Edits
  BY DEF RegistryInv, TypeOK, Items, Row
<1>2. RowStep(a)
  BY <1>1, StepOnRow
<1>3. /\ row'[a].status = "public" /\ row'[a].visibility = "company"
      /\ ~(row[a].status = "public" /\ row[a].visibility = "company")
  BY DEF CanUse, CanEdit
<1>4. \A x, t, v : Created(x, t, v).status = "private"
  BY DEF Created, Absent
<1>5. \A e \in Edits : row'[a] # Proposed(row[a], e)
  BY <1>1, <1>3 DEF Proposed, Row
<1>6. /\ row'[a] # Submitted(row[a]) /\ row'[a] # Retracted(row[a])
      /\ row'[a] # Absent
      /\ Reviewable(row[a]) => row[a].status = "pending_review" \/ HasQueuedEdit(row[a])
      /\ \A x \in Users : row'[a] # Reowned(row[a], x)
  <2>1. /\ Submitted(row[a]).status = "pending_review"
        /\ Retracted(row[a]).status = "private" /\ Absent.status = "absent"
    BY <1>1 DEF Submitted, Retracted, Absent, Row
  <2>2. \A x \in Users : /\ Reowned(row[a], x).status = row[a].status
                         /\ Reowned(row[a], x).visibility = row[a].visibility
    BY <1>1 DEF Reowned, Row
  <2>3. /\ row'[a] # Submitted(row[a]) /\ row'[a] # Retracted(row[a])
        /\ row'[a] # Absent
    BY <1>3, <2>1
  <2>4. \A x \in Users : row'[a] # Reowned(row[a], x)
    BY <1>3, <2>2
  <2> QED BY <2>3, <2>4 DEF Reviewable
<1>7. ASSUME HasQueuedEdit(row[a]), row'[a] = Approved(a, row[a])
      PROVE  row[a].pending.visibility = "company"
  BY <1>1, <1>3, <1>7 DEF Approved, HasQueuedEdit, ApplyVisibility, Row, Edits, Visibilities
<1>8. ASSUME HasQueuedEdit(row[a]) PROVE row'[a] # Rejected(row[a])
  BY <1>1, <1>3, <1>8 DEF Rejected, HasQueuedEdit, Row
<1> QED BY <1>2, <1>3, <1>4, <1>5, <1>6, <1>7, <1>8 DEF RowStep

\* Nobody but its owner and the admins gains access to an agent past the queue.
THEOREM ExposureIsReviewed == Spec => ExposedOnlyByReview
<1>1. RegistryInv /\ [Next]_vars =>
        [\A a \in Agents, u \in Users :
           CanUse(row'[a], u) /\ ~CanUse(row[a], u) /\ row'[a].owner # u
             => row[a].status = "pending_review"
                \/ row[a].pending.visibility = "company"]_vars
  BY ExposureStep DEF vars
<1> QED BY <1>1, InvHolds, PTL DEF Spec, ExposedOnlyByReview
=============================================================================
