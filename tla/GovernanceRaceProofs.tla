-------------------------- MODULE GovernanceRaceProofs --------------------------
(***************************************************************************)
(* Proofs about GovernanceRace.tla: what survives every interleaving of    *)
(* any number of requests.  The inductive invariant is about the local     *)
(* variables of the handlers: a copy is sound when it is taken and stays   *)
(* fit to be written, because the texts published under a name are never   *)
(* taken back.  With one worker the transactions of a request add up to    *)
(* one action of Governance: SerialInv says what a copy in hand still      *)
(* agrees with, as nobody else writes.                                     *)
(***************************************************************************)
EXTENDS GovernanceRace, ItemLifecycleProofs

RaceInv ==
  TypeOK /\ PublishedWasApproved /\ QueuedEditsAreSound /\ HeldCopiesAreFit

\* One worker moves on to job j and the tables change in a sound way.
LEMMA TableChange ==
  ASSUME RaceInv, NEW w \in Workers, NEW j,
         job' = [job EXCEPT ![w] = j],
         j = Idle \/ (j \in Jobs /\ FitToWrite(j)),
         links' \subseteq Agents \X Skills,
         published' \in [Items -> SUBSET [Fields -> Values]],
         \A i \in Items : published[i] \subseteq published'[i],
         row' \in [Items -> Row],
         \A i \in Items : /\ SoundRow(i, row'[i])
                          /\ row'[i].status = "public" => row'[i].text \in published'[i]
  PROVE  RaceInv'
<1>1. job \in [Workers -> Jobs \cup {Idle}] /\ j \in Jobs \cup {Idle}
  BY DEF RaceInv, TypeOK
<1>2. job' \in [Workers -> Jobs \cup {Idle}]
  BY <1>1
<1>3. ASSUME NEW x \in Workers, job'[x] # Idle PROVE FitToWrite(job[x])'
  <2>1. \/ job'[x] = j /\ FitToWrite(j)
        \/ job'[x] = job[x] /\ FitToWrite(job[x])
    BY <1>1, <1>3 DEF RaceInv, HeldCopiesAreFit
  <2> QED BY <2>1 DEF FitToWrite
<1> QED
  BY <1>2, <1>3 DEF RaceInv, TypeOK, PublishedWasApproved, QueuedEditsAreSound,
                    HeldCopiesAreFit

\* The tables are untouched.
LEMMA JobChange ==
  ASSUME RaceInv, NEW w \in Workers, NEW j,
         job' = [job EXCEPT ![w] = j],
         UNCHANGED <<row, links, published>>,
         j = Idle \/ (j \in Jobs /\ FitToWrite(j))
  PROVE  RaceInv'
<1>1. /\ links' \subseteq Agents \X Skills
      /\ published' \in [Items -> SUBSET [Fields -> Values]]
      /\ \A i \in Items : published[i] \subseteq published'[i]
      /\ row' \in [Items -> Row]
      /\ \A i \in Items : /\ SoundRow(i, row'[i])
                          /\ row'[i].status = "public" => row'[i].text \in published'[i]
  BY DEF RaceInv, TypeOK, PublishedWasApproved, QueuedEditsAreSound
<1> QED BY <1>1, TableChange

\* The first read of a handler.
LEMMA BeginInv ==
  ASSUME RaceInv, NEW w \in Workers, NEW op \in Ops, NEW u \in Users, NEW i \in Items,
         NEW copy \in Row, NEW rest \in SUBSET Skills, NEW step \in {"read", "ready"},
         Begin(w, op, u, i, copy, rest, step),
         op \in SaveOps \cup {"create"} => Exists(copy) /\ SoundRow(i, copy),
         op = "approve" => copy.text \in [Fields -> Values],
         op # "approve" /\ copy.status = "public" => copy.text \in published[i],
         op = "create" => copy.status = "private" /\ copy.version = 1,
         op \in {"attach", "delete"} => i \in Agents
  PROVE  RaceInv'
<1> DEFINE j == [step |-> step, op |-> op, user |-> u, item |-> i,
                 copy |-> copy, rest |-> rest]
<1>1. j \in Jobs
  BY DEF Jobs, StepNames
<1>2. FitToWrite(j)
  BY DEF FitToWrite
<1>3. job' = [job EXCEPT ![w] = j] /\ UNCHANGED <<row, links, published>>
  BY DEF Begin
<1> QED BY <1>1, <1>2, <1>3, JobChange

\* Every handler's first transaction takes a copy fit to be written.
LEMMA StartInv ==
  ASSUME RaceInv, NEW w \in Workers, NEW u \in Users, Start(w, u)
  PROVE  RaceInv'
<1>0. \A i \in Items : /\ row[i] \in Row /\ SoundRow(i, row[i])
                       /\ row[i].status = "public" => row[i].text \in published[i]
                       /\ NextCheck(i) \in {"read", "ready"}
  BY DEF RaceInv, TypeOK, PublishedWasApproved, QueuedEditsAreSound, NextCheck
<1> USE DEF Ops, SaveOps
<1>1. ASSUME NEW i \in Items, NEW t \in [Fields -> Values], NEW v \in Visibilities,
             BeginCreate(w, u, i, t, v)
      PROVE  RaceInv'
  <2>1. t \in Text /\ Passes(i, t)
    BY <1>1 DEF Text, BeginCreate
  <2>2. /\ Created(u, t, v) \in Row /\ SoundRow(i, Created(u, t, v))
        /\ Created(u, t, v).status = "private" /\ Created(u, t, v).version = 1
    BY <2>1, CreatedSound DEF Created, Absent
  <2>3. Begin(w, "create", u, i, Created(u, t, v), {}, NextCheck(i))
    BY <1>1 DEF BeginCreate
  <2> QED BY <1>0, <2>2, <2>3, BeginInv DEF Exists
<1>2. ASSUME NEW a \in Agents, NEW s \in Skills, BeginAttach(w, u, a, s) PROVE RaceInv'
  <2>1. a \in Items /\ Begin(w, "attach", u, a, row[a], {s}, "read")
    BY <1>2 DEF BeginAttach, Items
  <2> QED BY <1>0, <2>1, BeginInv
<1>3. ASSUME NEW i \in Items, NEW e \in Edits, BeginUpdate(w, u, i, e) PROVE RaceInv'
  <2>1. /\ Exists(row[i]) /\ AcceptsEdit(i, row[i], e)
        /\ Begin(w, "update", u, i, Proposed(row[i], e), {}, "ready")
    BY <1>3 DEF BeginUpdate
  <2>2. Exists(Proposed(row[i], e))
    BY <1>0 DEF Exists, Proposed, Row
  <2> QED BY <1>0, <2>1, <2>2, ProposedSound, BeginInv
<1>4. ASSUME NEW i \in Items, BeginSubmit(w, u, i) PROVE RaceInv'
  <2>1. AcceptsSubmit(i, row[i]) /\ Begin(w, "submit", u, i, Submitted(row[i]), {}, NextCheck(i))
    BY <1>4 DEF BeginSubmit, AcceptsSubmitBy
  <2> QED BY <1>0, <2>1, SubmittedSound, BeginInv DEF Exists
<1>5. ASSUME NEW a \in Agents, BeginSubmitAll(w, u, a) PROVE RaceInv'
  <2>1. /\ a \in Items /\ AcceptsSubmit(a, row[a])
        /\ Begin(w, "submitAll", u, a, Submitted(row[a]), {}, "read")
    BY <1>5 DEF BeginSubmitAll, AcceptsSubmitBy, Items
  <2> QED BY <1>0, <2>1, SubmittedSound, BeginInv DEF Exists
<1>6. ASSUME NEW a \in Agents, BeginRetract(w, u, a) PROVE RaceInv'
  <2>1. /\ a \in Items /\ row[a].status = "pending_review"
        /\ Begin(w, "retract", u, a, Retracted(row[a]), {}, "ready")
    BY <1>6 DEF BeginRetract, Items
  <2> QED BY <1>0, <2>1, RetractedSound, BeginInv DEF Exists
<1>7. ASSUME NEW i \in Items, BeginApprove(w, u, i) PROVE RaceInv'
  <2>1. PICK st \in {"read", "ready"} :
          /\ Reviewable(row[i])
          /\ Begin(w, "approve", u, i, Approved(i, row[i]), {}, st)
    BY <1>0, <1>7 DEF BeginApprove
  <2> QED BY <1>0, <2>1, ApprovedSound, BeginInv DEF Exists
<1>8. ASSUME NEW i \in Items, BeginReject(w, u, i) PROVE RaceInv'
  <2>1. Reviewable(row[i]) /\ Begin(w, "reject", u, i, Rejected(row[i]), {}, "ready")
    BY <1>8 DEF BeginReject
  <2>2. Exists(Rejected(row[i]))
    BY <1>0 DEF Exists, Rejected, HasQueuedEdit, Row
  <2> QED BY <1>0, <2>1, <2>2, RejectedSound, BeginInv
<1>9. ASSUME NEW a \in Agents, BeginDeleteFromChat(w, u, a) \/ BeginDeleteAgent(w, u, a)
      PROVE  RaceInv'
  <2>1. PICK st \in {"read", "ready"} :
          a \in Items /\ Begin(w, "delete", u, a, row[a], {}, st)
    BY <1>9 DEF BeginDeleteFromChat, BeginDeleteAgent, Items
  <2> QED BY <1>0, <2>1, BeginInv
<1>10. ASSUME NEW g \in Guests, MoveAgents(w, g, u) PROVE RaceInv'
  <2> DEFINE j == [Idle EXCEPT !.step = "ready", !.op = "login", !.user = u, !.rest = {g}]
  <2>1. j \in Jobs /\ FitToWrite(j)
    BY NoEditType DEF Idle, Jobs, StepNames, FitToWrite
  <2>2. ASSUME NEW i \in Items
        PROVE  row'[i] = row[i] \/ row'[i] = [row[i] EXCEPT !.owner = u]
    BY <1>10 DEF MoveAgents, Reowned
  <2>3. ASSUME NEW i \in Items
        PROVE  /\ row'[i] \in Row /\ SoundRow(i, row'[i])
               /\ row'[i].status = row[i].status /\ row'[i].text = row[i].text
    <3>1. CASE row'[i] = [row[i] EXCEPT !.owner = u]
      BY <1>0, <3>1, ReownedSound
    <3> QED BY <1>0, <2>2, <3>1
  <2>4. row' \in [Items -> Row]
    BY <1>10, <2>3 DEF MoveAgents, Reowned
  <2>5. job' = [job EXCEPT ![w] = j] /\ UNCHANGED <<links, published>>
    BY <1>10 DEF MoveAgents
  <2> HIDE DEF j
  <2>6. /\ links' \subseteq Agents \X Skills
        /\ published' \in [Items -> SUBSET [Fields -> Values]]
        /\ \A i \in Items : published[i] \subseteq published'[i]
    BY <2>5 DEF RaceInv, TypeOK
  <2> QED BY <1>0, <2>1, <2>3, <2>4, <2>5, <2>6, TableChange
<1> QED
  BY <1>1, <1>2, <1>3, <1>4, <1>5, <1>6, <1>7, <1>8, <1>9, <1>10 DEF Start

\* A further read leaves the copy alone or answers with an error.
LEMMA CheckInv ==
  ASSUME RaceInv, NEW w \in Workers, NEW op \in Ops, NEW ok, NEW rest \in SUBSET Skills,
         Check(w, op, ok, rest)
  PROVE  RaceInv'
<1>1. job[w] \in Jobs /\ FitToWrite(job[w]) /\ job[w].step = "read"
  BY DEF Check, RaceInv, TypeOK, HeldCopiesAreFit, Idle
<1> DEFINE j == [job[w] EXCEPT !.step = "ready", !.rest = rest]
<1>2. j \in Jobs /\ FitToWrite(j)
  BY <1>1 DEF Jobs, StepNames, FitToWrite
<1>3. job' = [job EXCEPT ![w] = j] \/ job' = [job EXCEPT ![w] = Idle]
  BY DEF Check
<1>4. UNCHANGED <<row, links, published>>
  BY DEF Check
<1> HIDE DEF j
<1> QED BY <1>2, <1>3, <1>4, JobChange

\* The write of insert and of repo.update.
LEMMA WriteInv ==
  ASSUME RaceInv, NEW w \in Workers, NEW j, NEW i \in Items, NEW r \in Row,
         job' = [job EXCEPT ![w] = j],
         j = Idle \/ (j \in Jobs /\ FitToWrite(j)),
         links' = links,
         row' = [row EXCEPT ![i] = r],
         SoundRow(i, r),
         \/ published' = published /\ (r.status = "public" => r.text \in published[i])
         \/ /\ published' = [published EXCEPT ![i] = @ \cup {r.text}]
            /\ r.text \in [Fields -> Values]
  PROVE  RaceInv'
<1>1. /\ links' \subseteq Agents \X Skills
      /\ published' \in [Items -> SUBSET [Fields -> Values]]
      /\ \A k \in Items : published[k] \subseteq published'[k]
      /\ row' \in [Items -> Row]
  BY DEF RaceInv, TypeOK
<1>2. ASSUME NEW k \in Items
      PROVE  /\ SoundRow(k, row'[k])
             /\ row'[k].status = "public" => row'[k].text \in published'[k]
  <2>1. CASE k = i
    BY <2>1 DEF RaceInv, TypeOK
  <2>2. CASE k # i
    BY <1>1, <2>2 DEF RaceInv, TypeOK, PublishedWasApproved, QueuedEditsAreSound
  <2> QED BY <2>1, <2>2
<1> QED BY <1>1, <1>2, TableChange

LEMMA AfterSaveFit ==
  ASSUME NEW j \in Jobs, FitToWrite(j), j.step = "ready", j.op \in SaveOps
  PROVE  AfterSave(j) = Idle \/ (AfterSave(j) \in Jobs /\ FitToWrite(AfterSave(j)))
<1>1. CASE AfterSave(j) = [j EXCEPT !.step = "list", !.copy = Absent] /\ j.op = "submitAll"
  BY <1>1, NoEditType DEF Jobs, StepNames, FitToWrite
<1>2. CASE /\ AfterSave(j) = [j EXCEPT !.step = "loop", !.item = Nobody, !.copy = Absent]
           /\ j.op = "submitAll"
  BY <1>2, NoEditType DEF Jobs, StepNames, FitToWrite
<1> QED BY <1>1, <1>2 DEF AfterSave

LEMMA SaveInv ==
  ASSUME RaceInv, NEW w \in Workers, Save(w)
  PROVE  RaceInv'
<1> DEFINE i == job[w].item
           r == job[w].copy
<1>1. /\ job[w] \in Jobs /\ FitToWrite(job[w])
      /\ job[w].step = "ready" /\ job[w].op \in SaveOps
  BY DEF Save, Ready, RaceInv, TypeOK, HeldCopiesAreFit, Idle
<1>2. /\ i \in Items /\ r \in Row /\ SoundRow(i, r)
      /\ job[w].op = "approve" => r.text \in [Fields -> Values]
      /\ job[w].op # "approve" /\ r.status = "public" => r.text \in published[i]
  BY <1>1 DEF FitToWrite, Jobs
<1>3. CASE Exists(row[i])
  <2>1. /\ row' = [row EXCEPT ![i] = r] /\ links' = links
        /\ published' = IF job[w].op = "approve"
                          THEN [published EXCEPT ![i] = @ \cup {r.text}] ELSE published
        /\ job' = [job EXCEPT ![w] = AfterSave(job[w])]
    BY <1>3 DEF Save, Overwrite
  <2> HIDE DEF i, r
  <2> QED BY <1>1, <1>2, <2>1, AfterSaveFit, WriteInv
<1>4. CASE ~Exists(row[i])
  <2>1. job' = [job EXCEPT ![w] = Idle] /\ UNCHANGED <<row, links, published>>
    BY <1>4 DEF Save
  <2> QED BY <2>1, JobChange
<1> QED BY <1>3, <1>4

LEMMA InsertInv ==
  ASSUME RaceInv, NEW w \in Workers, Insert(w)
  PROVE  RaceInv'
<1> DEFINE i == job[w].item
           r == job[w].copy
<1>1. /\ job[w] \in Jobs /\ FitToWrite(job[w])
      /\ job[w].step = "ready" /\ job[w].op = "create"
  BY DEF Insert, Ready, RaceInv, TypeOK, HeldCopiesAreFit, Idle
<1>2. i \in Items /\ r \in Row /\ SoundRow(i, r) /\ r.status = "private"
  BY <1>1 DEF FitToWrite, Jobs
<1>3. /\ row' = row \/ row' = [row EXCEPT ![i] = r]
      /\ job' = [job EXCEPT ![w] = Idle] /\ UNCHANGED <<links, published>>
  BY DEF Insert
<1> HIDE DEF i, r
<1>4. CASE row' = row
  BY <1>3, <1>4, JobChange
<1>5. CASE row' = [row EXCEPT ![i] = r]
  BY <1>2, <1>3, <1>5, WriteInv
<1> QED BY <1>3, <1>4, <1>5

LEMMA InsertLinkInv ==
  ASSUME RaceInv, NEW w \in Workers, InsertLink(w)
  PROVE  RaceInv'
<1>1. job[w].item \in Agents /\ job[w].rest \subseteq Skills
  BY DEF InsertLink, Ready, RaceInv, TypeOK, HeldCopiesAreFit, FitToWrite, Idle
<1>2. links' \subseteq Agents \X Skills
  BY <1>1 DEF InsertLink, RaceInv, TypeOK
<1>3. job' = [job EXCEPT ![w] = Idle] /\ UNCHANGED <<row, published>>
  BY DEF InsertLink
<1>4. /\ published' \in [Items -> SUBSET [Fields -> Values]]
      /\ \A i \in Items : published[i] \subseteq published'[i]
      /\ row' \in [Items -> Row]
      /\ \A i \in Items : /\ SoundRow(i, row'[i])
                          /\ row'[i].status = "public" => row'[i].text \in published'[i]
  BY <1>3 DEF RaceInv, TypeOK, PublishedWasApproved, QueuedEditsAreSound
<1> QED BY <1>2, <1>3, <1>4, TableChange

\* Deleting rows: absent rows are sound.
LEMMA DeleteInv ==
  ASSUME RaceInv, NEW w \in Workers, NEW j, NEW k,
         job' = [job EXCEPT ![w] = j],
         j = Idle \/ (j \in Jobs /\ FitToWrite(j)),
         row' = [row EXCEPT ![k] = Absent],
         links' \subseteq links,
         published' = published
  PROVE  RaceInv'
<1>1. /\ links' \subseteq Agents \X Skills
      /\ published' \in [Items -> SUBSET [Fields -> Values]]
      /\ \A i \in Items : published[i] \subseteq published'[i]
      /\ row' \in [Items -> Row]
  BY NoEditType DEF RaceInv, TypeOK
<1>2. Absent.status # "public"
  BY DEF Absent
<1>3. ASSUME NEW i \in Items
      PROVE  /\ SoundRow(i, row'[i])
             /\ row'[i].status = "public" => row'[i].text \in published'[i]
  <2>1. row'[i] = Absent \/ row'[i] = row[i]
    BY DEF RaceInv, TypeOK
  <2> QED
    BY <1>2, <2>1, AbsentSound DEF RaceInv, PublishedWasApproved, QueuedEditsAreSound
<1> QED BY <1>1, <1>3, TableChange

LEMMA ContinueInv ==
  ASSUME RaceInv, NEW w \in Workers, Continue(w)
  PROVE  RaceInv'
<1> DEFINE j == job[w]
<1>0. j # Idle => j \in Jobs /\ FitToWrite(j)
  BY DEF RaceInv, TypeOK, HeldCopiesAreFit
<1>1. CASE CheckSlug(w) \/ CheckHasSkill(w) \/ CheckSkills(w) \/ ScanExclusive(w)
  <2>1. {} \in SUBSET Skills /\ \A a : Exclusive(a) \in SUBSET Skills
    BY DEF Exclusive, SkillsOf
  <2> QED
    BY <1>1, <2>1, CheckInv
    DEF CheckSlug, CheckHasSkill, CheckSkills, ScanExclusive, Ops
<1>2. CASE CheckAttach(w)
  <2>1. j.op = "attach" /\ j.step = "read"
    BY <1>2 DEF CheckAttach, Check
  <2>2. j.rest \in SUBSET Skills
    BY <1>0, <2>1 DEF FitToWrite, Idle
  <2> QED BY <1>2, <2>2, CheckInv DEF CheckAttach, Ops
<1>3. CASE Insert(w)
  BY <1>3, InsertInv
<1>4. CASE InsertLink(w)
  BY <1>4, InsertLinkInv
<1>5. CASE Save(w)
  BY <1>5, SaveInv
<1>6. CASE ListPrivateSkills(w)
  <2> DEFINE private == {s \in SkillsOf(j.item) : row[s].status = "private"}
             k == [j EXCEPT !.step = "loop", !.item = Nobody, !.rest = private]
  <2>1. j.step = "list" /\ private \subseteq Skills
    BY <1>6 DEF ListPrivateSkills, SkillsOf
  <2>2. j \in Jobs /\ FitToWrite(j)
    BY <1>0, <2>1 DEF Idle
  <2>3. job' = [job EXCEPT ![w] = k] \/ job' = [job EXCEPT ![w] = Idle]
    BY <1>6 DEF ListPrivateSkills
  <2>4. UNCHANGED <<row, links, published>>
    BY <1>6 DEF ListPrivateSkills
  <2>5. k \in Jobs
    BY <2>1, <2>2 DEF Jobs, StepNames
  <2>6. FitToWrite(k)
    BY <2>1, <2>2 DEF FitToWrite, Jobs
  <2> HIDE DEF k
  <2> QED BY <2>3, <2>4, <2>5, <2>6, JobChange
<1>7. ASSUME NEW s \in Skills, ReadSkill(w, s) PROVE RaceInv'
  <2> DEFINE k == [j EXCEPT !.step = "ready", !.item = s, !.rest = @ \ {s},
                            !.copy = Submitted(row[s])]
             skip == [j EXCEPT !.rest = @ \ {s}]
  <2>1. j \in Jobs /\ FitToWrite(j) /\ j.step = "loop" /\ j.op = "submitAll"
    BY <1>0, <1>7 DEF ReadSkill, Idle, FitToWrite
  <2>2. s \in Items /\ row[s] \in Row /\ SoundRow(s, row[s])
    BY DEF RaceInv, TypeOK, QueuedEditsAreSound, Items
  <2>3. UNCHANGED <<row, links, published>>
    BY <1>7 DEF ReadSkill
  <2>4. CASE AcceptsSubmitBy(j.user, s)
    <3>1. job' = [job EXCEPT ![w] = k]
      BY <1>7, <2>4 DEF ReadSkill
    <3>2. /\ Submitted(row[s]) \in Row /\ SoundRow(s, Submitted(row[s]))
          /\ Submitted(row[s]).status = "pending_review"
      BY <2>2, <2>4, SubmittedSound DEF AcceptsSubmitBy
    <3>3. k \in Jobs /\ FitToWrite(k)
      BY <2>1, <2>2, <3>2 DEF Jobs, StepNames, FitToWrite, Exists
    <3> HIDE DEF k
    <3> QED BY <2>3, <3>1, <3>3, JobChange
  <2>5. CASE ~AcceptsSubmitBy(j.user, s)
    <3>1. job' = [job EXCEPT ![w] = Idle] \/ job' = [job EXCEPT ![w] = skip]
      BY <1>7, <2>5 DEF ReadSkill
    <3>2. skip \in Jobs /\ FitToWrite(skip)
      BY <2>1 DEF Jobs, FitToWrite
    <3> HIDE DEF skip
    <3> QED BY <2>3, <3>1, <3>2, JobChange
  <2> QED BY <2>4, <2>5
<1>8. CASE DeleteRow(w)
  <2> DEFINE k == [j EXCEPT !.op = "purge", !.item = Nobody, !.copy = Absent]
             a == j.item
  <2>1. j \in Jobs /\ FitToWrite(j) /\ j.op = "delete" /\ j.step = "ready"
    BY <1>0, <1>8 DEF DeleteRow, Ready, Idle
  <2>2. k \in Jobs /\ FitToWrite(k)
    BY <2>1, NoEditType DEF Jobs, Ops, SaveOps, FitToWrite
  <2>3. /\ job' = [job EXCEPT ![w] = k] \/ job' = [job EXCEPT ![w] = Idle]
        /\ row' = [row EXCEPT ![a] = Absent]
        /\ links' \subseteq links /\ published' = published
    BY <1>8 DEF DeleteRow
  <2> HIDE DEF k, a
  <2> QED BY <2>2, <2>3, DeleteInv
<1>9. ASSUME NEW s \in Skills, PurgeSkill(w, s) PROVE RaceInv'
  <2> DEFINE k == [j EXCEPT !.rest = @ \ {s}]
  <2>1. j \in Jobs /\ FitToWrite(j) /\ j.op = "purge" /\ j.step = "ready"
    BY <1>0, <1>9 DEF PurgeSkill, Ready, Idle
  <2>2. k \in Jobs /\ FitToWrite(k)
    BY <2>1 DEF Jobs, FitToWrite, SaveOps
  <2>3. /\ job' = [job EXCEPT ![w] = k] \/ job' = [job EXCEPT ![w] = Idle]
        /\ row' = [row EXCEPT ![s] = Absent]
        /\ links' \subseteq links /\ published' = published
    BY <1>9 DEF PurgeSkill
  <2> HIDE DEF k
  <2> QED BY <2>2, <2>3, DeleteInv
<1>10. ASSUME NEW g \in Guests, MoveSkills(w, g) PROVE RaceInv'
  <2>1. j \in Jobs /\ j.user \in Users
    BY <1>0, <1>10 DEF MoveSkills, Ready, Idle, Jobs
  <2>2. ASSUME NEW i \in Items
        PROVE  /\ row'[i] \in Row /\ SoundRow(i, row'[i])
               /\ row'[i].status = "public" => row'[i].text \in published[i]
    <3>1. /\ row[i] \in Row /\ SoundRow(i, row[i])
          /\ row[i].status = "public" => row[i].text \in published[i]
      BY DEF RaceInv, TypeOK, PublishedWasApproved, QueuedEditsAreSound
    <3>2. row'[i] = row[i] \/ row'[i] = [row[i] EXCEPT !.owner = j.user]
      BY <1>10 DEF MoveSkills, Reowned
    <3>3. CASE row'[i] = [row[i] EXCEPT !.owner = j.user]
      BY <2>1, <3>1, <3>3, ReownedSound
    <3> QED BY <3>1, <3>2, <3>3
  <2>3. row' \in [Items -> Row]
    BY <1>10, <2>2 DEF MoveSkills, Reowned
  <2>4. job' = [job EXCEPT ![w] = Idle] /\ UNCHANGED <<links, published>>
    BY <1>10 DEF MoveSkills
  <2>5. /\ links' \subseteq Agents \X Skills
        /\ published' \in [Items -> SUBSET [Fields -> Values]]
        /\ \A i \in Items : published[i] \subseteq published'[i]
    BY <2>4 DEF RaceInv, TypeOK
  <2> QED BY <2>2, <2>3, <2>4, <2>5, TableChange
<1> QED
  BY <1>1, <1>2, <1>3, <1>4, <1>5, <1>6, <1>7, <1>8, <1>9, <1>10 DEF Continue

-----------------------------------------------------------------------------

LEMMA InitRaceInv == Init => RaceInv
<1> SUFFICES ASSUME Init PROVE RaceInv
  OBVIOUS
<1>1. ASSUME NEW i \in Items
      PROVE  /\ row[i] \in Row /\ SoundRow(i, row[i])
             /\ row[i].status = "public" => row[i].text \in published[i]
             /\ published[i] \subseteq [Fields -> Values]
  <2>1. CASE i \in Seeded
    <3>1. row[i] = SeededRow(SeedOwner, SeedText) /\ published[i] = {SeedText}
      BY <1>1, <2>1 DEF Init
    <3>2. SeedOwner \in Users /\ SeedText \in [Fields -> ValidIn[i]]
      BY <2>1, SeedAssumption
    <3> QED BY <1>1, <3>1, <3>2, SeededSound
  <2>2. CASE i \notin Seeded
    <3>1. row[i] = Absent /\ published[i] = {}
      BY <1>1, <2>2 DEF Init
    <3> QED BY <1>1, <3>1, NoEditType, AbsentSound DEF Absent
  <2> QED BY <2>1, <2>2
<1>2. links \subseteq Agents \X Skills
  BY SeedAssumption DEF Init
<1>3. job \in [Workers -> Jobs \cup {Idle}] /\ \A w \in Workers : job[w] = Idle
  BY DEF Init
<1> QED
  BY <1>1, <1>2, <1>3 DEF RaceInv, TypeOK, PublishedWasApproved, QueuedEditsAreSound,
                          HeldCopiesAreFit, Init

LEMMA NextRaceInv == RaceInv /\ [Next]_vars => RaceInv'
<1>1. ASSUME RaceInv, Next PROVE RaceInv'
  BY <1>1, StartInv, ContinueInv DEF Next
<1>2. ASSUME RaceInv, UNCHANGED vars PROVE RaceInv'
  BY <1>2 DEF RaceInv, TypeOK, PublishedWasApproved, QueuedEditsAreSound,
              HeldCopiesAreFit, FitToWrite, vars
<1> QED BY <1>1, <1>2

LEMMA RaceInvHolds == Spec => []RaceInv
BY InitRaceInv, NextRaceInv, PTL DEF Spec

\* Tables and local variables keep their types under any number of requests.
THEOREM RaceTypeCorrect == Spec => []TypeOK
<1>1. RaceInv => TypeOK
  BY DEF RaceInv
<1> QED BY <1>1, RaceInvHolds, PTL

\* Whatever overlaps, a public row serves a text some approval published.
THEOREM RacePublishedWasApproved == Spec => []PublishedWasApproved
<1>1. RaceInv => PublishedWasApproved
  BY DEF RaceInv
<1> QED BY <1>1, RaceInvHolds, PTL

\* Whatever overlaps, a queued edit lies beside a public row and validates.
THEOREM RaceQueueIsSound == Spec => []QueuedEditsAreSound
<1>1. RaceInv => QueuedEditsAreSound
  BY DEF RaceInv
<1> QED BY <1>1, RaceInvHolds, PTL

\* What a handler holds between its read and its write is fit to be written.
THEOREM RaceCopiesAreFit == Spec => []HeldCopiesAreFit
<1>1. RaceInv => HeldCopiesAreFit
  BY DEF RaceInv
<1> QED BY <1>1, RaceInvHolds, PTL

-----------------------------------------------------------------------------
(* Deletion *)

LEMMA DeletedStep ==
  ASSUME RaceInv, Next, NEW i \in Items, ~Exists(row[i]), Exists(row'[i])
  PROVE  /\ row'[i].status = "private" /\ row'[i].version = 1
         /\ \E w \in Workers : job[w].op = "create" /\ job[w].item = i
<1>1. row[i] \in Row /\ row \in [Items -> Row] /\ row'[i] # row[i]
  BY DEF RaceInv, TypeOK
<1>2. PICK w \in Workers : (\E u \in Users : Start(w, u)) \/ Continue(w)
  BY DEF Next
<1>3. \A u \in Users : ~Exists([row[i] EXCEPT !.owner = u])
  BY <1>1 DEF Exists, Row
<1>4. ASSUME NEW u \in Users, Start(w, u) PROVE FALSE
  <2>1. ASSUME NEW g \in Guests, MoveAgents(w, g, u) PROVE FALSE
    <3>1. row'[i] = row[i] \/ row'[i] = [row[i] EXCEPT !.owner = u]
      BY <2>1 DEF MoveAgents, Reowned
    <3> QED BY <1>1, <1>3, <3>1
  <2>2. CASE row' = row
    BY <1>1, <2>2
  <2> QED
    BY <1>4, <2>1, <2>2
    DEF Start, BeginCreate, BeginAttach, BeginUpdate, BeginSubmit, BeginSubmitAll,
        BeginRetract, BeginApprove, BeginReject, BeginDeleteFromChat,
        BeginDeleteAgent, Begin
<1>5. ~Exists(Absent)
  BY DEF Exists, Absent
<1>6. CASE Insert(w)
  <2>1. job[w].item = i /\ row'[i] = job[w].copy /\ job[w].op = "create"
    BY <1>1, <1>6 DEF Insert, Ready
  <2>2. FitToWrite(job[w])
    BY <1>6 DEF Insert, Ready, RaceInv, HeldCopiesAreFit, Idle
  <2> QED BY <2>1, <2>2 DEF FitToWrite
<1>7. ~Save(w)
  BY <1>1 DEF Save
<1>8. ~DeleteRow(w) /\ \A s \in Skills : ~PurgeSkill(w, s)
  BY <1>1, <1>5 DEF DeleteRow, PurgeSkill
<1>9. \A g \in Guests : ~MoveSkills(w, g)
  <2>1. ASSUME NEW g \in Guests, MoveSkills(w, g) PROVE FALSE
    <3>1. job[w].user \in Users
      BY <2>1 DEF MoveSkills, Ready, RaceInv, TypeOK, Idle, Jobs
    <3>2. row'[i] = row[i] \/ row'[i] = [row[i] EXCEPT !.owner = job[w].user]
      BY <2>1 DEF MoveSkills, Reowned
    <3> QED BY <1>1, <1>3, <3>1, <3>2
  <2> QED BY <2>1
<1>10. row' = row => FALSE
  BY <1>1
<1> QED
  BY <1>2, <1>4, <1>6, <1>7, <1>8, <1>9, <1>10
  DEF Continue, CheckSlug, CheckAttach, CheckHasSkill, CheckSkills, ScanExclusive,
      Check, InsertLink, ListPrivateSkills, ReadSkill

\* A deleted item comes back only by a create, however stale the copies that
\* other requests still hold.
THEOREM RaceDeletedStaysDeleted == Spec => DeletedStaysDeleted
<1>1. RaceInv /\ [Next]_vars =>
        [\A i \in Items :
           ~Exists(row[i]) /\ Exists(row'[i])
             => /\ row'[i].status = "private"
                /\ row'[i].version = 1
                /\ \E w \in Workers : job[w].op = "create" /\ job[w].item = i]_vars
  BY DeletedStep DEF vars
<1> QED BY <1>1, RaceInvHolds, PTL DEF Spec, DeletedStaysDeleted

-----------------------------------------------------------------------------
(* One worker: the transactions of a handler add up to one action *)

\* With no other request in flight, what a handler has read and checked so far
\* is still true of the tables when it writes.
CreateHeld(j) ==
  j.op = "create" =>
    /\ ~Exists(row[j.item])
    /\ \E t \in [Fields -> Values], v \in Visibilities :
         /\ j.copy = Created(j.user, t, v) /\ Passes(j.item, t)
         /\ j.item \in Skills => v = "company"
    /\ j.step = "ready" /\ j.item \in Agents => SlugFree(j.item)

AttachHeld(j) ==
  j.op = "attach" =>
    /\ Exists(row[j.item]) /\ CanEdit(row[j.item], j.user)
    /\ \E s \in Skills :
         /\ j.rest = {s}
         /\ j.step = "ready" => Exists(row[s]) /\ MayAttach(j.user, s)

UpdateHeld(j) ==
  j.op = "update" =>
    /\ LoggedIn(j.user)
    /\ Exists(row[j.item]) /\ CanUpdate(row[j.item], j.user)
    /\ \E e \in Edits :
         /\ j.item \in Skills => e.visibility = Keep
         /\ AcceptsEdit(j.item, row[j.item], e)
         /\ j.copy = Proposed(row[j.item], e)

SubmitHeld(j) ==
  j.op \in {"submit", "submitAll"} /\ j.step \in {"read", "ready"} =>
    /\ AcceptsSubmitBy(j.user, j.item)
    /\ j.copy = Submitted(row[j.item])
    /\ j.step = "ready" /\ j.item \in Agents => SkillsOf(j.item) # {}

SkillsHeld(j) ==
  j.op = "submitAll" =>
    /\ j.step \in {"read", "list"} => j.item \in Agents
    /\ j.step = "loop" => j.rest \subseteq Skills
    /\ j.step = "ready" /\ j.item \in Skills =>
         j.rest \subseteq Skills /\ j.item \notin j.rest

RetractHeld(j) ==
  j.op = "retract" =>
    /\ LoggedIn(j.user) /\ j.item \in Agents
    /\ CanEdit(row[j.item], j.user) /\ row[j.item].status = "pending_review"
    /\ j.copy = Retracted(row[j.item])

ApproveHeld(j) ==
  j.op = "approve" =>
    /\ IsAdmin(j.user) /\ Reviewable(row[j.item])
    /\ row[j.item].version < MaxVersion
    /\ j.copy = Approved(j.item, row[j.item])
    /\ j.step = "ready" /\ row[j.item].status = "pending_review" /\ j.item \in Agents
         => SkillsReady(j.item)

RejectHeld(j) ==
  j.op = "reject" =>
    /\ IsAdmin(j.user) /\ Reviewable(row[j.item])
    /\ j.copy = Rejected(row[j.item])

DeleteHeld(j) ==
  j.op = "delete" =>
    /\ LoggedIn(j.user)
    /\ Exists(row[j.item]) /\ MayDelete(j.user, row[j.item])
    /\ j.step = "ready" =>
         \/ j.rest = Exclusive(j.item)
         \/ j.rest = {} /\ row[j.item].status \in {"private", "rejected"}

PurgeHeld(j) ==
  j.op = "purge" => j.rest \subseteq Skills /\ \A l \in links : l[2] \notin j.rest

LoginHeld(j) ==
  j.op = "login" => \E g \in Guests : j.rest = {g}

Held(j) ==
  /\ CreateHeld(j) /\ AttachHeld(j) /\ UpdateHeld(j) /\ SubmitHeld(j)
  /\ SkillsHeld(j) /\ RetractHeld(j) /\ ApproveHeld(j) /\ RejectHeld(j)
  /\ DeleteHeld(j) /\ PurgeHeld(j) /\ LoginHeld(j)

SerialInv == \A w \in Workers : job[w] # Idle => Held(job[w])

\* A job with no write to come after its first one.
OneWrite(j) ==
  /\ j.op \notin {"purge", "login"}
  /\ j.op = "submitAll" => j.step \in {"read", "ready"} /\ j.item \notin Skills

LEMMA SettledIs ==
  ASSUME NEW w, Workers = {w}
  PROVE  /\ SettledRow = [i \in Items |-> Finishing(job[w], i)]
         /\ SettledRow' = [i \in Items |-> (Finishing(job[w], i))']
<1>1. ASSUME NEW i \in Items
      PROVE  Finishing(job[w], i)
               = IF \E x \in Workers : Finishing(job[x], i) # row[i]
                   THEN Finishing(job[CHOOSE x \in Workers : Finishing(job[x], i) # row[i]], i)
                   ELSE row[i]
  <2>1. CASE \E x \in Workers : Finishing(job[x], i) # row[i]
    <3>1. (CHOOSE x \in Workers : Finishing(job[x], i) # row[i]) = w
      BY <2>1
    <3> QED BY <2>1, <3>1
  <2> QED BY <2>1
<1>2. ASSUME NEW i \in Items
      PROVE  (Finishing(job[w], i))'
               = (IF \E x \in Workers : Finishing(job[x], i) # row[i]
                   THEN Finishing(job[CHOOSE x \in Workers : Finishing(job[x], i) # row[i]], i)
                   ELSE row[i])'
  <2>1. CASE \E x \in Workers : (Finishing(job[x], i))' # row'[i]
    <3>1. (CHOOSE x \in Workers : (Finishing(job[x], i))' # row'[i]) = w
      BY <2>1
    <3> QED BY <2>1, <3>1
  <2> QED BY <2>1
<1> QED BY <1>1, <1>2 DEF SettledRow

LEMMA OneWriteSettled ==
  ASSUME NEW w, Workers = {w}
  PROVE  /\ TypeOK /\ OneWrite(job[w]) => SettledRow = row
         /\ TypeOK' /\ OneWrite(job[w])' => SettledRow' = row'
<1>1. ASSUME TypeOK, OneWrite(job[w]) PROVE SettledRow = row
  <2>1. \A i \in Items : Finishing(job[w], i) = row[i]
    BY <1>1 DEF OneWrite, Finishing
  <2> QED BY <1>1, <2>1, SettledIs DEF TypeOK
<1>2. ASSUME TypeOK', OneWrite(job[w])' PROVE SettledRow' = row'
  <2>1. \A i \in Items : (Finishing(job[w], i))' = row'[i]
    BY <1>2 DEF OneWrite, Finishing
  <2> QED BY <1>2, <2>1, SettledIs DEF TypeOK
<1> QED BY <1>1, <1>2

\* What Begin leaves in the worker's local variables.
LEMMA BegunJob ==
  ASSUME TypeOK, NEW w \in Workers, NEW op, NEW u, NEW i, NEW copy, NEW rest, NEW step,
         Begin(w, op, u, i, copy, rest, step)
  PROVE  /\ job'[w].op = op /\ job'[w].user = u /\ job'[w].item = i
         /\ job'[w].copy = copy /\ job'[w].rest = rest /\ job'[w].step = step
         /\ row' = row /\ links' = links /\ published' = published
BY DEF Begin, TypeOK

\* The first transaction of a handler takes what it checks from the tables.
LEMMA StartHeld ==
  ASSUME RaceInv, NEW w \in Workers, NEW u \in Users, Start(w, u)
  PROVE  Held(job[w])'
<1> USE DEF RaceInv
<1>0. Agents \cap Skills = {} /\ Items = Agents \cup Skills
  BY NamesAssumption DEF Items
<1>1. ASSUME NEW i \in Items, NEW t \in [Fields -> Values], NEW v \in Visibilities,
             BeginCreate(w, u, i, t, v)
      PROVE  Held(job[w])'
  <2>1. Begin(w, "create", u, i, Created(u, t, v), {}, NextCheck(i))
    BY <1>1 DEF BeginCreate
  <2>2. /\ job'[w].op = "create" /\ job'[w].user = u /\ job'[w].item = i
        /\ job'[w].copy = Created(u, t, v) /\ job'[w].step = NextCheck(i) /\ row' = row
    BY <2>1, BegunJob
  <2>3. CreateHeld(job[w])'
    BY <1>1, <2>2 DEF CreateHeld, BeginCreate, NextCheck
  <2> QED
    BY <2>2, <2>3 DEF Held, AttachHeld, UpdateHeld, SubmitHeld, SkillsHeld, RetractHeld,
                      ApproveHeld, RejectHeld, DeleteHeld, PurgeHeld, LoginHeld
<1>2. ASSUME NEW a \in Agents, NEW s \in Skills, BeginAttach(w, u, a, s)
      PROVE  Held(job[w])'
  <2>1. Begin(w, "attach", u, a, row[a], {s}, "read")
    BY <1>2 DEF BeginAttach
  <2>2. /\ job'[w].op = "attach" /\ job'[w].user = u /\ job'[w].item = a
        /\ job'[w].rest = {s} /\ job'[w].step = "read" /\ row' = row
    BY <2>1, BegunJob
  <2>3. AttachHeld(job[w])'
    BY <1>2, <2>2 DEF AttachHeld, BeginAttach
  <2> QED
    BY <2>2, <2>3 DEF Held, CreateHeld, UpdateHeld, SubmitHeld, SkillsHeld, RetractHeld,
                      ApproveHeld, RejectHeld, DeleteHeld, PurgeHeld, LoginHeld
<1>3. ASSUME NEW i \in Items, NEW e \in Edits, BeginUpdate(w, u, i, e)
      PROVE  Held(job[w])'
  <2>1. Begin(w, "update", u, i, Proposed(row[i], e), {}, "ready")
    BY <1>3 DEF BeginUpdate
  <2>2. /\ job'[w].op = "update" /\ job'[w].user = u /\ job'[w].item = i
        /\ job'[w].copy = Proposed(row[i], e) /\ row' = row
    BY <2>1, BegunJob
  <2>3. UpdateHeld(job[w])'
    BY <1>3, <2>2 DEF UpdateHeld, BeginUpdate
  <2> QED
    BY <2>2, <2>3 DEF Held, CreateHeld, AttachHeld, SubmitHeld, SkillsHeld, RetractHeld,
                      ApproveHeld, RejectHeld, DeleteHeld, PurgeHeld, LoginHeld
<1>4. ASSUME NEW i \in Items, BeginSubmit(w, u, i) PROVE Held(job[w])'
  <2>1. Begin(w, "submit", u, i, Submitted(row[i]), {}, NextCheck(i))
    BY <1>4 DEF BeginSubmit
  <2>2. /\ job'[w].op = "submit" /\ job'[w].user = u /\ job'[w].item = i
        /\ job'[w].copy = Submitted(row[i]) /\ job'[w].step = NextCheck(i)
        /\ row' = row /\ links' = links
    BY <2>1, BegunJob
  <2>3. SubmitHeld(job[w])'
    BY <1>4, <2>2 DEF SubmitHeld, BeginSubmit, NextCheck, AcceptsSubmitBy
  <2> QED
    BY <2>2, <2>3 DEF Held, CreateHeld, AttachHeld, UpdateHeld, SkillsHeld, RetractHeld,
                      ApproveHeld, RejectHeld, DeleteHeld, PurgeHeld, LoginHeld
<1>5. ASSUME NEW a \in Agents, BeginSubmitAll(w, u, a) PROVE Held(job[w])'
  <2>1. Begin(w, "submitAll", u, a, Submitted(row[a]), {}, "read")
    BY <1>5 DEF BeginSubmitAll
  <2>2. /\ job'[w].op = "submitAll" /\ job'[w].user = u /\ job'[w].item = a
        /\ job'[w].copy = Submitted(row[a]) /\ job'[w].step = "read"
        /\ row' = row /\ links' = links
    BY <2>1, BegunJob
  <2>3. SubmitHeld(job[w])' /\ SkillsHeld(job[w])'
    BY <1>0, <1>5, <2>2 DEF SubmitHeld, SkillsHeld, BeginSubmitAll, AcceptsSubmitBy
  <2> QED
    BY <2>2, <2>3 DEF Held, CreateHeld, AttachHeld, UpdateHeld, RetractHeld,
                      ApproveHeld, RejectHeld, DeleteHeld, PurgeHeld, LoginHeld
<1>6. ASSUME NEW a \in Agents, BeginRetract(w, u, a) PROVE Held(job[w])'
  <2>1. Begin(w, "retract", u, a, Retracted(row[a]), {}, "ready")
    BY <1>6 DEF BeginRetract
  <2>2. /\ job'[w].op = "retract" /\ job'[w].user = u /\ job'[w].item = a
        /\ job'[w].copy = Retracted(row[a]) /\ row' = row
    BY <2>1, BegunJob
  <2>3. RetractHeld(job[w])'
    BY <1>6, <2>2 DEF RetractHeld, BeginRetract
  <2> QED
    BY <2>2, <2>3 DEF Held, CreateHeld, AttachHeld, UpdateHeld, SubmitHeld, SkillsHeld,
                      ApproveHeld, RejectHeld, DeleteHeld, PurgeHeld, LoginHeld
<1>7. ASSUME NEW i \in Items, BeginApprove(w, u, i) PROVE Held(job[w])'
  <2> DEFINE st == IF row[i].status = "pending_review" THEN NextCheck(i) ELSE "ready"
  <2>1. Begin(w, "approve", u, i, Approved(i, row[i]), {}, st)
    BY <1>7 DEF BeginApprove
  <2>2. /\ job'[w].op = "approve" /\ job'[w].user = u /\ job'[w].item = i
        /\ job'[w].copy = Approved(i, row[i]) /\ job'[w].step = st /\ row' = row
    BY <2>1, BegunJob
  <2>3. ApproveHeld(job[w])'
    BY <1>7, <2>2 DEF ApproveHeld, BeginApprove, NextCheck
  <2> QED
    BY <2>2, <2>3 DEF Held, CreateHeld, AttachHeld, UpdateHeld, SubmitHeld, SkillsHeld,
                      RetractHeld, RejectHeld, DeleteHeld, PurgeHeld, LoginHeld
<1>8. ASSUME NEW i \in Items, BeginReject(w, u, i) PROVE Held(job[w])'
  <2>1. Begin(w, "reject", u, i, Rejected(row[i]), {}, "ready")
    BY <1>8 DEF BeginReject
  <2>2. /\ job'[w].op = "reject" /\ job'[w].user = u /\ job'[w].item = i
        /\ job'[w].copy = Rejected(row[i]) /\ row' = row
    BY <2>1, BegunJob
  <2>3. RejectHeld(job[w])'
    BY <1>8, <2>2 DEF RejectHeld, BeginReject
  <2> QED
    BY <2>2, <2>3 DEF Held, CreateHeld, AttachHeld, UpdateHeld, SubmitHeld, SkillsHeld,
                      RetractHeld, ApproveHeld, DeleteHeld, PurgeHeld, LoginHeld
<1>9. ASSUME NEW a \in Agents, BeginDeleteFromChat(w, u, a) \/ BeginDeleteAgent(w, u, a)
      PROVE  Held(job[w])'
  <2>1. PICK st \in {"read", "ready"} :
          /\ Begin(w, "delete", u, a, row[a], {}, st)
          /\ st = "ready" => row[a].status \in {"private", "rejected"}
    BY <1>9 DEF BeginDeleteFromChat, BeginDeleteAgent
  <2>2. /\ job'[w].op = "delete" /\ job'[w].user = u /\ job'[w].item = a
        /\ job'[w].rest = {} /\ job'[w].step = st /\ row' = row
    BY <2>1, BegunJob
  <2>3. DeleteHeld(job[w])'
    BY <1>9, <2>1, <2>2
    DEF DeleteHeld, BeginDeleteFromChat, BeginDeleteAgent, MayDelete, Exists
  <2> QED
    BY <2>2, <2>3 DEF Held, CreateHeld, AttachHeld, UpdateHeld, SubmitHeld, SkillsHeld,
                      RetractHeld, ApproveHeld, RejectHeld, PurgeHeld, LoginHeld
<1>10. ASSUME NEW g \in Guests, MoveAgents(w, g, u) PROVE Held(job[w])'
  <2>1. job'[w].op = "login" /\ job'[w].rest = {g}
    BY <1>10 DEF MoveAgents, TypeOK, Idle
  <2>2. LoginHeld(job[w])'
    BY <2>1 DEF LoginHeld
  <2> QED
    BY <2>1, <2>2 DEF Held, CreateHeld, AttachHeld, UpdateHeld, SubmitHeld, SkillsHeld,
                      RetractHeld, ApproveHeld, RejectHeld, DeleteHeld, PurgeHeld
<1> QED
  BY <1>1, <1>2, <1>3, <1>4, <1>5, <1>6, <1>7, <1>8, <1>9, <1>10 DEF Start

\* What a further read leaves: an error answer, or the same job with its check
\* passed.
LEMMA CheckedJob ==
  ASSUME TypeOK, NEW w \in Workers, NEW op, NEW ok, NEW rest, Check(w, op, ok, rest)
  PROVE  /\ job[w].op = op /\ job[w].step = "read"
         /\ row' = row /\ links' = links /\ published' = published
         /\ \/ job'[w] = Idle
            \/ /\ ok
               /\ job'[w].op = op /\ job'[w].user = job[w].user
               /\ job'[w].item = job[w].item /\ job'[w].copy = job[w].copy
               /\ job'[w].rest = rest /\ job'[w].step = "ready"
<1>1. job[w].op = op /\ job[w].step = "read" /\ job[w] \in Jobs
  BY DEF Check, TypeOK, Idle
<1>2. job'[w] = IF ok THEN [job[w] EXCEPT !.step = "ready", !.rest = rest] ELSE Idle
  BY DEF Check, TypeOK
<1>3. row' = row /\ links' = links /\ published' = published
  BY DEF Check
<1> QED BY <1>1, <1>2, <1>3 DEF Jobs

\* Each further step leaves what was checked true: there is nobody else to
\* change it.
LEMMA ContinueHeld ==
  ASSUME RaceInv, NEW w \in Workers, job[w] # Idle => Held(job[w]), Continue(w),
         job'[w] # Idle
  PROVE  Held(job[w])'
<1> DEFINE j == job[w]
<1> USE DEF RaceInv
<1>0. /\ Agents \cap Skills = {} /\ Items = Agents \cup Skills
      /\ j # Idle => j \in Jobs /\ FitToWrite(j) /\ Held(j)
  BY NamesAssumption DEF Items, TypeOK, HeldCopiesAreFit
<1>1. CASE CheckSlug(w)
  <2>1. Check(w, "create", SlugFree(j.item), {})
    BY <1>1 DEF CheckSlug
  <2>2. /\ j.op = "create" /\ j.step = "read" /\ row' = row /\ SlugFree(j.item)
        /\ job'[w].op = "create" /\ job'[w].user = j.user
        /\ job'[w].item = j.item /\ job'[w].copy = j.copy
    BY <2>1, CheckedJob
  <2>3. CreateHeld(j)
    BY <1>0, <2>2 DEF Held, Idle
  <2>4. CreateHeld(job[w])'
    BY <2>2, <2>3 DEF CreateHeld, SlugFree
  <2> QED
    BY <2>2, <2>4 DEF Held, AttachHeld, UpdateHeld, SubmitHeld, SkillsHeld, RetractHeld,
                      ApproveHeld, RejectHeld, DeleteHeld, PurgeHeld, LoginHeld
<1>2. CASE CheckAttach(w)
  <2> DEFINE ok == \A s \in j.rest : Exists(row[s]) /\ MayAttach(j.user, s)
  <2>1. Check(w, "attach", ok, j.rest)
    BY <1>2 DEF CheckAttach
  <2> HIDE DEF ok
  <2>2. /\ j.op = "attach" /\ j.step = "read" /\ row' = row
        /\ ok /\ job'[w].op = "attach" /\ job'[w].user = j.user
        /\ job'[w].item = j.item /\ job'[w].rest = j.rest
    BY <2>1, CheckedJob
  <2>3. AttachHeld(j)
    BY <1>0, <2>2 DEF Held, Idle
  <2>4. AttachHeld(job[w])'
    BY <2>2, <2>3 DEF ok, AttachHeld, MayAttach
  <2> QED
    BY <2>2, <2>4 DEF Held, CreateHeld, UpdateHeld, SubmitHeld, SkillsHeld, RetractHeld,
                      ApproveHeld, RejectHeld, DeleteHeld, PurgeHeld, LoginHeld
<1>3. CASE CheckHasSkill(w)
  <2> DEFINE ok == SkillsOf(j.item) # {}
  <2>1. PICK op \in {"submit", "submitAll"} : Check(w, op, ok, {})
    BY <1>3 DEF CheckHasSkill
  <2> HIDE DEF ok
  <2>2. /\ j.op = op /\ j.step = "read" /\ row' = row /\ links' = links
        /\ ok /\ job'[w].op = op /\ job'[w].user = j.user
        /\ job'[w].item = j.item /\ job'[w].copy = j.copy /\ job'[w].rest = {}
        /\ job'[w].step = "ready"
    BY <2>1, CheckedJob
  <2>3. SubmitHeld(j)
    BY <1>0, <2>2 DEF Held, Idle
  <2>4. SubmitHeld(job[w])' /\ SkillsHeld(job[w])'
    BY <2>2, <2>3 DEF ok, SubmitHeld, SkillsHeld, AcceptsSubmitBy, SkillsOf
  <2> QED
    BY <2>1, <2>2, <2>4 DEF Held, CreateHeld, AttachHeld, UpdateHeld, RetractHeld,
                            ApproveHeld, RejectHeld, DeleteHeld, PurgeHeld, LoginHeld
<1>4. CASE CheckSkills(w)
  <2>1. Check(w, "approve", SkillsReady(j.item), {})
    BY <1>4 DEF CheckSkills
  <2>2. /\ j.op = "approve" /\ j.step = "read" /\ row' = row /\ links' = links
        /\ SkillsReady(j.item) /\ job'[w].op = "approve" /\ job'[w].user = j.user
        /\ job'[w].item = j.item /\ job'[w].copy = j.copy
    BY <2>1, CheckedJob
  <2>3. ApproveHeld(j)
    BY <1>0, <2>2 DEF Held, Idle
  <2>4. ApproveHeld(job[w])'
    BY <2>2, <2>3 DEF ApproveHeld, SkillsReady, SkillsOf
  <2> QED
    BY <2>2, <2>4 DEF Held, CreateHeld, AttachHeld, UpdateHeld, SubmitHeld, SkillsHeld,
                      RetractHeld, RejectHeld, DeleteHeld, PurgeHeld, LoginHeld
<1>5. CASE ScanExclusive(w)
  <2> DEFINE ok == TRUE
  <2>1. Check(w, "delete", ok, Exclusive(j.item))
    BY <1>5 DEF ScanExclusive
  <2> HIDE DEF ok
  <2>2. /\ j.op = "delete" /\ j.step = "read" /\ row' = row /\ links' = links
        /\ job'[w].op = "delete" /\ job'[w].user = j.user
        /\ job'[w].item = j.item /\ job'[w].rest = Exclusive(j.item)
    BY <2>1, CheckedJob
  <2>3. DeleteHeld(j)
    BY <1>0, <2>2 DEF Held, Idle
  <2>4. DeleteHeld(job[w])'
    BY <2>2, <2>3 DEF DeleteHeld, Exclusive, SkillsOf, UsersOfSkill
  <2> QED
    BY <2>2, <2>4 DEF Held, CreateHeld, AttachHeld, UpdateHeld, SubmitHeld, SkillsHeld,
                      RetractHeld, ApproveHeld, RejectHeld, PurgeHeld, LoginHeld
<1>6. ASSUME Insert(w) \/ InsertLink(w) \/ \E g \in Guests : MoveSkills(w, g) PROVE FALSE
  BY <1>6 DEF Insert, InsertLink, MoveSkills, TypeOK
<1>7. CASE Save(w)
  <2>1. j \in Jobs /\ FitToWrite(j) /\ Held(j) /\ j.step = "ready" /\ j.item \in Items
    BY <1>0, <1>7 DEF Save, Ready, SaveOps, Idle, FitToWrite
  <2>2. job'[w] = AfterSave(j) /\ j.op = "submitAll"
    BY <1>7 DEF Save, AfterSave, TypeOK
  <2>3. /\ job'[w].op = "submitAll"
        /\ \/ /\ job'[w].step = "list" /\ job'[w].item \in Agents
           \/ /\ job'[w].step = "loop" /\ job'[w].rest = j.rest /\ j.item \in Skills
    BY <1>0, <2>1, <2>2 DEF AfterSave, Jobs
  <2>4. SkillsHeld(job[w])'
    BY <2>1, <2>2, <2>3 DEF Held, SkillsHeld
  <2> QED
    BY <2>3, <2>4 DEF Held, CreateHeld, AttachHeld, UpdateHeld, SubmitHeld, RetractHeld,
                      ApproveHeld, RejectHeld, DeleteHeld, PurgeHeld, LoginHeld
<1>8. CASE ListPrivateSkills(w)
  <2>1. j \in Jobs /\ j.op = "submitAll"
    BY <1>0, <1>8 DEF ListPrivateSkills, Idle, FitToWrite
  <2>2. /\ job'[w].op = "submitAll" /\ job'[w].step = "loop" /\ job'[w].rest \subseteq Skills
    BY <1>8, <2>1 DEF ListPrivateSkills, TypeOK, Jobs, SkillsOf
  <2>3. SkillsHeld(job[w])'
    BY <2>2 DEF SkillsHeld
  <2> QED
    BY <2>2, <2>3 DEF Held, CreateHeld, AttachHeld, UpdateHeld, SubmitHeld, RetractHeld,
                      ApproveHeld, RejectHeld, DeleteHeld, PurgeHeld, LoginHeld
<1>9. ASSUME NEW s \in Skills, ReadSkill(w, s) PROVE Held(job[w])'
  <2>1. j \in Jobs /\ j.op = "submitAll" /\ j.step = "loop" /\ Held(j) /\ j.rest \subseteq Skills
    BY <1>0, <1>9 DEF ReadSkill, Idle, FitToWrite, Held, SkillsHeld
  <2>2. row' = row /\ links' = links
    BY <1>9 DEF ReadSkill
  <2>3. /\ job'[w].op = "submitAll" /\ job'[w].user = j.user
        /\ \/ /\ AcceptsSubmitBy(j.user, s)
              /\ job'[w].step = "ready" /\ job'[w].item = s
              /\ job'[w].copy = Submitted(row[s]) /\ job'[w].rest = j.rest \ {s}
           \/ job'[w].step = "loop" /\ job'[w].rest = j.rest \ {s}
    BY <1>9, <2>1 DEF ReadSkill, TypeOK, Jobs
  <2>4. SubmitHeld(job[w])' /\ SkillsHeld(job[w])'
    BY <1>0, <2>1, <2>2, <2>3 DEF SubmitHeld, SkillsHeld, AcceptsSubmitBy
  <2> QED
    BY <2>3, <2>4 DEF Held, CreateHeld, AttachHeld, UpdateHeld, RetractHeld,
                      ApproveHeld, RejectHeld, DeleteHeld, PurgeHeld, LoginHeld
<1>10. CASE DeleteRow(w)
  <2>1. /\ j \in Jobs /\ j.op = "delete" /\ j.step = "ready" /\ Held(j)
        /\ j.item \in Agents
    BY <1>0, <1>10 DEF DeleteRow, Ready, Idle, FitToWrite
  <2>2. /\ job'[w].op = "purge" /\ job'[w].rest = j.rest /\ j.rest # {}
        /\ links' = {l \in links : l[1] # j.item}
    BY <1>10, <2>1 DEF DeleteRow, TypeOK, Jobs
  <2>3. j.rest = Exclusive(j.item)
    BY <2>1, <2>2 DEF Held, DeleteHeld
  <2>4. \A l \in links : l[2] \in Exclusive(j.item) => l[1] = j.item
    <3>1. \A l \in links : l[1] \in Agents /\ l = <<l[1], l[2]>>
      BY DEF TypeOK
    <3> QED BY <3>1 DEF Exclusive, UsersOfSkill
  <2>5. PurgeHeld(job[w])'
    BY <2>2, <2>3, <2>4 DEF PurgeHeld, Exclusive, SkillsOf
  <2> QED
    BY <2>2, <2>5 DEF Held, CreateHeld, AttachHeld, UpdateHeld, SubmitHeld, SkillsHeld,
                      RetractHeld, ApproveHeld, RejectHeld, DeleteHeld, LoginHeld
<1>11. ASSUME NEW s \in Skills, PurgeSkill(w, s) PROVE Held(job[w])'
  <2>1. j \in Jobs /\ j.op = "purge" /\ Held(j)
    BY <1>0, <1>11 DEF PurgeSkill, Ready, Idle
  <2>2. /\ job'[w].op = "purge" /\ job'[w].rest = j.rest \ {s} /\ links' \subseteq links
    BY <1>11, <2>1 DEF PurgeSkill, TypeOK, Jobs
  <2>3. PurgeHeld(job[w])'
    BY <2>1, <2>2 DEF Held, PurgeHeld
  <2> QED
    BY <2>2, <2>3 DEF Held, CreateHeld, AttachHeld, UpdateHeld, SubmitHeld, SkillsHeld,
                      RetractHeld, ApproveHeld, RejectHeld, DeleteHeld, LoginHeld
<1> QED
  BY <1>1, <1>2, <1>3, <1>4, <1>5, <1>6, <1>7, <1>8, <1>9, <1>10, <1>11 DEF Continue

LEMMA NextSerialInv ==
  ASSUME NEW w, Workers = {w}
  PROVE  RaceInv /\ SerialInv /\ [Next]_vars => SerialInv'
<1>1. ASSUME RaceInv, SerialInv, Next PROVE SerialInv'
  <2>1. (\E u \in Users : Start(w, u)) \/ Continue(w)
    BY <1>1 DEF Next
  <2>2. job'[w] # Idle => Held(job[w])'
    BY <1>1, <2>1, StartHeld, ContinueHeld DEF SerialInv
  <2> QED BY <2>2 DEF SerialInv
<1>2. ASSUME SerialInv, UNCHANGED vars PROVE SerialInv'
  BY <1>2 DEF vars, SerialInv, Held, CreateHeld, AttachHeld, UpdateHeld, SubmitHeld,
              SkillsHeld, RetractHeld, ApproveHeld, RejectHeld, DeleteHeld, PurgeHeld,
              LoginHeld, SlugFree, MayAttach, AcceptsSubmitBy, SkillsOf, SkillsReady,
              Exclusive, UsersOfSkill
<1> QED BY <1>1, <1>2

LEMMA SerialInvHolds ==
  ASSUME NEW w, Workers = {w}
  PROVE  Spec => []SerialInv
<1>1. Init => SerialInv
  BY DEF Init, SerialInv
<1>2. RaceInv /\ SerialInv /\ [Next]_vars => SerialInv'
  BY NextSerialInv
<1> QED BY <1>1, <1>2, RaceInvHolds, PTL DEF Spec

-----------------------------------------------------------------------------
(* ... and implement the handlers of Governance.tla *)

\* A step that leaves the tables alone, between two jobs with one write each,
\* is no step of the handlers that run alone.
LEMMA QuietStep ==
  ASSUME NEW w, Workers = {w}, RaceInv, RaceInv',
         OneWrite(job[w]), OneWrite(job[w])', UNCHANGED <<row, links, published>>
  PROVE  UNCHANGED Serial!vars
BY OneWriteSettled DEF RaceInv, Serial!vars

LEMMA StartSimulates ==
  ASSUME NEW w, Workers = {w}, RaceInv, RaceInv', NEW u \in Users, Start(w, u)
  PROVE  Serial!Next \/ UNCHANGED Serial!vars
<1> USE DEF RaceInv
<1>1. job[w] = Idle => OneWrite(job[w])
  BY DEF OneWrite, Idle
<1>2. ASSUME NEW op \in Ops \ {"purge", "login"}, NEW i, NEW copy, NEW rest, NEW step,
             Begin(w, op, u, i, copy, rest, step),
             op = "submitAll" => step = "read" /\ i \in Agents
      PROVE  UNCHANGED Serial!vars
  <2>1. OneWrite(job[w])' /\ UNCHANGED <<row, links, published>>
    BY <1>2, BegunJob, NamesAssumption DEF OneWrite
  <2>2. job[w] = Idle
    BY <1>2 DEF Begin
  <2> QED BY <1>1, <2>1, <2>2, QuietStep
<1>3. ASSUME NEW g \in Guests, MoveAgents(w, g, u) PROVE Serial!Next
  <2>1. SettledRow = row
    BY <1>1, <1>3, OneWriteSettled DEF MoveAgents
  <2>2. /\ job'[w].op = "login" /\ job'[w].rest = {g} /\ job'[w].user = u
        /\ row' = Reowned(Agents, g, u) /\ UNCHANGED <<links, published>>
    BY <1>3 DEF MoveAgents, TypeOK, Idle
  <2>3. ASSUME NEW i \in Items
        PROVE  (Finishing(job[w], i))'
                 = IF row[i].owner = g THEN [row[i] EXCEPT !.owner = u] ELSE row[i]
    BY <2>2, <2>3, NamesAssumption DEF Finishing, Reowned, Items
  <2> DEFINE moved(i) == IF row[i].owner = g THEN [row[i] EXCEPT !.owner = u] ELSE row[i]
  <2>4. SettledRow' = [i \in Items |-> moved(i)]
    <3>1. \A i \in Items : (Finishing(job[w], i))' = moved(i)
      BY <2>3
    <3> HIDE DEF moved
    <3> QED BY <3>1, SettledIs
  <2>5. Serial!Login(g, u)
    BY <1>3, <2>1, <2>2, <2>4 DEF MoveAgents, Serial!Login, Serial!LoggedIn, LoggedIn,
                                  Serial!Items, Items
  <2> QED BY <2>5 DEF Serial!Next
<1>4. ASSUME NEW i \in Items, NEW t \in [Fields -> Values], NEW v \in Visibilities,
             BeginCreate(w, u, i, t, v)
      PROVE  UNCHANGED Serial!vars
  BY <1>2, <1>4 DEF BeginCreate, Ops
<1>5. ASSUME NEW a \in Agents, NEW s \in Skills, BeginAttach(w, u, a, s)
      PROVE  UNCHANGED Serial!vars
  BY <1>2, <1>5 DEF BeginAttach, Ops
<1>6. ASSUME NEW i \in Items, NEW e \in Edits, BeginUpdate(w, u, i, e)
      PROVE  UNCHANGED Serial!vars
  BY <1>2, <1>6 DEF BeginUpdate, Ops
<1>7. ASSUME NEW i \in Items, BeginSubmit(w, u, i) \/ BeginApprove(w, u, i) \/ BeginReject(w, u, i)
      PROVE  UNCHANGED Serial!vars
  BY <1>2, <1>7 DEF BeginSubmit, BeginApprove, BeginReject, Ops
<1>8. ASSUME NEW a \in Agents,
             \/ BeginSubmitAll(w, u, a) \/ BeginRetract(w, u, a)
             \/ BeginDeleteFromChat(w, u, a) \/ BeginDeleteAgent(w, u, a)
      PROVE  UNCHANGED Serial!vars
  BY <1>2, <1>8 DEF BeginSubmitAll, BeginRetract, BeginDeleteFromChat, BeginDeleteAgent, Ops
<1> QED
  BY <1>3, <1>4, <1>5, <1>6, <1>7, <1>8 DEF Start

\* The rules of ItemLifecycle.tla reach Governance.tla unchanged.
LEMMA SameRules ==
  /\ Serial!Items = Items /\ Serial!Visibilities = Visibilities /\ Serial!Edits = Edits
  /\ Serial!Keep = Keep /\ Serial!Absent = Absent
  /\ \A r : Serial!Exists(r) <=> Exists(r)
  /\ \A u : (Serial!IsAdmin(u) <=> IsAdmin(u)) /\ (Serial!LoggedIn(u) <=> LoggedIn(u))
  /\ \A r, u : /\ Serial!CanEdit(r, u) <=> CanEdit(r, u)
               /\ Serial!CanUpdate(r, u) <=> CanUpdate(r, u)
  /\ \A i, t : Serial!Passes(i, t) <=> Passes(i, t)
  /\ \A i, r : Serial!AcceptsSubmit(i, r) <=> AcceptsSubmit(i, r)
  /\ \A i, r, e : Serial!AcceptsEdit(i, r, e) <=> AcceptsEdit(i, r, e)
  /\ \A r : Serial!Reviewable(r) <=> Reviewable(r)
  /\ \A u, t, v : Serial!Created(u, t, v) = Created(u, t, v)
  /\ \A r : /\ Serial!Submitted(r) = Submitted(r) /\ Serial!Retracted(r) = Retracted(r)
            /\ Serial!Rejected(r) = Rejected(r)
  /\ \A r, e : Serial!Proposed(r, e) = Proposed(r, e)
  /\ \A i, r : Serial!Approved(i, r) = Approved(i, r)
<1> USE DEF Serial!Keep, Keep, Serial!NoEdit, NoEdit
<1>1. /\ Serial!Items = Items /\ Serial!Visibilities = Visibilities /\ Serial!Edits = Edits
      /\ Serial!Absent = Absent
  BY DEF Serial!Items, Items, Serial!Visibilities, Visibilities, Serial!Edits, Edits,
         Serial!Absent, Absent
<1>2. /\ \A r : Serial!Exists(r) <=> Exists(r)
      /\ \A u : (Serial!IsAdmin(u) <=> IsAdmin(u)) /\ (Serial!LoggedIn(u) <=> LoggedIn(u))
      /\ \A r, u : /\ Serial!CanEdit(r, u) <=> CanEdit(r, u)
                   /\ Serial!CanUpdate(r, u) <=> CanUpdate(r, u)
      /\ \A i, t : Serial!Passes(i, t) <=> Passes(i, t)
      /\ \A i, r : Serial!AcceptsSubmit(i, r) <=> AcceptsSubmit(i, r)
  BY DEF Serial!Exists, Exists, Serial!IsAdmin, IsAdmin, Serial!LoggedIn, LoggedIn,
         Serial!CanEdit, CanEdit, Serial!CanUpdate, CanUpdate, Serial!Passes, Passes,
         Serial!AcceptsSubmit, AcceptsSubmit
<1>3. /\ \A e : Serial!Queued(e) = Queued(e)
      /\ \A t, e : Serial!ApplyText(t, e) = ApplyText(t, e)
      /\ \A v, e : Serial!ApplyVisibility(v, e) = ApplyVisibility(v, e)
      /\ \A r : Serial!HasQueuedEdit(r) <=> HasQueuedEdit(r)
  BY DEF Serial!Queued, Queued, Serial!ApplyText, ApplyText, Serial!ApplyVisibility,
         ApplyVisibility, Serial!HasQueuedEdit, HasQueuedEdit
<1>4. /\ \A p, e : Serial!Merge(p, e) = Merge(p, e)
      /\ \A r : Serial!Reviewable(r) <=> Reviewable(r)
  BY <1>3 DEF Serial!Merge, Merge, Serial!Reviewable, Reviewable
<1>5. \A i, r, e : Serial!AcceptsEdit(i, r, e) <=> AcceptsEdit(i, r, e)
  BY <1>2, <1>3, <1>4 DEF Serial!AcceptsEdit, AcceptsEdit
<1>6. /\ \A u, t, v : Serial!Created(u, t, v) = Created(u, t, v)
      /\ \A r : /\ Serial!Submitted(r) = Submitted(r) /\ Serial!Retracted(r) = Retracted(r)
                /\ Serial!Rejected(r) = Rejected(r)
  BY <1>1, <1>3 DEF Serial!Created, Created, Serial!Submitted, Submitted,
                    Serial!Retracted, Retracted, Serial!Rejected, Rejected
<1>7. /\ \A r, e : Serial!Proposed(r, e) = Proposed(r, e)
      /\ \A i, r : Serial!Approved(i, r) = Approved(i, r)
  BY <1>3, <1>4 DEF Serial!Proposed, Proposed, Serial!Approved, Approved
<1>8. Serial!Keep = Keep
  OBVIOUS
<1> HIDE DEF Serial!Keep, Keep, Serial!NoEdit, NoEdit
<1> QED BY <1>1, <1>2, <1>4, <1>5, <1>6, <1>7, <1>8

LEMMA HandlersAreSteps ==
  ASSUME NEW u \in Users
  PROVE  /\ \A a \in Agents, t \in [Fields -> Values], v \in Visibilities :
              Serial!CreateAgent(u, a, t, v) => Serial!Next
         /\ \A s \in Skills, t \in [Fields -> Values] :
              Serial!CreateSkill(u, s, t) => Serial!Next
         /\ \A a \in Agents, s \in Skills : Serial!AttachSkill(u, a, s) => Serial!Next
         /\ \A i \in Items, e \in Edits : Serial!Update(u, i, e) => Serial!Next
         /\ \A i \in Items :
              Serial!Submit(u, i) \/ Serial!Approve(u, i) \/ Serial!Reject(u, i)
                => Serial!Next
         /\ \A a \in Agents :
              Serial!SubmitWithSkills(u, a) \/ Serial!Retract(u, a) => Serial!Next
         /\ \A a \in Agents :
              Serial!DeleteFromChat(u, a) \/ Serial!DeleteAgent(u, a) => Serial!Next
BY SameRules, Zenon DEF Serial!Next

LEMMA CheckSimulates ==
  ASSUME NEW w, Workers = {w}, RaceInv, RaceInv', SerialInv, SerialInv',
         NEW op, NEW ok, NEW rest, Check(w, op, ok, rest), op # "purge", op # "login"
  PROVE  UNCHANGED Serial!vars
<1>1. /\ job[w].op = op /\ job[w].step = "read" /\ job[w] # Idle
      /\ UNCHANGED <<row, links, published>>
  BY CheckedJob DEF RaceInv, Idle
<1>2. job'[w] = Idle \/ (job'[w].op = op /\ job'[w].item = job[w].item /\ job'[w].step = "ready")
  BY CheckedJob DEF RaceInv
<1>3. op = "submitAll" => job[w].item \notin Skills
  BY <1>1, NamesAssumption DEF SerialInv, Held, SkillsHeld
<1>4. OneWrite(job[w]) /\ OneWrite(job[w])'
  BY <1>1, <1>2, <1>3 DEF OneWrite, Idle
<1> QED BY <1>1, <1>4, QuietStep

\* The write of a handler that has only one.
LEMMA SingleSaveSimulates ==
  ASSUME NEW w, Workers = {w}, RaceInv, RaceInv', SerialInv, Save(w),
         job[w].op # "submitAll"
  PROVE  Serial!Next
<1> DEFINE j == job[w]
           i == j.item
           u == j.user
<1>1. /\ j \in Jobs /\ FitToWrite(j) /\ Held(j) /\ j.step = "ready" /\ j.op \in SaveOps
      /\ i \in Items /\ u \in Users
  BY DEF Save, Ready, RaceInv, TypeOK, HeldCopiesAreFit, SerialInv, SaveOps, Idle,
         FitToWrite, Jobs
<1>2. Exists(row[i])
  BY <1>1 DEF Held, UpdateHeld, SubmitHeld, RetractHeld, ApproveHeld, RejectHeld, SaveOps,
              AcceptsSubmitBy, Exists, Reviewable, HasQueuedEdit
<1>3. /\ row' = [row EXCEPT ![i] = j.copy] /\ links' = links
      /\ published' = IF j.op = "approve"
                        THEN [published EXCEPT ![i] = @ \cup {j.copy.text}] ELSE published
      /\ job'[w] = Idle
  BY <1>2 DEF Save, Overwrite, AfterSave, RaceInv, TypeOK
<1>4. SettledRow = row /\ SettledRow' = row'
  <2>1. OneWrite(j) /\ OneWrite(job[w])'
    BY <1>1, <1>3 DEF OneWrite, Idle, SaveOps
  <2> QED BY <2>1, OneWriteSettled DEF RaceInv
<1>5. row \in [Items -> Row]
  BY DEF RaceInv, TypeOK
<1>6. CASE j.op = "update"
  <2>1. PICK e \in Edits :
          /\ i \in Skills => e.visibility = Keep
          /\ AcceptsEdit(i, row[i], e) /\ j.copy = Proposed(row[i], e)
    BY <1>1, <1>6 DEF Held, UpdateHeld
  <2>2. LoggedIn(u) /\ Exists(row[i]) /\ CanUpdate(row[i], u)
    BY <1>1, <1>6 DEF Held, UpdateHeld
  <2>3. Serial!Update(u, i, e)
    BY <1>3, <1>4, <1>6, <2>1, <2>2, SameRules DEF Serial!Update
  <2> QED BY <1>1, <2>3, HandlersAreSteps
<1>7. CASE j.op = "submit"
  <2>1. /\ AcceptsSubmitBy(u, i) /\ j.copy = Submitted(row[i])
        /\ i \in Agents => SkillsOf(i) # {}
    BY <1>1, <1>7 DEF Held, SubmitHeld
  <2>2. Serial!MaySubmit(u, i)
    BY <1>4, <2>1, SameRules
    DEF Serial!MaySubmit, AcceptsSubmitBy, Serial!SkillsOf, SkillsOf
  <2>3. Serial!Submit(u, i)
    BY <1>3, <1>4, <1>7, <2>1, <2>2, SameRules DEF Serial!Submit
  <2> QED BY <1>1, <2>3, HandlersAreSteps
<1>8. CASE j.op = "retract"
  <2>1. /\ LoggedIn(u) /\ i \in Agents /\ CanEdit(row[i], u)
        /\ row[i].status = "pending_review" /\ j.copy = Retracted(row[i])
    BY <1>1, <1>8 DEF Held, RetractHeld
  <2>2. Serial!Retract(u, i)
    BY <1>3, <1>4, <1>8, <2>1, SameRules DEF Serial!Retract
  <2>3. u \in Users /\ i \in Agents
    BY <1>1, <2>1
  <2> QED BY <2>2, <2>3, HandlersAreSteps
<1>9. CASE j.op = "approve"
  <2>1. /\ IsAdmin(u) /\ Reviewable(row[i]) /\ row[i].version < MaxVersion
        /\ j.copy = Approved(i, row[i])
        /\ row[i].status = "pending_review" /\ i \in Agents => SkillsReady(i)
    BY <1>1, <1>9 DEF Held, ApproveHeld
  <2>2. row[i].status = "pending_review" /\ i \in Agents => Serial!SkillsReady(i)
    BY <1>4, <2>1 DEF SkillsReady, SkillsOf, Serial!SkillsReady, Serial!SkillsOf
  <2>3. row'[i] = j.copy
    BY <1>1, <1>3, <1>5
  <2>4. Serial!Approve(u, i)
    BY <1>3, <1>4, <1>9, <2>1, <2>2, <2>3, SameRules DEF Serial!Approve
  <2> QED BY <1>1, <2>4, HandlersAreSteps
<1>10. CASE j.op = "reject"
  <2>1. IsAdmin(u) /\ Reviewable(row[i]) /\ j.copy = Rejected(row[i])
    BY <1>1, <1>10 DEF Held, RejectHeld
  <2>2. Serial!Reject(u, i)
    BY <1>3, <1>4, <1>10, <2>1, SameRules DEF Serial!Reject
  <2> QED BY <1>1, <2>2, HandlersAreSteps
<1> QED BY <1>1, <1>6, <1>7, <1>8, <1>9, <1>10 DEF SaveOps

\* submitAll: the write of the agent stands for the whole handler, the writes
\* of its skills bring nothing the mapped rows do not show yet.
LEMMA SubmitAllSimulates ==
  ASSUME NEW w, Workers = {w}, RaceInv, RaceInv', SerialInv, Save(w),
         job[w].op = "submitAll"
  PROVE  Serial!Next \/ UNCHANGED Serial!vars
<1> DEFINE j == job[w]
           i == j.item
<1>0. PICK u : u = j.user
  OBVIOUS
<1>1. /\ j \in Jobs /\ Held(j) /\ j.step = "ready" /\ i \in Items /\ u \in Users
  BY <1>0 DEF Save, Ready, RaceInv, TypeOK, HeldCopiesAreFit, SerialInv, SaveOps, Idle,
         FitToWrite, Jobs
<1>2. /\ AcceptsSubmitBy(u, i) /\ j.copy = Submitted(row[i])
      /\ i \in Agents => SkillsOf(i) # {}
      /\ i \in Skills => j.rest \subseteq Skills /\ i \notin j.rest
  BY <1>0, <1>1 DEF Held, SubmitHeld, SkillsHeld
<1>3. /\ row' = [row EXCEPT ![i] = Submitted(row[i])]
      /\ UNCHANGED <<links, published>> /\ job'[w] = AfterSave(j)
  BY <1>2 DEF Save, Overwrite, AcceptsSubmitBy, RaceInv, TypeOK
<1>4. row \in [Items -> Row] /\ Agents \cap Skills = {} /\ Items = Agents \cup Skills
  BY NamesAssumption DEF RaceInv, TypeOK, Items
<1>5. /\ row'[i] = Submitted(row[i])
      /\ \A k \in Items : k # i => row'[k] = row[k]
  BY <1>1, <1>3, <1>4
<1>6. \A k \in Items : k # i => (AcceptsSubmitBy(u, k)' <=> AcceptsSubmitBy(u, k))
  BY <1>5 DEF AcceptsSubmitBy
<1>7. CASE i \in Agents
  <2> DEFINE sent(k) == IF k = i \/ (k \in SkillsOf(i) /\ AcceptsSubmitBy(u, k))
                          THEN Submitted(row[k]) ELSE row[k]
  <2>1. SettledRow = row
    BY <1>1, <1>4, <1>7, OneWriteSettled DEF OneWrite, RaceInv
  <2>2. job'[w].op = "submitAll" /\ job'[w].step = "list" /\ job'[w].item = i /\ job'[w].user = u
    BY <1>0, <1>1, <1>3, <1>7 DEF AfterSave, Jobs
  <2>3. ASSUME NEW k \in Items PROVE (Finishing(job[w], k))' = sent(k)
    <3>1. (Finishing(job[w], k))'
            = IF k \in SkillsOf(i) /\ AcceptsSubmitBy(u, k)'
                THEN Submitted(row'[k]) ELSE row'[k]
      BY <1>3, <2>2 DEF Finishing, SkillsOf
    <3>2. k \in SkillsOf(i) => k # i
      BY <1>4, <1>7 DEF SkillsOf
    <3> QED BY <1>5, <1>6, <3>1, <3>2
  <2>4. SettledRow' = [k \in Items |-> sent(k)]
    <3> HIDE DEF sent
    <3> QED BY <2>3, SettledIs
  <2>5. Serial!SkillsOf(i) = SkillsOf(i)
    BY DEF Serial!SkillsOf, SkillsOf
  <2>6. \A k \in Items : k = i \/ k \in SkillsOf(i) =>
          (Serial!MaySubmit(u, k) <=> AcceptsSubmitBy(u, k))
    BY <1>2, <1>4, <1>7, <2>1, <2>5, SameRules
    DEF Serial!MaySubmit, AcceptsSubmitBy, SkillsOf
  <2>7. SettledRow' = [k \in Serial!Items |->
                         IF k = i \/ (k \in Serial!SkillsOf(i) /\ Serial!MaySubmit(u, k))
                           THEN Serial!Submitted(SettledRow[k]) ELSE SettledRow[k]]
    BY <2>1, <2>4, <2>5, <2>6, SameRules
  <2>8. Serial!SubmitWithSkills(u, i)
    BY <1>1, <1>2, <1>3, <2>6, <2>7 DEF Serial!SubmitWithSkills
  <2> QED BY <1>1, <1>7, <2>8, HandlersAreSteps
<1>8. CASE i \in Skills
  <2>1. /\ j.op = "submitAll" /\ j.rest \subseteq Skills /\ i \notin j.rest
    BY <1>2, <1>8
  <2>2. \/ j.rest = {} /\ job'[w] = Idle
        \/ /\ job'[w].op = "submitAll" /\ job'[w].step = "loop"
           /\ job'[w].rest = j.rest /\ job'[w].user = u
    BY <1>0, <1>1, <1>3, <1>4, <1>8 DEF AfterSave, Jobs
  <2>3. ASSUME NEW k \in Items PROVE (Finishing(job[w], k))' = Finishing(j, k)
    <3>1. Finishing(j, k) = IF k \in j.rest \cup {i} /\ AcceptsSubmitBy(u, k)
                              THEN Submitted(row[k]) ELSE row[k]
      BY <1>0, <1>1, <1>8 DEF Finishing
    <3>2. (Finishing(job[w], k))' = IF k \in j.rest /\ AcceptsSubmitBy(u, k)'
                                      THEN Submitted(row'[k]) ELSE row'[k]
      BY <2>2 DEF Finishing, Idle
    <3> QED BY <1>2, <1>5, <1>6, <2>1, <3>1, <3>2
  <2>4. SettledRow' = SettledRow
    BY <2>3, SettledIs
  <2> QED BY <1>3, <2>4 DEF Serial!vars
<1> QED BY <1>1, <1>4, <1>7, <1>8

LEMMA InsertSimulates ==
  ASSUME NEW w, Workers = {w}, RaceInv, RaceInv', SerialInv, Insert(w)
  PROVE  Serial!Next
<1> DEFINE j == job[w]
           i == j.item
           u == j.user
<1>1. /\ j \in Jobs /\ FitToWrite(j) /\ Held(j) /\ j.step = "ready" /\ j.op = "create"
      /\ i \in Items /\ u \in Users
  BY DEF Insert, Ready, RaceInv, TypeOK, HeldCopiesAreFit, SerialInv, Idle, FitToWrite, Jobs
<1>2. PICK t \in [Fields -> Values], v \in Visibilities :
        /\ j.copy = Created(u, t, v) /\ Passes(i, t)
        /\ i \in Skills => v = "company"
  BY <1>1 DEF Held, CreateHeld
<1>3. ~Exists(row[i]) /\ (i \in Agents => SlugFree(i))
  BY <1>1 DEF Held, CreateHeld
<1>4. /\ row' = [row EXCEPT ![i] = Created(u, t, v)]
      /\ UNCHANGED <<links, published>> /\ job'[w] = Idle
  BY <1>2, <1>3 DEF Insert, RaceInv, TypeOK
<1>5. SettledRow = row /\ SettledRow' = row'
  BY <1>1, <1>4, OneWriteSettled DEF OneWrite, Idle, RaceInv
<1>6. CASE i \in Agents
  <2>1. Serial!SlugFree(i)
    BY <1>3, <1>5, <1>6, SameRules DEF Serial!SlugFree, SlugFree
  <2>2. Serial!CreateAgent(u, i, t, v)
    BY <1>2, <1>3, <1>4, <1>5, <2>1, SameRules DEF Serial!CreateAgent
  <2> QED BY <1>1, <1>6, <2>2, HandlersAreSteps
<1>7. CASE i \in Skills
  <2>1. Serial!CreateSkill(u, i, t)
    BY <1>2, <1>3, <1>4, <1>5, <1>7, SameRules DEF Serial!CreateSkill
  <2> QED BY <1>1, <1>7, <2>1, HandlersAreSteps
<1> QED BY <1>1, <1>6, <1>7 DEF Items

LEMMA InsertLinkSimulates ==
  ASSUME NEW w, Workers = {w}, RaceInv, RaceInv', SerialInv, InsertLink(w)
  PROVE  Serial!Next
<1> DEFINE j == job[w]
           a == j.item
           u == j.user
<1>1. /\ j \in Jobs /\ FitToWrite(j) /\ Held(j) /\ j.step = "ready" /\ j.op = "attach"
      /\ a \in Agents /\ u \in Users
  BY DEF InsertLink, Ready, RaceInv, TypeOK, HeldCopiesAreFit, SerialInv, Idle,
         FitToWrite, Jobs
<1>2. PICK s \in Skills : j.rest = {s} /\ Exists(row[s]) /\ MayAttach(u, s)
  BY <1>1 DEF Held, AttachHeld
<1>3. Exists(row[a]) /\ CanEdit(row[a], u)
  BY <1>1 DEF Held, AttachHeld
<1>4. links' = links \cup {<<a, s>>} /\ UNCHANGED <<row, published>> /\ job'[w] = Idle
  BY <1>2 DEF InsertLink, RaceInv, TypeOK
<1>5. SettledRow = row /\ SettledRow' = row'
  BY <1>1, <1>4, OneWriteSettled DEF OneWrite, Idle, RaceInv
<1>6. Serial!MayAttach(u, s)
  BY <1>2, <1>5, SameRules DEF Serial!MayAttach, MayAttach
<1>7. Serial!AttachSkill(u, a, s)
  BY <1>2, <1>3, <1>4, <1>5, <1>6, SameRules DEF Serial!AttachSkill
<1> QED BY <1>1, <1>7, HandlersAreSteps

\* The delete of the agent stands for the whole handler: the links of the
\* skills that go with it are all its own.
LEMMA DeleteSimulates ==
  ASSUME NEW w, Workers = {w}, RaceInv, RaceInv', SerialInv, DeleteRow(w)
  PROVE  Serial!Next
<1> DEFINE j == job[w]
           a == j.item
           u == j.user
<1>1. /\ j \in Jobs /\ FitToWrite(j) /\ Held(j) /\ j.step = "ready" /\ j.op = "delete"
      /\ a \in Agents /\ a \in Items /\ u \in Users
  BY DEF DeleteRow, Ready, RaceInv, TypeOK, HeldCopiesAreFit, SerialInv, Idle,
         FitToWrite, Jobs, Items
<1>2. /\ LoggedIn(u) /\ Exists(row[a]) /\ MayDelete(u, row[a])
      /\ \/ j.rest = Exclusive(a)
         \/ j.rest = {} /\ row[a].status \in {"private", "rejected"}
  BY <1>1 DEF Held, DeleteHeld
<1>3. /\ row' = [row EXCEPT ![a] = Absent]
      /\ links' = {l \in links : l[1] # a} /\ published' = published
      /\ \/ j.rest = {} /\ job'[w] = Idle
         \/ job'[w].op = "purge" /\ job'[w].rest = j.rest
  BY <1>1 DEF DeleteRow, RaceInv, TypeOK, Jobs
<1>4. row \in [Items -> Row]
  BY DEF RaceInv, TypeOK
<1>5. SettledRow = row
  BY <1>1, OneWriteSettled DEF OneWrite, RaceInv
<1>6. CASE j.rest = Exclusive(a)
  <2> DEFINE left(k) == IF k = a \/ k \in Exclusive(a) THEN Absent ELSE row[k]
  <2>1. ASSUME NEW k \in Items PROVE (Finishing(job[w], k))' = left(k)
    <3>1. row'[k] = IF k = a THEN Absent ELSE row[k]
      BY <1>1, <1>3, <1>4
    <3> QED BY <1>3, <1>6, <3>1 DEF Finishing, Idle
  <2>2. SettledRow' = [k \in Items |-> left(k)]
    <3> HIDE DEF left
    <3> QED BY <2>1, SettledIs
  <2>3. Serial!Exclusive(a) = Exclusive(a)
    BY <1>5 DEF Serial!Exclusive, Exclusive, Serial!SkillsOf, SkillsOf,
                Serial!UsersOfSkill, UsersOfSkill
  <2>4. links' = {l \in links : l[1] # a /\ l[2] \notin Serial!Exclusive(a)}
    <3>1. \A l \in links : l[1] \in Agents /\ l = <<l[1], l[2]>>
      BY DEF RaceInv, TypeOK
    <3>2. \A l \in links : l[2] \in Exclusive(a) => l[1] = a
      BY <3>1 DEF Exclusive, UsersOfSkill
    <3> QED BY <1>3, <2>3, <3>2
  <2>5. Serial!MayDelete(u, row[a])
    BY <1>2, SameRules DEF Serial!MayDelete, MayDelete
  <2>6. SettledRow' = [k \in Serial!Items |->
                         IF k = a \/ k \in Serial!Exclusive(a) THEN Serial!Absent
                                                               ELSE SettledRow[k]]
    BY <1>5, <2>2, <2>3, SameRules
  <2>7. Serial!DeleteAgent(u, a)
    BY <1>2, <1>3, <1>5, <2>4, <2>5, <2>6, SameRules DEF Serial!DeleteAgent
  <2> QED BY <1>1, <2>7, HandlersAreSteps
<1>7. CASE j.rest = {} /\ row[a].status \in {"private", "rejected"}
  <2>1. ASSUME NEW k \in Items PROVE (Finishing(job[w], k))' = row'[k]
    BY <1>3, <1>7 DEF Finishing, Idle
  <2>2. SettledRow' = row'
    BY <1>3, <1>4, <2>1, SettledIs
  <2>3. Serial!DeleteFromChat(u, a)
    BY <1>2, <1>3, <1>5, <1>7, <2>2, SameRules DEF MayDelete, Serial!DeleteFromChat
  <2> QED BY <1>1, <2>3, HandlersAreSteps
<1> QED BY <1>2, <1>6, <1>7

\* The steps after the first write change neither the mapped rows nor the links.
LEMMA TailSimulates ==
  ASSUME NEW w, Workers = {w}, RaceInv, RaceInv', SerialInv,
         \/ ListPrivateSkills(w)
         \/ \E s \in Skills : ReadSkill(w, s) \/ PurgeSkill(w, s)
         \/ \E g \in Guests : MoveSkills(w, g)
  PROVE  UNCHANGED Serial!vars
<1> DEFINE j == job[w]
<1>1. /\ j # Idle => j \in Jobs /\ FitToWrite(j) /\ Held(j)
      /\ row \in [Items -> Row] /\ job \in [Workers -> Jobs \cup {Idle}] /\ w \in Workers
      /\ Agents \cap Skills = {} /\ Items = Agents \cup Skills
  BY NamesAssumption DEF RaceInv, TypeOK, HeldCopiesAreFit, SerialInv, Items
<1>2. CASE ListPrivateSkills(w)
  <2> DEFINE private == {s \in SkillsOf(j.item) : row[s].status = "private"}
  <2>1. j \in Jobs /\ j.op = "submitAll" /\ j.step = "list"
    BY <1>1, <1>2 DEF ListPrivateSkills, Idle, FitToWrite
  <2>2. /\ UNCHANGED <<row, links, published>>
        /\ \/ private = {} /\ job'[w] = Idle
           \/ /\ job'[w].op = "submitAll" /\ job'[w].step = "loop"
              /\ job'[w].rest = private /\ job'[w].user = j.user
    BY <1>1, <1>2, <2>1 DEF ListPrivateSkills, Jobs
  <2>3. ASSUME NEW k \in Items PROVE (Finishing(job[w], k))' = Finishing(j, k)
    BY <2>1, <2>2 DEF Finishing, Idle, AcceptsSubmitBy, AcceptsSubmit
  <2> QED BY <2>2, <2>3, SettledIs DEF Serial!vars
<1>3. ASSUME NEW s \in Skills, ReadSkill(w, s) PROVE UNCHANGED Serial!vars
  <2>1. /\ j \in Jobs /\ j.op = "submitAll" /\ j.step = "loop" /\ j.rest \subseteq Skills
        /\ s \in j.rest
    BY ONLY <1>1, <1>3 DEF ReadSkill, Idle, FitToWrite, Held, SkillsHeld
  <2>2. UNCHANGED <<row, links, published>>
    BY ONLY <1>3 DEF ReadSkill
  <2>3. \/ /\ job'[w].op = "submitAll" /\ job'[w].user = j.user
           /\ job'[w].step = "ready" /\ job'[w].item = s
           /\ job'[w].rest = j.rest \ {s}
        \/ /\ ~AcceptsSubmitBy(j.user, s)
           /\ \/ j.rest = {s} /\ job'[w] = Idle
              \/ /\ job'[w].op = "submitAll" /\ job'[w].user = j.user
                 /\ job'[w].step = "loop" /\ job'[w].rest = j.rest \ {s}
    BY ONLY <1>1, <1>3, <2>1 DEF ReadSkill, Jobs
  <2>4. ASSUME NEW k \in Items PROVE (Finishing(job[w], k))' = Finishing(j, k)
    BY <2>1, <2>2, <2>3 DEF Finishing, Idle, AcceptsSubmitBy
  <2> QED BY <2>2, <2>4, SettledIs DEF Serial!vars
<1>4. ASSUME NEW s \in Skills, PurgeSkill(w, s) PROVE UNCHANGED Serial!vars
  <2>1. j \in Jobs /\ j.op = "purge" /\ Held(j) /\ s \in j.rest
    BY <1>1, <1>4 DEF PurgeSkill, Ready, Idle
  <2>2. links' = links
    BY <1>4, <2>1 DEF PurgeSkill, Held, PurgeHeld
  <2>3. /\ row' = [row EXCEPT ![s] = Absent] /\ published' = published
        /\ \/ j.rest = {s} /\ job'[w] = Idle
           \/ job'[w].op = "purge" /\ job'[w].rest = j.rest \ {s}
    BY <1>1, <1>4, <2>1 DEF PurgeSkill, Jobs
  <2>4. ASSUME NEW k \in Items PROVE (Finishing(job[w], k))' = Finishing(j, k)
    <3>1. row'[k] = IF k = s THEN Absent ELSE row[k]
      BY <1>1, <2>3
    <3> QED BY <2>1, <2>3, <3>1 DEF Finishing, Idle
  <2> QED BY <2>2, <2>3, <2>4, SettledIs DEF Serial!vars
<1>5. ASSUME NEW g \in Guests, MoveSkills(w, g) PROVE UNCHANGED Serial!vars
  <2>1. j \in Jobs /\ j.op = "login" /\ Held(j) /\ j.rest = {g}
    BY <1>1, <1>5 DEF MoveSkills, Ready, Idle, Held, LoginHeld
  <2>2. /\ row' = Reowned(Skills, g, j.user) /\ job'[w] = Idle
        /\ UNCHANGED <<links, published>>
    BY <1>1, <1>5 DEF MoveSkills
  <2>3. ASSUME NEW k \in Items PROVE (Finishing(job[w], k))' = Finishing(j, k)
    <3>1. row'[k] = IF k \in Skills /\ row[k].owner = g
                      THEN [row[k] EXCEPT !.owner = j.user] ELSE row[k]
      BY <2>2 DEF Reowned
    <3>2. (Finishing(job[w], k))' = row'[k]
      BY <2>2 DEF Finishing, Idle
    <3> QED BY <2>1, <3>1, <3>2 DEF Finishing
  <2> QED BY <2>2, <2>3, SettledIs DEF Serial!vars
<1> QED BY <1>2, <1>3, <1>4, <1>5

LEMMA NextSimulates ==
  ASSUME NEW w, Workers = {w}
  PROVE  RaceInv /\ RaceInv' /\ SerialInv /\ SerialInv' /\ [Next]_vars
           => [Serial!Next]_Serial!vars
<1>1. ASSUME RaceInv, RaceInv', SerialInv, SerialInv', Next
      PROVE  Serial!Next \/ UNCHANGED Serial!vars
  <2>1. ASSUME NEW u \in Users, Start(w, u) PROVE Serial!Next \/ UNCHANGED Serial!vars
    BY <1>1, <2>1, StartSimulates
  <2>2. CASE Continue(w)
    <3>1. CASE \/ CheckSlug(w) \/ CheckAttach(w) \/ CheckHasSkill(w)
               \/ CheckSkills(w) \/ ScanExclusive(w)
      BY <1>1, <3>1, CheckSimulates
      DEF CheckSlug, CheckAttach, CheckHasSkill, CheckSkills, ScanExclusive
    <3>2. CASE Insert(w) \/ InsertLink(w) \/ DeleteRow(w)
      BY <1>1, <3>2, InsertSimulates, InsertLinkSimulates, DeleteSimulates
    <3>3. CASE Save(w)
      BY <1>1, <3>3, SingleSaveSimulates, SubmitAllSimulates
    <3>4. CASE \/ ListPrivateSkills(w)
               \/ \E s \in Skills : ReadSkill(w, s) \/ PurgeSkill(w, s)
               \/ \E g \in Guests : MoveSkills(w, g)
      BY <1>1, <3>4, TailSimulates
    <3> QED BY <2>2, <3>1, <3>2, <3>3, <3>4 DEF Continue
  <2> QED BY <1>1, <2>1, <2>2 DEF Next
<1>2. ASSUME UNCHANGED vars PROVE UNCHANGED Serial!vars
  BY <1>2 DEF vars, Serial!vars, SettledRow, Finishing, AcceptsSubmitBy, SkillsOf
<1> QED BY <1>1, <1>2

LEMMA InitSimulates ==
  ASSUME NEW w, Workers = {w}, Init, RaceInv
  PROVE  Serial!Init
<1>1. SettledRow = row
  BY OneWriteSettled DEF Init, OneWrite, Idle, RaceInv
<1>2. \A u, t : Serial!SeededRow(u, t) = SeededRow(u, t)
  BY SameRules DEF Serial!SeededRow, SeededRow
<1> QED BY <1>1, <1>2, SameRules DEF Init, Serial!Init

\* Requests that do not overlap behave as Governance.tla says, whatever the
\* names, users and texts: the transactions of each handler (a read, further
\* reads, a write of the whole row, the writes that follow it) add up to its
\* one action there, although each commits by itself (storage/sql.py).
THEOREM RaceRefinesGovernance ==
  ASSUME NEW w, Workers = {w}
  PROVE  Spec => SerialRefinement
<1>1. Init /\ RaceInv => Serial!Init
  BY InitSimulates
<1>2. RaceInv /\ RaceInv' /\ SerialInv /\ SerialInv' /\ [Next]_vars
        => [Serial!Next]_Serial!vars
  BY NextSimulates
<1>3. Spec => []SerialInv
  BY SerialInvHolds
<1> QED
  BY <1>1, <1>2, <1>3, RaceInvHolds, PTL DEF Spec, SerialRefinement, Serial!Spec
=============================================================================
