-------------------------- MODULE ItemLifecycleProofs --------------------------
(***************************************************************************)
(* What each maker-checker operation keeps of one row: its type, and that  *)
(* a queued edit is sound.  The proofs about the whole registry            *)
(* (GovernanceProofs, GovernanceRaceProofs) cite these lemmas.             *)
(***************************************************************************)
EXTENDS ItemLifecycle, TLAPS

Text == [Fields -> Values \cup {Keep}]

LEMMA NoEditType == NoEdit \in Edits /\ Absent \in Row
BY DEF NoEdit, Edits, Visibilities, Absent, Row, Statuses

\* A text that validates has a value in every column.
LEMMA PassesType ==
  ASSUME NEW i \in Items, NEW text \in Text, Passes(i, text)
  PROVE  text \in [Fields -> Values]
BY TextAssumption DEF Passes, Text

LEMMA ApplyTextType ==
  ASSUME NEW text \in Text, NEW e \in Edits
  PROVE  ApplyText(text, e) \in Text
BY DEF ApplyText, Text, Edits

LEMMA ApplyNoEdit ==
  ASSUME NEW text \in Text
  PROVE  ApplyText(text, NoEdit) = text
BY DEF ApplyText, Text, NoEdit

LEMMA QueuedType ==
  ASSUME NEW e \in Edits
  PROVE  Queued(e) \in Edits /\ Queued(e).visibility # "private"
BY DEF Queued, Edits, Keep, Visibilities

LEMMA MergeType ==
  ASSUME NEW p \in Edits, NEW e \in Edits
  PROVE  Merge(p, e) \in Edits
BY DEF Merge, ApplyText, ApplyVisibility, Edits

\* Merging an empty dict leaves the queued edit as it is.
LEMMA MergeNoEdit ==
  ASSUME NEW p \in Edits
  PROVE  Merge(p, NoEdit) = p
BY DEF Merge, ApplyText, ApplyVisibility, Edits, NoEdit

LEMMA MergeVisibility ==
  ASSUME NEW p \in Edits, NEW e \in Edits,
         p.visibility # "private", e.visibility # "private"
  PROVE  Merge(p, e).visibility # "private"
BY DEF Merge, ApplyVisibility

\* An absent row is sound; so is a new one whose text passed validation.
LEMMA AbsentSound == ASSUME NEW i \in Items PROVE SoundRow(i, Absent)
BY DEF SoundRow, Absent, Exists, NoEdit, Keep

LEMMA CreatedSound ==
  ASSUME NEW i \in Items, NEW u \in Users, NEW text \in Text, NEW vis \in Visibilities,
         Passes(i, text)
  PROVE  /\ Created(u, text, vis) \in Row
         /\ SoundRow(i, Created(u, text, vis))
         /\ Created(u, text, vis).status = "private"
         /\ Created(u, text, vis).text = text
<1>1. Created(u, text, vis) \in Row
  BY NoEditType DEF Created, Absent, Row, Statuses, Text
<1>2. /\ Created(u, text, vis).pending = NoEdit
      /\ Created(u, text, vis).text = text
      /\ Created(u, text, vis).status = "private"
  BY DEF Created, Absent
<1>3. SoundRow(i, Created(u, text, vis))
  BY <1>2, ApplyNoEdit DEF SoundRow, NoEdit, Keep
<1> QED BY <1>1, <1>2, <1>3

LEMMA SeededSound ==
  ASSUME NEW i \in Items, NEW u \in Users, NEW text \in [Fields -> ValidIn[i]]
  PROVE  /\ SeededRow(u, text) \in Row /\ SoundRow(i, SeededRow(u, text))
         /\ SeededRow(u, text).text = text /\ text \in [Fields -> Values]
<1> DEFINE c == Created(u, text, "company")
           r == SeededRow(u, text)
<1>1. text \in [Fields -> Values] /\ text \in Text /\ Passes(i, text)
  BY TextAssumption DEF Text, Passes
<1>2. c \in Row /\ SoundRow(i, c) /\ c.status = "private" /\ c.text = text
  BY <1>1, CreatedSound DEF Visibilities
<1> HIDE DEF c
<1>3. r = [c EXCEPT !.status = "public"]
  BY DEF SeededRow, c
<1>4. r \in Row /\ r.text = text /\ r.pending = c.pending /\ r.status = "public"
  BY <1>2, <1>3 DEF Row, Statuses
<1>5. SoundRow(i, r)
  BY <1>2, <1>4 DEF SoundRow, Exists
<1> QED BY <1>1, <1>4, <1>5

\* propose_update: on a public row the merged edit validates as a whole, so the
\* queue stays sound; elsewhere the edit is applied and the queue stays empty.
LEMMA ProposedSound ==
  ASSUME NEW i \in Items, NEW r \in Row, NEW e \in Edits,
         Exists(r), SoundRow(i, r), AcceptsEdit(i, r, e)
  PROVE  /\ Proposed(r, e) \in Row
         /\ SoundRow(i, Proposed(r, e))
         /\ Proposed(r, e).status = "public" =>
              r.status = "public" /\ Proposed(r, e).text = r.text
<1> DEFINE q == Merge(r.pending, Queued(e))
<1>1. r.pending \in Edits /\ r.text \in Text
  BY DEF Row, Text
<1>2. CASE r.status = "public"
  <2>1. q \in Edits
    BY <1>1, QueuedType, MergeType
  <2>2. /\ Proposed(r, e) \in Row
        /\ Proposed(r, e).pending = q
        /\ Proposed(r, e).text = r.text
        /\ Proposed(r, e).status = "public"
    BY <1>2, <2>1 DEF Proposed, Row, Visibilities
  <2>3. q.visibility # "private"
    BY <1>1, QueuedType, MergeVisibility DEF SoundRow
  <2>4. Passes(i, r.text)
    BY DEF SoundRow
  <2>5. Passes(i, ApplyText(r.text, q))
    <3>1. CASE Queued(e) = NoEdit
      BY <1>1, <3>1, MergeNoEdit DEF SoundRow
    <3>2. CASE Queued(e) # NoEdit
      BY <1>2, <3>2 DEF AcceptsEdit
    <3> QED BY <3>1, <3>2
  <2> HIDE DEF q
  <2> QED BY <1>2, <2>2, <2>3, <2>4, <2>5 DEF SoundRow
<1>3. CASE r.status # "public"
  <2>1. ApplyText(r.text, e) \in Text /\ ApplyVisibility(r.visibility, e) \in Visibilities
    BY <1>1, ApplyTextType DEF ApplyVisibility, Edits, Row
  <2>2. /\ Proposed(r, e) \in Row
        /\ Proposed(r, e).pending = NoEdit
        /\ Proposed(r, e).text = ApplyText(r.text, e)
        /\ Proposed(r, e).status = "private"
    BY <1>3, <2>1 DEF Proposed, Row, SoundRow, Text, Statuses
  <2>3. Passes(i, ApplyText(r.text, e))
    BY <1>3 DEF AcceptsEdit
  <2>4. ApplyText(ApplyText(r.text, e), NoEdit) = ApplyText(r.text, e)
    BY <2>1, ApplyNoEdit
  <2> QED BY <2>2, <2>3, <2>4 DEF SoundRow, NoEdit, Keep
<1> QED BY <1>2, <1>3

LEMMA SubmittedSound ==
  ASSUME NEW i \in Items, NEW r \in Row, SoundRow(i, r), AcceptsSubmit(i, r)
  PROVE  /\ Submitted(r) \in Row
         /\ SoundRow(i, Submitted(r))
         /\ Submitted(r).status = "pending_review"
BY DEF Submitted, SoundRow, AcceptsSubmit, Row, Statuses, Visibilities, Exists

LEMMA RetractedSound ==
  ASSUME NEW i \in Items, NEW r \in Row, SoundRow(i, r), r.status = "pending_review"
  PROVE  /\ Retracted(r) \in Row
         /\ SoundRow(i, Retracted(r))
         /\ Retracted(r).status = "private"
BY DEF Retracted, SoundRow, Row, Statuses, Exists

\* approve applies the queued edit without validating it again: the soundness
\* of the queue is what makes the published text valid.
LEMMA ApprovedSound ==
  ASSUME NEW i \in Items, NEW r \in Row, SoundRow(i, r), Reviewable(r)
  PROVE  /\ Approved(i, r) \in Row
         /\ SoundRow(i, Approved(i, r))
         /\ Approved(i, r).status = "public"
         /\ Approved(i, r).text \in [Fields -> Values]
<1>1. r.pending \in Edits /\ r.text \in Text /\ Exists(r)
  BY DEF Row, Text, Reviewable, HasQueuedEdit, Exists
<1>2. CASE HasQueuedEdit(r)
  <2>1. /\ ApplyText(r.text, r.pending) \in Text
        /\ Passes(i, ApplyText(r.text, r.pending))
        /\ ApplyVisibility(r.visibility, r.pending) \in Visibilities
    BY <1>1, ApplyTextType DEF SoundRow, ApplyVisibility, Row, Edits
  <2>2. /\ Approved(i, r) \in Row
        /\ Approved(i, r).status = "public"
        /\ Approved(i, r).text = ApplyText(r.text, r.pending)
        /\ Approved(i, r).pending = NoEdit
    <3>1. r.version \in Nat /\ r.version + 1 \in Nat
      BY DEF Row
    <3>2. CASE i \in Skills
      BY <1>2, <2>1, <3>1, <3>2, NoEditType DEF Approved, HasQueuedEdit, Row, Text
    <3>3. CASE i \notin Skills
      BY <1>2, <2>1, <3>1, <3>3, NoEditType DEF Approved, HasQueuedEdit, Row, Text
    <3> QED BY <3>2, <3>3
  <2>3. ApplyText(Approved(i, r).text, NoEdit) = Approved(i, r).text
    BY <2>1, <2>2, ApplyNoEdit
  <2>4. SoundRow(i, Approved(i, r))
    BY <2>1, <2>2, <2>3 DEF SoundRow, NoEdit, Keep
  <2> QED BY <2>1, <2>2, <2>4, PassesType
<1>3. CASE ~HasQueuedEdit(r)
  <2>1. /\ Approved(i, r) \in Row
        /\ Approved(i, r).status = "public"
        /\ Approved(i, r).text = r.text
        /\ Approved(i, r).pending = r.pending
    BY <1>3 DEF Approved, Row, Statuses
  <2>2. SoundRow(i, Approved(i, r)) /\ Passes(i, r.text)
    BY <1>1, <2>1 DEF SoundRow
  <2> QED BY <1>1, <2>1, <2>2, PassesType
<1> QED BY <1>2, <1>3

LEMMA RejectedSound ==
  ASSUME NEW i \in Items, NEW r \in Row, SoundRow(i, r), Reviewable(r)
  PROVE  /\ Rejected(r) \in Row
         /\ SoundRow(i, Rejected(r))
         /\ Rejected(r).text = r.text
         /\ Rejected(r).status = "public" => r.status = "public"
<1>1. r.text \in Text /\ Exists(r)
  BY DEF Row, Text, Reviewable, HasQueuedEdit, Exists
<1>2. CASE HasQueuedEdit(r)
  BY <1>1, <1>2, NoEditType, ApplyNoEdit
  DEF Rejected, HasQueuedEdit, SoundRow, Row, NoEdit, Keep, Exists
<1>3. CASE ~HasQueuedEdit(r)
  BY <1>1, <1>3 DEF Rejected, Reviewable, HasQueuedEdit, SoundRow, Row, Statuses, Exists
<1> QED BY <1>2, <1>3

\* Login rewrites the owner and nothing else.
LEMMA ReownedSound ==
  ASSUME NEW i \in Items, NEW r \in Row, NEW u \in Users, SoundRow(i, r)
  PROVE  /\ [r EXCEPT !.owner = u] \in Row
         /\ SoundRow(i, [r EXCEPT !.owner = u])
         /\ [r EXCEPT !.owner = u].status = r.status
         /\ [r EXCEPT !.owner = u].text = r.text
BY DEF SoundRow, Row, Exists
=============================================================================
