---------------------------- MODULE ItemLifecycle ----------------------------
(***************************************************************************)
(* One row of the registry - an agent or a skill - and what each           *)
(* maker-checker operation of app/core/governance.py computes from it.     *)
(*                                                                         *)
(*   private --submit--> pending_review --approve--> public                *)
(*      |                     \--reject--> rejected --update--> private    *)
(*                                                                         *)
(* The operators are pure: a handler reads a row, computes the new row and *)
(* overwrites the stored one.  Governance.tla performs the three at once,  *)
(* GovernanceRace.tla lets other requests run between them.                *)
(*                                                                         *)
(* Data abstraction.  The free-text columns (description, system_prompt,   *)
(* connectors, tagline, domain; description and content of a skill) are a  *)
(* function from Fields to Values.  validate_agent_payload and             *)
(* validate_skill_payload look at each column by itself, so validation is  *)
(* membership in a set of values.  reviewed_by, review_note and the        *)
(* timestamps are only displayed and are left out.                         *)
(***************************************************************************)
EXTENDS Integers

CONSTANTS
  Agents,   \* agent names (the primary key of table agents), master excluded
  Skills,   \* skill names (the primary key of table skills)
  Users,    \* user identities: e-mail addresses and guest cookies
  Admins,   \* ADMIN_USERS
  Guests,   \* identities that have not logged in
  Nobody,   \* created_by of a row that does not exist
  Fields,   \* editable text columns
  Values,   \* values a client may send for a column
  ValidIn,  \* those that pass validation: ValidIn[i] for the item named i
  Slug      \* slugify(name) of each agent: the @mention handle

Items == Agents \cup Skills
Keep == "keep"   \* "this field is not in the dict"

ASSUME NamesAssumption ==
  /\ Agents \cap Skills = {}
  /\ Admins \subseteq Users
  /\ Guests \subseteq Users \ Admins
  /\ Nobody \notin Users

ASSUME TextAssumption ==
  /\ ValidIn \in [Items -> SUBSET Values]
  /\ Keep \notin Values
  /\ Fields # {}

ASSUME SlugAssumption == DOMAIN Slug = Agents

Statuses == {"absent", "private", "pending_review", "public", "rejected"}
Visibilities == {"company", "private"}

\* A dict of fields: what propose_update receives and pending_changes holds.
Edits == [text : [Fields -> Values \cup {Keep}],
          visibility : Visibilities \cup {Keep}]
NoEdit == [text |-> [f \in Fields |-> Keep], visibility |-> Keep]

Row == [status     : Statuses,
        visibility : Visibilities,
        text       : [Fields -> Values \cup {Keep}],
        pending    : Edits,
        owner      : Users \cup {Nobody},
        version    : Nat]

\* repo.get(name) is None.
Absent == [status |-> "absent", visibility |-> "company", text |-> NoEdit.text,
           pending |-> NoEdit, owner |-> Nobody, version |-> 1]

Exists(r) == r.status # "absent"

-----------------------------------------------------------------------------
(* Permissions *)

IsAdmin(u) == u \in Admins
CanEdit(r, u) == r.owner = u \/ IsAdmin(u)
CanUpdate(r, u) == IsAdmin(u) \/ (r.owner = u /\ r.status # "public")
CanUse(r, u) ==
  \/ r.status = "public" /\ r.visibility = "company"
  \/ CanEdit(r, u)

\* The handlers a guest is refused: _GUEST_BLOCKED_TOOLS in the chat, and
\* require_login on the REST routes.
LoggedIn(u) == u \notin Guests

-----------------------------------------------------------------------------
(* Validation and the dict operations behind pending_changes *)

Passes(i, text) == \A f \in Fields : text[f] \in ValidIn[i]

\* setattr(item, k, v) for every k in the dict.
ApplyText(text, e) ==
  [f \in Fields |-> IF e.text[f] = Keep THEN text[f] ELSE e.text[f]]
ApplyVisibility(v, e) == IF e.visibility = Keep THEN v ELSE e.visibility

\* merged = dict(item.pending_changes or {}); merged.update(fields)
Merge(p, e) == [text |-> ApplyText(p.text, e),
                visibility |-> ApplyVisibility(p.visibility, e)]

\* other_fields: on a public row visibility=private is not queued.
Queued(e) == IF e.visibility = "private" THEN [e EXCEPT !.visibility = Keep] ELSE e

-----------------------------------------------------------------------------
(* The row each operation writes, and when the operation is accepted *)

Created(u, text, vis) ==
  [Absent EXCEPT !.status = "private", !.visibility = vis, !.text = text, !.owner = u]

\* What ensure_seed leaves behind: created, submitted and approved.
SeededRow(u, text) == [Created(u, text, "company") EXCEPT !.status = "public"]

\* Mutant: only a direct edit is validated, a queued one is not.
AcceptsEditUnvalidated(i, r, e) ==
  /\ e # NoEdit
  /\ r.status # "pending_review"
  /\ r.status = "public" \/ Passes(i, ApplyText(r.text, e))

\* propose_update raises for an empty dict, a row under review, or a text that
\* does not validate once the dict is applied.  On a public row the dict is
\* merged into pending_changes first, unless nothing but visibility=private
\* is in it.
AcceptsEdit(i, r, e) ==
  /\ e # NoEdit
  /\ r.status # "pending_review"
  /\ IF r.status = "public"
       THEN Queued(e) = NoEdit \/ Passes(i, ApplyText(r.text, Merge(r.pending, Queued(e))))
       ELSE Passes(i, ApplyText(r.text, e))

\* Mutant: an admin's edit of a public row is applied at once.
ProposedDirectly(r, e) ==
  [r EXCEPT !.status = IF @ = "public" THEN @ ELSE "private",
            !.text = ApplyText(@, e),
            !.visibility = ApplyVisibility(@, e)]

\* Mutant: both directions of a visibility change skip the queue.
ProposedVisibilityNow(r, e) ==
  IF r.status = "public"
    THEN [r EXCEPT !.visibility = ApplyVisibility(@, e),
                   !.pending = Merge(@, [e EXCEPT !.visibility = Keep])]
    ELSE [r EXCEPT !.status = "private",
                   !.text = ApplyText(@, e),
                   !.visibility = ApplyVisibility(@, e)]

Proposed(r, e) ==
  IF r.status = "public"
    THEN [r EXCEPT !.visibility = IF e.visibility = "private" THEN "private" ELSE @,
                   !.pending = Merge(@, Queued(e))]
    ELSE [r EXCEPT !.status = "private",
                   !.text = ApplyText(@, e),
                   !.visibility = ApplyVisibility(@, e)]

\* Mutant: a rejected item may be submitted again unedited.
AcceptsResubmit(i, r) == r.status \in {"private", "rejected"} /\ Passes(i, r.text)

AcceptsSubmit(i, r) == r.status = "private" /\ Passes(i, r.text)
Submitted(r) == [r EXCEPT !.status = "pending_review", !.visibility = "company"]

Retracted(r) == [r EXCEPT !.status = "private"]

\* What approve and reject accept: a queued edit of a public row, or a row
\* that waits for its first review.
HasQueuedEdit(r) == r.status = "public" /\ r.pending # NoEdit
Reviewable(r) == HasQueuedEdit(r) \/ r.status = "pending_review"

\* Mutant: the version is not raised.
ApprovedSameVersion(i, r) ==
  IF HasQueuedEdit(r)
    THEN [r EXCEPT !.text = ApplyText(@, r.pending),
                   !.visibility = ApplyVisibility(@, r.pending),
                   !.pending = NoEdit]
    ELSE [r EXCEPT !.status = "public"]

Approved(i, r) ==
  IF HasQueuedEdit(r)
    THEN [r EXCEPT !.text = ApplyText(@, r.pending),
                   !.visibility = ApplyVisibility(@, r.pending),
                   !.pending = NoEdit,
                   !.version = IF i \in Skills THEN @ + 1 ELSE @]
    ELSE [r EXCEPT !.status = "public"]

Rejected(r) ==
  IF HasQueuedEdit(r)
    THEN [r EXCEPT !.pending = NoEdit]
    ELSE [r EXCEPT !.status = "rejected"]

-----------------------------------------------------------------------------

\* What holds of every stored row and of every copy a handler has computed: a
\* queued edit only on a public row, never one that hides the agent, and both
\* the text and the text the queued edit would give are valid.
SoundRow(i, r) ==
  /\ r.pending # NoEdit => r.status = "public"
  /\ r.pending.visibility # "private"
  /\ Exists(r) => /\ Passes(i, r.text)
                  /\ Passes(i, ApplyText(r.text, r.pending))
=============================================================================
