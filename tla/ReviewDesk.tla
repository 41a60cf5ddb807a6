------------------------------ MODULE ReviewDesk ------------------------------
(***************************************************************************)
(* The registry together with the review page of app/api/review.py: an     *)
(* admin loads GET /review/pending, reads it, and presses approve or       *)
(* reject.  The request names the item; it carries nothing of what the     *)
(* page showed.  Requests run one at a time, as in Governance.tla; makers  *)
(* keep working while the admin reads.                                     *)
(***************************************************************************)
EXTENDS Governance

VARIABLE page   \* page[u][i]: the row of item i on u's page, Absent if not listed

deskVars == <<row, links, published, page>>

DeskInit ==
  /\ Init
  /\ page = [u \in Admins |-> [i \in Items |-> Absent]]

\* pending(): items under review and public items with a queued edit.
OpenPage(u) ==
  /\ page' = [page EXCEPT ![u] = [i \in Items |-> IF Reviewable(row[i]) THEN row[i]
                                                                      ELSE Absent]]
  /\ UNCHANGED vars

\* The buttons of a listed item; the page is loaded again after each answer.
ApproveListed(u, i) ==
  /\ Exists(page[u][i])
  /\ Approve(u, i)
  /\ page' = [page EXCEPT ![u] = [j \in Items |-> Absent]]

RejectListed(u, i) ==
  /\ Exists(page[u][i])
  /\ Reject(u, i)
  /\ page' = [page EXCEPT ![u] = [j \in Items |-> Absent]]

MakerStep ==
  /\ \/ \E u \in Users, a \in Agents, t \in [Fields -> Values], v \in Visibilities :
          CreateAgent(u, a, t, v)
     \/ \E u \in Users, s \in Skills, t \in [Fields -> Values] : CreateSkill(u, s, t)
     \/ \E u \in Users, a \in Agents, s \in Skills : AttachSkill(u, a, s)
     \/ \E u \in Users, i \in Items, e \in Edits : Update(u, i, e)
     \/ \E u \in Users, i \in Items : Submit(u, i)
     \/ \E u \in Users, a \in Agents : SubmitWithSkills(u, a)
     \/ \E u \in Users, a \in Agents : Retract(u, a)
     \/ \E u \in Users, a \in Agents : DeleteFromChat(u, a)
     \/ \E u \in Users, a \in Agents : DeleteAgent(u, a)
     \/ \E g \in Guests, u \in Users : Login(g, u)
  /\ UNCHANGED page

DeskNext ==
  \/ MakerStep
  \/ \E u \in Admins : OpenPage(u)
  \/ \E u \in Admins, i \in Items : ApproveListed(u, i) \/ RejectListed(u, i)

DeskSpec == DeskInit /\ [][DeskNext]_deskVars

\* "Shown in full, no blind approval" (review.py 1): the row an approval writes
\* is the one the admin's page showed, approved.
ApprovedAsShown ==
  [][\A u \in Admins, i \in Items :
       ApproveListed(u, i) => row'[i] = Approved(i, page[u][i])]_deskVars
=============================================================================
