----------------------------- MODULE MCReviewDesk -----------------------------
(* A small instance of ReviewDesk.tla for TLC: a seeded skill, one agent. *)
EXTENDS ReviewDesk

CONSTANTS a1, s1, own, adm, v1, v2, f1

OwnSlugs == [a \in Agents |-> a]
AnyValue == [i \in Items |-> Values]
SeedTextV1 == [f \in Fields |-> v1]
NoLinks == {}
=============================================================================
