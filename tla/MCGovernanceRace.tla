--------------------------- MODULE MCGovernanceRace ---------------------------
(* Small instances of GovernanceRace.tla for TLC. *)
EXTENDS GovernanceRace, TLC

CONSTANTS a1, a2, s1, s2, own, adm, gst, v1, v2, v3, bad, f1, w1, w2

OwnSlugs == [a \in Agents |-> a]
OneSlug == [a \in Agents |-> "slug"]

SeedTextV1 == [f \in Fields |-> v1]
SeedPair == {<<a1, s1>>}
NoItems == {}

AllButBad == [i \in Items |-> Values \ {bad}]
\* Two texts a skill may have, one an agent may have.
TwoSkillTexts == [i \in Items |-> IF i \in Agents THEN {v3} ELSE {v1, v2}]

RaceSymmetry == Permutations(Workers) \cup Permutations({v1, v2})
=============================================================================
