----------------------------- MODULE MCGovernance -----------------------------
(* Small instances of Governance.tla for TLC. *)
EXTENDS Governance, TLC

CONSTANTS a1, a2, s1, s2, own, adm, gst, v1, v2, bad, f1, f2

\* Two agents, with handles of their own.
OwnSlugs == [a \in Agents |-> a]
\* Two agent names that slugify to one handle.
OneSlug == [a \in Agents |-> "slug"]

SeedTextV1 == [f \in Fields |-> v1]
SeedPair == {<<a1, s1>>}
NoItems == {}

AllButBad == [i \in Items |-> Values \ {bad}]
\* Two texts a skill may have, one an agent may have.
AgentsTakeV1 == [i \in Items |-> IF i \in Agents THEN {v1} ELSE {v1, v2}]

AgentSymmetry == Permutations(Agents)
=============================================================================
