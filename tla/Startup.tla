------------------------------ MODULE Startup ------------------------------
(***************************************************************************)
(* Starting the server (main.py create_app, seeds/demo_data.py): master    *)
(* and the seeded pairs of a skill and an agent are created through the    *)
(* review, or brought to the text of the code, one transaction per step.   *)
(* The server may stop between any two steps; a step that raises ends the  *)
(* start.  While it is up the admin reviews, edits and deletes the seeded  *)
(* items, people create items under a seeded name or slug, and before a    *)
(* start another version of the code may be deployed.                      *)
(***************************************************************************)
EXTENDS Naturals, FiniteSets

CONSTANTS Pairs,          \* number of seeded pairs; they are numbered in order
          Shipped,        \* how many of them each version of the code seeds
          MaxStops,       \* bound: stops of the server in the middle of a start
          MaxMeddling,    \* bound: deletions and creations by people
          MaxVersions     \* bound: versions of the code

ASSUME StartupAssumption ==
  /\ Pairs \in Nat /\ MaxStops \in Nat /\ MaxMeddling \in Nat /\ MaxVersions \in Nat \ {0}
  /\ Shipped \in [1..MaxVersions -> 0..Pairs]

VARIABLES
  start,      \* the step the start is at, and the pair
  version,    \* of the code, which is the text of its seeds
  seedSkill,      \* the seeded skills: status and text
  seedAgent,      \* the seeded agents
  linked,     \* pairs whose skill is attached to the agent
  slugTaken,  \* pairs whose slug an agent of another name holds
  masterText,     \* the text of master's row
  stops,      \* stops in the middle of a start
  failures,   \* starts that ended in a refused approval
  meddled     \* history: seeded agents people deleted, seeded names they took

startupVars == <<start, version, seedSkill, seedAgent, linked, slugTaken, masterText,
                 stops, failures, meddled>>

Absent == [status |-> "none", text |-> 0]
PeoplesText == 0

StartupInit ==
  /\ start = [at |-> "down", pair |-> 1]
  /\ version = 1
  /\ seedSkill = [p \in 1..Pairs |-> Absent] /\ seedAgent = [p \in 1..Pairs |-> Absent]
  /\ linked = {} /\ slugTaken = {} /\ masterText = PeoplesText
  /\ stops = 0 /\ failures = 0 /\ meddled = 0

At(step) == start.at = step
Proceed(step) == start' = [start EXCEPT !.at = step]
NextPair == start' = IF start.pair < Shipped[version]
                     THEN [at |-> "skill", pair |-> start.pair + 1]
                     ELSE [at |-> "admin", pair |-> 1]

\* create_app up to the seeds: the schema, the repositories, the catalog.
Boot ==
  /\ At("down") /\ Proceed("master")
  /\ UNCHANGED <<version, seedSkill, seedAgent, linked, slugTaken, masterText, stops, failures, meddled>>

\* ensure_seed: master is created, or its prompt, slug and description refreshed.
SeedMaster ==
  /\ At("master") /\ Proceed(IF Shipped[version] = 0 THEN "admin" ELSE "skill")
  /\ masterText' = version
  /\ UNCHANGED <<version, seedSkill, seedAgent, linked, slugTaken, stops, failures, meddled>>

\* Mutant: the sync puts the row back to private.
SyncedReset(row) == [status |-> "private", text |-> version]

\* _sync_skill, _sync_agent: the code's text in the row's state of review.
Synced(row) == [row EXCEPT !.text = version]

Created == [status |-> "private", text |-> version]

\* _seed_one: a skill there is is synced; else it is created, submitted and
\* approved.
SeedSkill ==
  LET row == seedSkill[start.pair]
  IN  /\ At("skill")
      /\ seedSkill' = [seedSkill EXCEPT ![start.pair] = IF row = Absent THEN Created ELSE Synced(row)]
      /\ Proceed(IF row = Absent THEN "submit skill" ELSE "agent")
      /\ UNCHANGED <<version, seedAgent, linked, slugTaken, masterText, stops, failures, meddled>>
SubmitSkill ==
  /\ At("submit skill") /\ Proceed("approve skill")
  /\ seedSkill' = [seedSkill EXCEPT ![start.pair].status = "pending"]
  /\ UNCHANGED <<version, seedAgent, linked, slugTaken, masterText, stops, failures, meddled>>
ApproveSkill ==
  /\ At("approve skill") /\ Proceed("agent")
  /\ seedSkill' = [seedSkill EXCEPT ![start.pair].status = "public"]
  /\ UNCHANGED <<version, seedAgent, linked, slugTaken, masterText, stops, failures, meddled>>

\* _seed_one: and the agent likewise, with its skill attached before.
SeedAgent ==
  LET row == seedAgent[start.pair]
  IN  /\ At("agent") /\ ~(row = Absent /\ start.pair \in slugTaken)
      /\ seedAgent' = [seedAgent EXCEPT ![start.pair] = IF row = Absent THEN Created ELSE Synced(row)]
      /\ IF row = Absent THEN Proceed("attach") ELSE NextPair
      /\ UNCHANGED <<version, seedSkill, linked, slugTaken, masterText, stops, failures, meddled>>

\* Mutant: the insert that raises is passed over.
PassSlugCollision ==
  /\ At("agent") /\ seedAgent[start.pair] = Absent /\ start.pair \in slugTaken
  /\ NextPair
  /\ UNCHANGED <<version, seedSkill, seedAgent, linked, slugTaken, masterText, stops,
                 failures, meddled>>

\* Another agent holds the slug, which is unique: the insert raises, create_app
\* raises.
SlugCollision ==
  /\ At("agent") /\ seedAgent[start.pair] = Absent /\ start.pair \in slugTaken
  /\ start' = [at |-> "down", pair |-> 1]
  /\ UNCHANGED <<version, seedSkill, seedAgent, linked, slugTaken, masterText, stops,
                 failures, meddled>>

AttachSeed ==
  /\ At("attach") /\ Proceed("submit agent")
  /\ linked' = linked \cup {start.pair}
  /\ UNCHANGED <<version, seedSkill, seedAgent, slugTaken, masterText, stops, failures, meddled>>
SubmitAgent ==
  /\ At("submit agent") /\ start.pair \in linked
  /\ Proceed("approve agent")
  /\ seedAgent' = [seedAgent EXCEPT ![start.pair].status = "pending"]
  /\ UNCHANGED <<version, seedSkill, linked, slugTaken, masterText, stops, failures, meddled>>
ApproveAgent ==
  /\ At("approve agent") /\ seedSkill[start.pair].status = "public"
  /\ NextPair
  /\ seedAgent' = [seedAgent EXCEPT ![start.pair].status = "public"]
  /\ UNCHANGED <<version, seedSkill, linked, slugTaken, masterText, stops, failures, meddled>>

\* approve() refuses an agent whose skill is not public: create_app raises.
StartFails ==
  /\ At("approve agent") /\ seedSkill[start.pair].status # "public"
  /\ failures <= MaxStops + MaxMeddling
  /\ start' = [at |-> "down", pair |-> 1]
  /\ failures' = failures + 1
  /\ UNCHANGED <<version, seedSkill, seedAgent, linked, slugTaken, masterText, stops, meddled>>

\* The admin's account, the routes: the server is up.
SeedAdmin ==
  /\ At("admin") /\ Proceed("up")
  /\ UNCHANGED <<version, seedSkill, seedAgent, linked, slugTaken, masterText, stops, failures, meddled>>

\* The process ends: between two steps of the start, or while it is up.
Stop ==
  /\ ~At("down") /\ (At("up") \/ stops < MaxStops)
  /\ start' = [at |-> "down", pair |-> 1]
  /\ stops' = IF At("up") THEN stops ELSE stops + 1
  /\ UNCHANGED <<version, seedSkill, seedAgent, linked, slugTaken, masterText, failures, meddled>>

\* Another version of the code, a newer or an older one.
Deploy ==
  /\ At("down") /\ version' \in 1..MaxVersions \ {version}
  /\ UNCHANGED <<start, seedSkill, seedAgent, linked, slugTaken, masterText, stops, failures, meddled>>

-----------------------------------------------------------------------------
\* Governance of a seeded item by the admin, its owner; an agent goes public
\* with a public skill.
ReviewSkill(p) ==
  /\ At("up")
  /\ \E s \in {"private", "pending", "public", "rejected"} :
       /\ <<seedSkill[p].status, s>> \in {<<"private", "pending">>, <<"pending", "private">>,
                                      <<"pending", "public">>, <<"pending", "rejected">>}
       /\ seedSkill' = [seedSkill EXCEPT ![p].status = s]
  /\ UNCHANGED <<start, version, seedAgent, linked, slugTaken, masterText, stops, failures, meddled>>
ReviewAgent(p) ==
  /\ At("up")
  /\ \E s \in {"private", "pending", "public", "rejected"} :
       /\ \/ <<seedAgent[p].status, s>> = <<"private", "pending">> /\ p \in linked
          \/ <<seedAgent[p].status, s>> \in {<<"pending", "private">>, <<"pending", "rejected">>}
          \/ <<seedAgent[p].status, s>> = <<"pending", "public">> /\ seedSkill[p].status = "public"
       /\ seedAgent' = [seedAgent EXCEPT ![p].status = s]
  /\ UNCHANGED <<start, version, seedSkill, linked, slugTaken, masterText, stops, failures, meddled>>

\* An edit: of a public item once it is approved, of a private or rejected one
\* at once, which leaves it private.
Edited(row) == [status |-> IF row.status = "public" THEN "public" ELSE "private",
                text |-> PeoplesText]
Editable(row) == row.status \in {"private", "public", "rejected"}
EditSeed(p) ==
  /\ At("up")
  /\ \/ /\ Editable(seedSkill[p])
        /\ seedSkill' = [seedSkill EXCEPT ![p] = Edited(seedSkill[p])]
        /\ UNCHANGED seedAgent
     \/ /\ Editable(seedAgent[p])
        /\ seedAgent' = [seedAgent EXCEPT ![p] = Edited(seedAgent[p])]
        /\ UNCHANGED seedSkill
  /\ UNCHANGED <<start, version, linked, slugTaken, masterText, stops, failures, meddled>>

\* attach_skill, where a stop has left the pair apart.
LinkSeed(p) ==
  /\ At("up") /\ seedAgent[p] # Absent /\ seedSkill[p] # Absent
  /\ linked' = linked \cup {p}
  /\ UNCHANGED <<start, version, seedSkill, seedAgent, slugTaken, masterText, stops, failures, meddled>>

\* The agent is deleted, from the page with a private skill of its own, from the
\* chat without.
DeleteSeed(p) ==
  /\ At("up") /\ seedAgent[p] # Absent /\ meddled < MaxMeddling
  /\ seedAgent' = [seedAgent EXCEPT ![p] = Absent]
  /\ \/ UNCHANGED seedSkill
     \/ /\ p \in linked /\ seedSkill[p].status = "private"
        /\ seedSkill' = [seedSkill EXCEPT ![p] = Absent]
  /\ linked' = linked \ {p}
  /\ meddled' = meddled + 1
  /\ UNCHANGED <<start, version, slugTaken, masterText, stops, failures>>

\* A private skill that its agent has lost, or never got, goes with the last
\* other agent that uses it.
DropSkill(p) ==
  /\ At("up") /\ seedSkill[p].status = "private" /\ p \notin linked
  /\ seedSkill' = [seedSkill EXCEPT ![p] = Absent]
  /\ UNCHANGED <<start, version, seedAgent, linked, slugTaken, masterText, stops, failures, meddled>>

\* create_skill and create_agent under a seeded name that is free: people's
\* private item, which the next start takes for its own.
PeoplesRow == [status |-> "private", text |-> PeoplesText]
TakeName(p) ==
  /\ At("up") /\ meddled < MaxMeddling
  /\ \/ /\ seedSkill[p] = Absent
        /\ seedSkill' = [seedSkill EXCEPT ![p] = PeoplesRow]
        /\ UNCHANGED seedAgent
     \/ /\ seedAgent[p] = Absent /\ p \notin slugTaken
        /\ seedAgent' = [seedAgent EXCEPT ![p] = PeoplesRow]
        /\ UNCHANGED seedSkill
  /\ meddled' = meddled + 1
  /\ UNCHANGED <<start, version, linked, slugTaken, masterText, stops, failures>>

\* create_agent under another name that slugify maps to the same slug, while no
\* agent holds it; and that agent is deleted.
TakeSlug(p) ==
  /\ At("up") /\ seedAgent[p] = Absent /\ p \notin slugTaken
  /\ slugTaken' = slugTaken \cup {p}
  /\ UNCHANGED <<start, version, seedSkill, seedAgent, linked, masterText, stops, failures, meddled>>
FreeSlug(p) ==
  /\ At("up") /\ p \in slugTaken
  /\ slugTaken' = slugTaken \ {p}
  /\ UNCHANGED <<start, version, seedSkill, seedAgent, linked, masterText, stops, failures, meddled>>

StartupNext ==
  \/ Boot \/ SeedMaster \/ SeedSkill \/ SubmitSkill \/ ApproveSkill
  \/ SeedAgent \/ SlugCollision \/ AttachSeed \/ SubmitAgent \/ ApproveAgent \/ StartFails
  \/ SeedAdmin \/ Stop \/ Deploy
  \/ \E p \in 1..Pairs :
       \/ ReviewSkill(p) \/ ReviewAgent(p) \/ EditSeed(p) \/ LinkSeed(p)
       \/ DeleteSeed(p) \/ DropSkill(p) \/ TakeName(p) \/ TakeSlug(p) \/ FreeSlug(p)

StartupSpec == StartupInit /\ [][StartupNext]_startupVars

-----------------------------------------------------------------------------
InService(p) == seedSkill[p].status = "public" /\ seedAgent[p].status = "public"
ShippedPairs == 1..Shipped[version]

\* Stopping the server in the middle of a start does bounded damage: once it is up,
\* each stop has left at most one pair of its version out of service, as has each
\* deletion of a seeded agent and each seeded name taken by people; a stop, a
\* deletion or a name costs at most one start that ends in a refused approval; and
\* a start that comes to its end has brought every seeded text, and master's, to
\* the code's, an older version's too, whatever the review and the earlier stops
\* have left (demo_data.py 548-609, 708-745).
StopDamageBounded ==
  /\ At("up") => Cardinality({p \in ShippedPairs : ~InService(p)}) <= stops + meddled
  /\ failures <= stops + meddled
  /\ At("admin") => /\ masterText = version
                    /\ \A p \in ShippedPairs :
                         seedSkill[p].text = version /\ seedAgent[p].text = version

\* An agent the code is to create has its slug held by another.
Blocked == ~At("up") /\ \E p \in ShippedPairs : seedAgent[p] = Absent /\ p \in slugTaken

\* The other failure has no bound: while the slug of an absent seeded agent is
\* taken the server does not come up, whatever is restarted or stopped, until
\* another version is deployed: nobody can free the slug while it is down
\* (demo_data.py 603, sql.py 23, core/models.py 16-21).
SlugBlocksStart == [][Blocked /\ version' = version => Blocked']_startupVars
=============================================================================
