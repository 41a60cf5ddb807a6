\* Two agents that may share one skill, one editable column, three identities.
SPECIFICATION Spec
CONSTANTS
  a1 = a1
  a2 = a2
  s1 = s1
  s2 = s2
  own = own
  adm = adm
  gst = gst
  v1 = v1
  v2 = v2
  bad = bad
  f1 = f1
  f2 = f2
  Agents = {a1, a2}
  Skills = {s1}
  Users = {own, adm, gst}
  Admins = {adm}
  Guests = {gst}
  Nobody = Nobody
  Fields = {f1}
  Values = {v1, v2, bad}
  ValidIn <- AgentsTakeV1
  Slug <- OwnSlugs
  Seeded <- NoItems
  SeedLinks <- NoItems
  SeedOwner = adm
  SeedText <- SeedTextV1
  MaxVersion = 2
INVARIANTS
  TypeOK
  PublishedWasApproved
  QueuedEditsAreSound
  LinksResolve
  ReviewedAgentHasSkills
PROPERTIES
  SkillsPublicAtApproval
  StatusFollowsDiagram
  VersionNamesText
  ExposedOnlyByReview
SYMMETRY AgentSymmetry
