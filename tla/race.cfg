\* Two requests in flight, every interleaving of their transactions.
SPECIFICATION Spec
CONSTANTS
  a1 = a1
  a2 = a2
  s1 = s1
  s2 = s2
  own = own
  adm = adm
  gst = gst
  v1 = v1
  v2 = v2
  v3 = v3
  bad = bad
  f1 = f1
  w1 = w1
  w2 = w2
  Agents = {a1}
  Skills = {s1}
  Users = {adm}
  Admins = {adm}
  Guests = {}
  Nobody = Nobody
  Fields = {f1}
  Values = {v1, v2, v3}
  ValidIn <- TwoSkillTexts
  Slug <- OwnSlugs
  Seeded <- NoItems
  SeedLinks <- NoItems
  SeedOwner = adm
  SeedText <- SeedTextV1
  MaxVersion = 2
  Workers = {w1, w2}
INVARIANTS
  TypeOK
  PublishedWasApproved
  QueuedEditsAreSound
  HeldCopiesAreFit
PROPERTIES
  DeletedStaysDeleted
SYMMETRY RaceSymmetry
