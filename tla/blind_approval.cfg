\* One admin reads the review page while the owner works on an agent.
SPECIFICATION DeskSpec
CONSTANTS
  a1 = a1
  s1 = s1
  own = own
  adm = adm
  v1 = v1
  v2 = v2
  f1 = f1
  Agents = {a1}
  Skills = {s1}
  Users = {own, adm}
  Admins = {adm}
  Guests = {}
  Nobody = Nobody
  Fields = {f1}
  Values = {v1, v2}
  ValidIn <- AnyValue
  Slug <- OwnSlugs
  Seeded = {s1}
  SeedLinks <- NoLinks
  SeedOwner = adm
  SeedText <- SeedTextV1
  MaxVersion = 2
PROPERTY
  ApprovedAsShown
