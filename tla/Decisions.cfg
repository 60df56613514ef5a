SPECIFICATION MCSpec
CONSTANTS
  App = {engineering, timesheet}
  Org = {maec}
  Project = {}
  Module = {hapext}
  Action = {"configure"}
  Role = {lead, other}
  Null = Null
  Never = Never
  Reader = {w1}
  Admin = {a1, a2}
  APP = engineering
  ORG = maec
  Offered <- TwoGrants
  System = {}
  GlobalAdmin = lead
  Configuring = {lead}
  UNTIL = Never
  TOKEN_TTL = 1
  MaxCommits = 2
  MaxTokens = 1
  MaxTime = 1
  lead = lead
  other = other
  engineering = engineering
  timesheet = timesheet
  maec = maec
CONSTRAINT LoadsMeetOne
SYMMETRY Interchangeable
CHECK_DEADLOCK FALSE
INVARIANTS
  TypeOK
  AllowedWasRight
  VersionTellsAdminChanges
  Policy
  ClaimsCarryTheInput
