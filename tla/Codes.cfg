SPECIFICATION Spec
CONSTANTS
  User = {ann}
  Client = {spool, hapext}
  Uri = {home, dev}
  Registered <- Addresses
  Code = {c1, c2}
  Worker = {w1, w2}
  Null = Null
  CODE_TTL = 1
  CODE_KEEP = 0
  MaxTime = 2
  MaxChanges = 1
  spool = spool
  hapext = hapext
  home = home
  dev = dev
SYMMETRY Symmetry
INVARIANTS
  TypeOK
  TokensAreDeserved
  RefusalsExplained
PROPERTIES
  ImplementsCodeLife
CHECK_DEADLOCK FALSE
