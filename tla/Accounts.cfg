SPECIFICATION Spec
CONSTANTS
  User = {u1, u2, u3}
  Bootstrap = {u1, u3}
  GrantId = {g1, g2, g3}
  Worker = {w1, w2}
  NULL = NULL
  SEATS = 1
  MaxVersion = 3
  MaxRequests = 5
SYMMETRY Symmetry
CHECK_DEADLOCK FALSE
INVARIANTS
  TypeOK
  SomeGlobalAdmin
  SeatsPaidFor
  OneGrantPerScope
PROPERTIES
  VersionMovesWithAccess
