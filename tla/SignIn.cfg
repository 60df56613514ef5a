SPECIFICATION Spec
CONSTANTS
  User = {u1}
  SessionId = {s1, s2}
  Worker = {w1, w2}
  NULL = NULL
  ABSOLUTE = 3
  IDLE = 2
  TOUCH_EVERY = 1
  KEEP_ENDED = 1
  MaxTime = 3
  MaxPassword = 1
SYMMETRY Symmetry
INVARIANTS
  WellFormed
  LiveIsCurrent
  AdminPasswordIsTemporary
PROPERTIES
  RevokedIsFinal
  EndsEverySignIn
  FixationDefence
  SweepKeepsRecent
  ImplementsSessionLife
CHECK_DEADLOCK FALSE
