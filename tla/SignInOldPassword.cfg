SPECIFICATION Spec
CONSTANTS
  User = {u1}
  SessionId = {s1, s2}
  Worker = {w1, w2}
  NULL = NULL
  ABSOLUTE = 2
  IDLE = 1
  TOUCH_EVERY = 1
  KEEP_ENDED = 1
  MaxTime = 1
  MaxPassword = 1
SYMMETRY Symmetry
INVARIANTS
  OldPasswordsOpenNothing
CHECK_DEADLOCK FALSE
