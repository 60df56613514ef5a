SPECIFICATION FairSpec
CONSTANTS
  Address = {a1, a2}
  Worker = {w1, w2}
  NULL = NULL
  LOCK_AFTER = 2
  LOCK_BASE = 1
  LOCK_CAP = 2
  FORGET_AFTER = 1
  MaxTime = 3
  MaxCount <- OneGoesOn
  a1 = a1
  a2 = a2
INVARIANTS
  TypeOK
  FailuresLock
PROPERTIES
  LocksMoveByTheRules
  LockEnds
CHECK_DEADLOCK FALSE
