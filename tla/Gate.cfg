SPECIFICATION Spec
CONSTANTS
  Person = {ann}
  Session = {s1}
  Owner <- Sessions
  Role = {manager}
  BadCall = {"bad_secret"}
  Worker = {w1, w2}
  Null = Null
  Initially <- OneThingAmiss
  BAD_CALL_AUDIT_EVERY = 1
  NO_ACCESS_AUDIT_EVERY = 2
  MaxTime = 2
  MaxChanges = 1
  MaxRows = 3
  ann = ann
  manager = manager
SYMMETRY Symmetry
INVARIANTS
  TypeOK
  AllowedWasDeserved
  AuditBounded
CHECK_DEADLOCK FALSE
