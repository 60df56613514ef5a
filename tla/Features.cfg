SPECIFICATION Spec
CONSTANTS
  Feature = {hapext, spool}
  Action = {"use", "view"}
  Offered <- Versions
  Worker = {w1, w2}
  Null = Null
  MaxReports = 3
  MaxChanges = 2
  hapext = hapext
  spool = spool
SYMMETRY Symmetry
INVARIANTS
  TypeOK
  LastReportDecides
  RetiredForEver
  NewUntilReviewed
CHECK_DEADLOCK FALSE
