SPECIFICATION Spec
CONSTANTS
  Ann = Ann
  Bob = Bob
  Admin = Admin
  R1 = R1
  R2 = R2
  NameA = NameA
  NameB = NameB
  NameC = NameC
  Person = {Ann, Bob}
  Role = {Admin, R1, R2}
  Builtin = {Admin}
  Name = {NameA, NameB, NameC}
  FirstName <- MCFirstName
  Group = {g1}
  Worker = {w1, w2}
  Null = Null
  Batch = {b1}
  File <- MCFile
  CliFile <- MCCliFile
  MaxVersion = 2
  MaxRequests = 5
  MaxRuns = 2

PROPERTIES NobodyIsStripped
SYMMETRY Symmetry
CHECK_DEADLOCK FALSE
