------------------------------ MODULE MCImport ------------------------------
EXTENDS ImportUsers, TLC

CONSTANTS Ann, Bob, Admin, R1, R2, NameA, NameB, NameC

MCFirstName == Admin :> NameA @@ R1 :> NameB

Row(p, name) == [email |-> p, wants |-> name]

\* One address twice, and one of each.
MCFile == {<<Row(Ann, NameB), Row(Bob, NameC)>>, <<Row(Ann, NameB), Row(Ann, NameB)>>}

MCCliFile == {Ann :> [role |-> Admin, carried |-> FALSE],
              Bob :> [role |-> Admin, carried |-> FALSE]}

Symmetry == Permutations(Worker)
=============================================================================
