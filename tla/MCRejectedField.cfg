\* An accepted field is rejected while two projections are under way.
SPECIFICATION Spec
CONSTANTS
    Evidence = {e1}
    Documents = {doc1}
    Fields = {f1}
    Submissions = {s1, s2}
    Projections = {p1, p2}
    MaxTime = 1
    MaxRestarts = 0
SYMMETRY FieldSymmetry
CHECK_DEADLOCK FALSE
INVARIANTS
    RejectedFieldStaysExcluded
