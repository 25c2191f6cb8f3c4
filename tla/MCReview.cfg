\* Two reviews of two fields and two documents of one evidence item, two
\* projections, one restart.
SPECIFICATION Spec
CONSTANTS
    Evidence = {e1}
    Documents = {doc1, doc2}
    Fields = {f1, f2}
    Submissions = {s1, s2}
    Projections = {p1, p2}
    MaxTime = 2
    MaxRestarts = 1
SYMMETRY ReviewSymmetry
CHECK_DEADLOCK FALSE
INVARIANTS
    LatestDecisionWins
    OvertakingNeedsOverlap
    OneDocumentPerProjection
    SerialProjectionsAdvance
PROPERTIES
    NewestDecisionNeverRegresses
    ImplementsView
