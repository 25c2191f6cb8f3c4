\* Either repository: three requests on two aggregates, one crash.
SPECIFICATION Spec
CONSTANTS
    f1 = f1
    f2 = f2
    m1 = m1
    m2 = m2
    Aggregates = {a1, a2}
    Fields = {f1, f2}
    Rows = {m1, m2}
    Mapping <- OneToTwo
    Requests = {r1, r2, r3}
    MaxCrashes = 1
SYMMETRY RequestSymmetry
CHECK_DEADLOCK FALSE
INVARIANTS
    SnapshotKept
    SerialStoreExact
    OneSnapshotPerAggregate
PROPERTIES
    ImplementsSnapshots
