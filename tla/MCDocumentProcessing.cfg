\* Two concurrent requests on one document, one environment fault.
SPECIFICATION Spec
CONSTANTS
    Documents = {d1}
    Requests = {r1, r2}
    ClientStatuses = {"in_progress"}
    MaxFaults = 1
SYMMETRY RequestSymmetry
CHECK_DEADLOCK FALSE
INVARIANTS
    OutcomeBackedByRun
    RunStagesCoherent
    InProgressHasOwner
PROPERTIES
    ImplementsLifecycle
