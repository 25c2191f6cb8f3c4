\* Liveness although the environment may fail twice: one request on one of two
\* documents.
SPECIFICATION FairSpec
CONSTANTS
    Documents = {d1, d2}
    Requests = {r1}
    ClientStatuses = {"queued"}
    MaxFaults = 2
CHECK_DEADLOCK FALSE
PROPERTIES
    EveryRequestEnds
    ProcessingSettles
