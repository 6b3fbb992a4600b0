SPECIFICATION FairSpec
CONSTANTS
    c1 = c1
    c2 = c2
    Clients = {c1, c2}
    Remote = {c1}
    MAX_CUSTOM_RECORDERS = 2
    Calls <- MCCalls
    MaxCalls = 3
    MaxFaults = 1
INVARIANTS
    TypeOK
    IndexNamesOwnRecorder
    OrphansAreGivenUp
    SnapshotKept
    TerminatedByRestart
    RecordersEndFirst
PROPERTIES
    RequestsServed
    SignalEndsServer
