SPECIFICATION Spec
CONSTANTS
    Projects = {p1, p2}
    Keys = {k1}
    Specs = {s1}
    JobIds = {j1, j2}
    Workers = {w1, w2}
    Clients = {}
    NoWorker = NoWorker
    NoJob = NoJob
    MaxAttempts = 2
    Lease = 1
    Poll = 1
    MaxTime = 2
SYMMETRY SymmetryOfProjects
INVARIANTS
    TypeOK
    TerminalAdmissible
    StrandedOnlyByJobStore
    RetriesUsedUp
    ReturnIsTerminal
PROPERTIES
    HistoryIsFinal
    LiveLeaseNotTaken
    ImplementsJobQueue
CHECK_DEADLOCK FALSE
