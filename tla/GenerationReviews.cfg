SPECIFICATION Spec
CONSTANTS
    Projects = {p1}
    Keys = {k1, k2}
    Specs = {s1}
    JobIds = {j1, j2}
    Workers = {w1, w2}
    Clients = {c1, c2}
    NoWorker = NoWorker
    NoJob = NoJob
    MaxAttempts = 1
    Lease = 1
    Poll = 1
    MaxTime = 2
SYMMETRY Symmetry
INVARIANTS
    SingleActiveJob
    ReservationsDistinct
    CurrentIsNewestSuccess
    ApprovalPinsArtifact
    FailedIsRecoverable
PROPERTIES
    ProjectMovesForward
    ImplementsLifecycle
CHECK_DEADLOCK FALSE
