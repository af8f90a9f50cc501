SPECIFICATION Spec
CONSTANTS
    Projects = {p1}
    Keys = {k1}
    Specs = {s1}
    JobIds = {j1}
    Workers = {w1, w2}
    Clients = {}
    NoWorker = NoWorker
    NoJob = NoJob
    MaxAttempts = 2
    Lease = 1
    Poll = 1
    MaxTime = 2
INVARIANT GeneratingHasActiveJob
CHECK_DEADLOCK FALSE
