SPECIFICATION FairSpec
CONSTANTS
    JobIds = {j1, j2}
    Workers = {w1, w2}
    NoWorker = NoWorker
    NoJob = NoJob
    MaxAttempts = 2
INVARIANT QueueTypeOK
PROPERTY EveryJobEnds
