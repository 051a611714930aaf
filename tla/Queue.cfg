SPECIFICATION FairSpec
CONSTANTS
    JobIds = {j1, j2}
    Workers = {w1, w2}
    Libraries = {l1}
    NoJob = NoJob
    NoWorker = NoWorker
    NoLibrary = NoLibrary
    Requests = {"scan", "delete", "artwork_cleanup", "revalidate", "intro"}
    MaxAttempts <- MCMaxAttempts
INVARIANTS
    QueueInv
PROPERTIES
    ImplementsLifecycle
    LiveLeaseIsExclusive
    WorkEnds
