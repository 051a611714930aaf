CONSTANTS
    Pending <- MCPending
    Size <- MCSize
    Unchanged = 2
    Issues = 1
    Bound = {1, 3}
    Fates <- MCFates
    QueueCapacity = 1
    Concurrency = 2
    MaxIssues = 1
    MaxAttempts = 2
    Libraries = {l1}
    Workers = {w1, w2}
    Deleters = {d1}
    Changers = {c1}
    Languages = {zh, en}
    Initial = zh
    Handles = {h1, h2}
    NoWorker = NoWorker
    NoLibrary = NoLibrary
    NoHandle = NoHandle
SPECIFICATION ExecutionSpec
INVARIANTS PipelineInv RegistryInv
PROPERTIES ScanEndsUnlessBlocked CommitsUseCurrentLanguage
CHECK_DEADLOCK FALSE
