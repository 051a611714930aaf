CONSTANTS
    Procs = {1, 2}
    Bindings = {1, 2}
    Editions <- MCEditions
    Answers <- MCAnswers
    MaxOps = 2
    MaxTime = 2
SPECIFICATION TmdbFairSpec
INVARIANT TmdbInv
PROPERTIES ExpiryKeepsLocalValues OnlyVerificationRenews RetentionEnds
CHECK_DEADLOCK FALSE
