CONSTANTS
    Workers = {1, 2}
    Groups = {1, 2, 3}
    Files <- MCFiles
    Answers <- MCAnswers
    Outlines <- MCOutlines
    Untrusted <- MCUntrusted
    LookupTitle <- MCLookupTitle
    CacheTitle <- MCCacheTitle
    Capacity = 2
    MaxFaults = 2
    Detectors = {w1, w2}
    NoWorker = NoWorker
    MaxVersion = 2
    MaxAttempts = 2
    MaxScans = 2
    Enough = {1, 2}
SPECIFICATION Spec
INVARIANTS RequestsCollapse AnswersBelongToTheGroup IntroInv
PROPERTIES EveryGroupEnds PlayedSeasonsAreAnswered
CHECK_DEADLOCK FALSE
