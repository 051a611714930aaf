CONSTANTS
    Ids = {1, 2, 3, 4, 5}
    Libraries = {"l1", "l2"}
    Rows <- MCRows
    Queries = {"q"}
    Hit <- MCHit
    Outlines <- MCOutlines
    NoQuery = NoQuery
    Limit = 2
    PageSize = 2
    Clients = {c1, c2, c3}
    Variants = {v1, v2, v3, large}
    Large = large
    NoClient = NoClient
    NoVariant = NoVariant
    SourceSize <- MCSourceSize
    Overhead = 1
    ArtifactMax = 3
    Quota = 6
    Headroom = 1
    Slots = 2
    Volume = 8
    Others = {0, 2}
    Leftovers <- MCLeftovers
SYMMETRY MCSymmetry
SPECIFICATION Spec
INVARIANTS PagesTile AnswersAgree AudioCacheInv
