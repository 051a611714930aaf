SPECIFICATION SyncSpec
CONSTANTS
    Catalog = Catalog
    Scan = Scan
    Others = {o}
    MaxRev <- AllRevisions
    MaxScans = 1
    MaxFaults = 2
    Cap = 2
    Slots = 2
    Starts = {TRUE, FALSE}
INVARIANT SyncInv
PROPERTIES
    Synced
    EndsSettle
CHECK_DEADLOCK FALSE
