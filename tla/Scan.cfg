SPECIFICATION ScanSpec
CONSTANTS
    f1 = f1
    f2 = f2
    Files = {f1, f2}
    Below = {f2}
    Whole = Whole
    Scopes <- AllScopes
    HostKinds <- AllHosts
    Contents = {"none", "media", "bad"}
    MaxOutages = 1
INVARIANT RequestsAreCovered
PROPERTIES OutagesRemoveNothing QuietScansAreExact ScopedScansStayInScope
