SPECIFICATION Spec
CONSTANTS
    Users = {u1}
    Paths = {p1, p2, p3}
    Items = {1, 2, 3}
    WatchingLimit = 1
    NoItem = NoItem
    NoFile = NoFile
    Keys = {kA, kB}
    Bindings = {b1}
    NoBinding = NoBinding
    Coordinates <- MCCoordinates
    Special = p1
    Other = p2
    Scopes <- MCScopes
SYMMETRY MCSymmetry
INVARIANT CatalogInv
PROPERTIES
    AcceptedBindingsSurvive
    RecordsFollowWorks
CHECK_DEADLOCK FALSE
