SPECIFICATION Spec
CONSTANTS
    Users = {u1, u2, u3}
    Libraries = {l1}
    Credentials = {web1, nat1}
    Native = {nat1}
    Requests = {r1, r2}
    Streams = {s1}
    NativeIds = {n1}
    Refreshes = {f1, f2, f3}
    MaxToken = 3
    Keys = {k1, k2, k3}
    Attempts = {a1, a2, a3}
    MaxFailures = 2
    Window = 2
    Lockout = 2
    MaxKeys = 2
    MaxNow = 5
    NoUser = NoUser
    NoCred = NoCred
    NoNative = NoNative
    NoKey = NoKey
SYMMETRY MCSymmetry
INVARIANTS
    SignInInv
    StreamsAreCurrent
PROPERTIES
    OwnerStays
    ExchangesAreExclusive
    LockoutsKeepTheirEnd
CHECK_DEADLOCK FALSE
