SPECIFICATION Spec
CONSTANTS
    r1 = r1
    r2 = r2
    r3 = r3
    b1 = b1
    b2 = b2
    Request = {r1, r2, r3}
    Body = {b1, b2}
    BodyOf <- MCBodyOf
    ZeroHash = ZeroHash
    Oversize = {r1}
    NoRecord = NoRecord
    NoOutcome = NoOutcome
    Ttl = 2
    MaxNow = 2
    LazyPurge = TRUE
    KvFaults = TRUE
CHECK_DEADLOCK FALSE
INVARIANTS
    TypeOK
    SingleDispatch
    ReplayIsTheDispatch
    ReplayOnlyDispatched
PROPERTY OutcomeSticks
