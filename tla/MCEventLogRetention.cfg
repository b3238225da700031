SPECIFICATION Spec
CONSTANTS
    o1 = o1
    o2 = o2
    e1 = e1
    e2 = e2
    e3 = e3
    Gap = Gap
    End = End
    NoRow = NoRow
    NoWriter = NoWriter
    Writer = {o1, o2}
    Event = {e1, e2, e3}
    Feed <- MCTwo
    Direct = {e1, End}
    HeadEvery = 2
    MaxSeq = 4
    MaxFence = 2
    Evicts = TRUE
    Timely = TRUE
    Faults = TRUE
INVARIANTS
    TypeOK
    NoHoles
    BytesCover
PROPERTIES
    ReadersPromise
CHECK_DEADLOCK FALSE
