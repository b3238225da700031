SPECIFICATION Spec
CONSTANTS
    o1 = o1
    o2 = o2
    e1 = e1
    e2 = e2
    e3 = e3
    Gap = Gap
    End = End
    NoRow = NoRow
    NoWriter = NoWriter
    Writer = {o1, o2}
    Event = {e1, e2, e3}
    Feed <- MCFeed
    Direct = {e1}
    HeadEvery = 1
    MaxSeq = 4
    MaxFence = 2
    Evicts = FALSE
    Timely = FALSE
    Faults = TRUE
INVARIANTS
    NoHoles
    NothingLost
    MarkedIsWritten
CHECK_DEADLOCK FALSE
