SPECIFICATION Spec
CONSTANTS
    o1 = o1
    o2 = o2
    e1 = e1
    e2 = e2
    e3 = e3
    Gap = Gap
    End = End
    NoRow = NoRow
    NoWriter = NoWriter
    Writer = {o1, o2}
    Event = {e1, e2, e3}
    Feed <- MCTwo
    Direct = {}
    HeadEvery = 2
    MaxSeq = 4
    MaxFence = 3
    Evicts = FALSE
    Timely = TRUE
    Faults = TRUE
INVARIANTS
    DrainedIsReadable
CHECK_DEADLOCK FALSE
