CONSTANTS
    Replica = {r1, r2}
    Nobody = nobody
    MaxSeq = 3
    Wanted = {1, 2}
    Gaps = {2}
    Blocked = {1}
    EndSeq = 3
    InFlightCap = 2
    RetryCap = 2
    Window = 3
    MaxAttempts = 2
    MaxFence = 2
    Starts = {0}
    LostAt = {}
    MaxEvents = 0
    Margin = TRUE
SPECIFICATION LiveSpec
INVARIANTS EndIsLast
PROPERTIES EventSettled EndReached
