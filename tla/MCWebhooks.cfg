CONSTANTS
    Replica = {r1, r2}
    Nobody = nobody
    MaxSeq = 2
    Wanted = {1, 2}
    Gaps = {1}
    Blocked = {}
    EndSeq = 0
    InFlightCap = 1
    RetryCap = 2
    Window = 2
    MaxAttempts = 2
    MaxFence = 2
    Starts = {0}
    LostAt = {1}
    MaxEvents = 1
    Margin = TRUE
SPECIFICATION Spec
SYMMETRY Symmetry
INVARIANTS TypeOK WatermarkCovers CheckpointCovers CursorSafe
