SPECIFICATION FairSpec
CONSTANTS
    a = a
    b = b
    s1 = s1
    s2 = s2
    s3 = s3
    Nobody = Nobody
    Sender = {s1, s2, s3}
    Replica = {a, b}
    HomeOf <- MCHomeOf
    Named = {s1, s3}
    Droppable = {s1}
    MaxRows = 2
    MaxSlot = 5
    Faults = 1
    Prompt = TRUE
    Margin = TRUE
INVARIANTS
    TypeOK
    AcceptedKept
    InSlotOrder
    PendingBounded
CHECK_DEADLOCK FALSE
PROPERTIES
    AcceptedReachesLog
