SPECIFICATION FairSpec
CONSTANTS
    a = a
    b = b
    c1 = c1
    c2 = c2
    c3 = c3
    Replica = {a, b}
    Caller = {c1, c2, c3}
    HomeOf <- MCHomeOf
    Max = 1
    SlotTtl = 2
    Gens = 1
    Pruning = {a}
    Attempts = 2
    KvFaults = TRUE
INVARIANTS
    TypeOK
    SlotExclusive
    NeverOverCap
    PermitBacked
    LocalCount
PROPERTY OrphanEnds
