SPECIFICATION Spec
CONSTANTS
    a = a
    b = b
    c1 = c1
    c2 = c2
    c3 = c3
    Replica = {a, b}
    Caller = {c1, c2, c3}
    HomeOf <- MCHomeOf
    Max = 2
    SlotTtl = 2
    Gens = 0
    Pruning = {a}
    Attempts = 3
    KvFaults = TRUE
INVARIANT CapKept
SYMMETRY MCSymmetry
