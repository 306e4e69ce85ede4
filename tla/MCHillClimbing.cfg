SPECIFICATION Spec
CONSTANTS
    a = a
    b = b
    c = c
    Nodes = {a, b, c}
    CollapsedIndex <- Order
    Problems <- Searches
INVARIANTS
    TypeOK
    CachesExact
    RestrictionsKept
    BestAccounted
PROPERTIES
    OnlyRemovalsGoStale
    BestNeverWorse
    Terminates
CHECK_DEADLOCK FALSE
