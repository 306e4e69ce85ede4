SPECIFICATION Spec
CONSTANTS
    a = a
    b = b
    c = c
    Nodes = {a, b, c}
    CollapsedIndex <- Order
    Problems <- Unvalidated
PROPERTIES
    AppliedDeltaTrue
CHECK_DEADLOCK FALSE
