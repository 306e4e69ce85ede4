SPECIFICATION Spec
CONSTANTS
    a = a
    b = b
    c = c
    Nodes = {a, b, c}
    CollapsedIndex <- Order
    Problems <- Validated
PROPERTIES
    PatienceHonoured
CHECK_DEADLOCK FALSE
