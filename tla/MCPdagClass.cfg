SPECIFICATION Spec
CONSTANTS
    Nodes = {0, 1, 2, 3, 4}
    Calls <- LadderCall
INVARIANT ClassRepresented
