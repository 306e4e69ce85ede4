SPECIFICATION Spec
CONSTANTS
    Nodes = {0, 1, 2, 3}
    Calls <- MCCalls
INVARIANTS TypeOK ToDagExact ApproximateDag 
PROPERTIES Terminates
