SPECIFICATION Spec
CONSTANTS
    Nodes = {0, 1, 2, 3}
    Alpha = 2
    Tasks <- MCTasks
INVARIANTS TypeOK AssocExact ClassFound RestrictionsKept
PROPERTIES TerminatesUnlessForced
