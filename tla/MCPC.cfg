SPECIFICATION Spec
CONSTANTS
    Nodes = {0, 1, 2, 3}
    Threads = {t1, t2}
    Tasks <- MCTasks
INVARIANTS TypeOK SepsetsSound ClassFound RestrictionsKept LookupsSucceed
PROPERTIES Terminates LevelsRefined
