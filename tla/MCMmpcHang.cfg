SPECIFICATION Spec
CONSTANTS
    Nodes = {0, 1, 2, 3}
    Alpha = 2
    Tasks <- HangTasks
PROPERTY Terminates
