CONSTANTS
    Names = {"a", "b", "c"}
    NoName = NoName
    MaxRaw = 3
    MaxEdits <- MCMaxEdits
    DataSets <- MCDataSets
    Shapes <- MCShapes
    MaxGiven = 1
    NodeLists <- MCNodeLists
    Unknown = Unknown
    Linear = Linear
    Discrete = Discrete
    NoCpd = NoCpd
SPECIFICATION Spec
INVARIANTS
    TypeOK
    GraphSound
    CpdsBelong
    FitCompletes
PROPERTIES
    FitKeepsFitted
    ForbiddenOnlyByType
    LoadFaithful
