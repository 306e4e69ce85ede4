CONSTANTS
    Names = {a, b, c, d}
    NoName = NoName
    MaxRaw = 4
SPECIFICATION Spec
SYMMETRY NameSymmetry
INVARIANTS
    TypeOK
    IndexMapsAgree
    FreeSlotsExact
    AdjacencyAgrees
    RootsLeavesExact
    ArcsAcyclic
    GuardsExact
    SortCompletes
PROPERTY IndicesStable
