CONSTANTS
    Names = {a, b, c, d}
    NoName = NoName
    MaxRaw = 4
SPECIFICATION Spec
SYMMETRY NameSymmetry
INVARIANT SortAlwaysAvailable
