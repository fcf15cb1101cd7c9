\* Three calls for one Secret that other users create, edit and delete.
CONSTANTS
    Calls      = {c1, c2, c3}
    Foreign    = foreign
    Extras     = {plain, labelled}
    NoExtra    = plain
    MaxVersion = 3
    None       = None
SPECIFICATION Spec
SYMMETRY CallSymmetry
CHECK_DEADLOCK FALSE
INVARIANTS
    TypeOK
    PairMatches
PROPERTIES
    OthersKept
    RefinesAtomic
