SPECIFICATION Spec
CONSTANTS
    Assets = {a1}
    Cleaners = {c1, c2}
    NoAsset = NoAsset
SYMMETRY Symmetry
INVARIANTS
    TypeOK
    RowHasFiles
CHECK_DEADLOCK FALSE
