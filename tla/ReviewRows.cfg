SPECIFICATION Spec
CONSTANTS
    Assets = {a1, a2}
    Reviewers = {r1, r2}
    Cleaners = {c1}
    NoAsset = NoAsset
    MaxEvents = 2
SYMMETRY Symmetry
INVARIANTS
    TypeOK
    EventsMatchRow
    BestOfAllOrNothing
PROPERTIES
    ApprovedIsKept
    ArchivedIsKept
CHECK_DEADLOCK FALSE
