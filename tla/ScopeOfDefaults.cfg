SPECIFICATION ManagedSpec
CONSTANTS
    ScopeParent <- MCScopeParent
    Served = {"w1", "p1", "c1"}
    Creatable = {}
    Typable = {}
    Sample <- MCSample
    MaxManaged = 4
INVARIANTS ScopeWasWhole
CHECK_DEADLOCK FALSE
