SPECIFICATION FairSpec
CONSTANTS
    Assets = {a1, a2}
    Reviewers = {r1}
    Cleaners = {c1}
    NoAsset = NoAsset
    MaxEvents = 1
PROPERTIES
    EveryoneFinishes
CHECK_DEADLOCK FALSE
