SPECIFICATION FairSpec
CONSTANTS
    Tasks = {t1, t2}
    Workers = {w1, w2}
    Clients = {c1, c2}
    NoTask = NoTask
    NoWorker = NoWorker
    Requested <- RequestTwo
    MaxFiles = 2
    MaxRetries = 1
    PromoteLimit = 1
    MaxRepairs = 0
    Faults <- NoFaults
INVARIANTS
    NeverForgotten
    SettledClosesAttempts
PROPERTIES
    EveryTaskSettles
