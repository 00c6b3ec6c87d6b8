SPECIFICATION Spec
CONSTANTS
    Tasks = {t1}
    Workers = {w1, w2}
    Clients = {c1, c2}
    NoTask = NoTask
    NoWorker = NoWorker
    Requested <- RequestOne
    MaxFiles = 1
    MaxRetries = 1
    PromoteLimit = 1
    MaxRepairs = 2
    Faults <- LossyFaults
SYMMETRY Symmetry
INVARIANT ExclusiveProcessing
