SPECIFICATION Spec
CONSTANTS
    Tasks = {t1}
    Workers = {w1, w2}
    Clients = {c1}
    NoTask = NoTask
    NoWorker = NoWorker
    Requested <- RequestOne
    MaxFiles = 1
    MaxRetries = 1
    PromoteLimit = 1
    MaxRepairs = 1
    Faults <- NoFaults
INVARIANT OneAttemptDelivers
