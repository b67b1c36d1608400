SPECIFICATION FairSpec
CONSTANTS
    Seats = {s1, s2}
    Requests = {r1, r2}
    None = None
    LockTtl = 2
    RequestTime = 0
    StuckThreshold = 0
    FaultKinds <- LiveFaults
    MaxFaults = 1
    CustomerCancels = {}
    AdminCancels = {}
    Sweeps = {w1}
    Consumers = {q1}
    MaxJobAttempts = 2
    BatchSize = 1
PROPERTIES
    LockEventuallyFreed
    JobEventuallySettled
    RequestEventuallyAnswered
