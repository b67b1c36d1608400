SPECIFICATION Spec
CONSTANTS
    Seats = {s1}
    Requests = {r1, r2}
    None = None
    LockTtl = 3
    RequestTime = 1
    StuckThreshold = 1
    FaultKinds = {}
    MaxFaults = 1
    CustomerCancels = {}
    AdminCancels = {}
    Sweeps = {w1}
    Consumers = {q1}
    MaxJobAttempts = 1
    BatchSize = 2
SYMMETRY Symmetry
INVARIANTS
    QueuedJobIsFound
