SPECIFICATION Spec
CONSTANTS
    Seats = {s1, s2}
    Requests = {r1, r2, r3}
    None = None
    LockTtl = 3
    RequestTime = 1
    StuckThreshold = 1
    FaultKinds <- SafeFaults
    MaxFaults = 2
    CustomerCancels = {}
    AdminCancels = {}
    Sweeps = {w1}
    Consumers = {q1}
    MaxJobAttempts = 1
    BatchSize = 2
SYMMETRY Symmetry
INVARIANTS
    NoDoubleBooking
    TransactionHoldsItsLocks
    RejectedLeavesNoLock
PROPERTIES
    LockKeptInFlight
    ImplementsSeatSales
