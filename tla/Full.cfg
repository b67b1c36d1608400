SPECIFICATION Spec
CONSTANTS
    Seats = {s1}
    Requests = {r1, r2}
    None = None
    LockTtl = 3
    RequestTime = 1
    StuckThreshold = 1
    FaultKinds <- AllFaults
    MaxFaults = 1
    CustomerCancels = {c1}
    AdminCancels = {a1}
    Sweeps = {w1, w2}
    Consumers = {}
    MaxJobAttempts = 2
    BatchSize = 2
SYMMETRY Symmetry
INVARIANTS
    TypeOK
    BookedSeatHasBooking
    DoneIsComplete
    FailedMeansExhausted
    AttemptsBounded
    ConfirmationsBounded
PROPERTIES
    PendingHasOpenJob
