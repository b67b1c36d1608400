SPECIFICATION Spec
CONSTANTS
    MaxBookings = 2
    MaxRuns = 1
    PageSize = 1
    Area = {"admin"}
    Filters = {"ALL", "CONFIRMED"}
    Cancels = {c1}
    MaxCached = 1
    MaxChoices = 1
    MaxFaults = 0
INVARIANTS
    UnfilteredPagesFilled
    CancelsOutlastCache
