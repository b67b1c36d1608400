SPECIFICATION FairSpec
CONSTANTS
    MaxBookings = 1
    MaxRuns = 2
    PageSize = 1
    Area = {"mine", "booking"}
    Filters = {"ALL"}
    Cancels = {c1, c2}
    MaxCached = 1
    MaxChoices = 0
    MaxFaults = 1
INVARIANTS
    BookingPagesTypeOK
PROPERTIES
    CancelIsShown
    MyListCatchesUp
    ConfirmationOpens
