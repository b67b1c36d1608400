SPECIFICATION Spec
CONSTANTS
    Events = {e1, e2}
    Bookings = {b1}
    Plans <- MCPlans
    Toggles = {t1}
    Requests <- MCRequests
    None = None
INVARIANTS
    CatalogueTypeOK
    BookingsHaveEvents
    TotalSeatsCounted
    TableMatchesServer
PROPERTIES
    DeletedStaysDeleted

SYMMETRY MCSymmetry
