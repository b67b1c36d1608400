SPECIFICATION Spec
CONSTANTS
    e1 = e1
    e2 = e2
    s1 = s1
    s2 = s2
    Events <- MCEvents
    SeatsOf <- MCSeatsOf
    Attempts = {a1}
    MaxSeats = 1
    Contested <- MCContested
    None = None
INVARIANTS
    EventPageTypeOK
    SelectionOfThisEvent
PROPERTIES
    SeatMapCatchesUp
    SuccessIsConfirmed
