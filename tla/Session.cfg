SPECIFICATION FairSpec
CONSTANTS
    Tokens = {t1, t2, t3}
    Slots <- MCOneSlot
    Calls <- MCCalls
    Queries = {q1}
    Logins = {l1}
    Logouts = {o1}
    MaxForms = 1
    MaxFaults = 0
    None = None
INVARIANTS
    SessionTypeOK
PROPERTIES
    InitializingEnds
    RequestsEnd
    DeactivatedLosesAccess
CHECK_DEADLOCK FALSE
