SPECIFICATION Spec
CONSTANTS
    Tokens = {t1, t2}
    Slots <- MCSlots
    Calls <- MCCalls
    Queries = {}
    Logins = {l1}
    Logouts = {o1, o2}
    MaxForms = 2
    MaxFaults = 1
    None = None
INVARIANTS
    StoreNotSpent
CHECK_DEADLOCK FALSE
