\* A declined card, then a good one.
SPECIFICATION Spec
CONSTANTS
    o1 = o1
    o2 = o2
    Orders = {o1}
    Requests = {r1}
    Hooks = {h1}
    Intents = {i1}
    Foreign = {}
    Total <- OneTotal
    KeysLast = TRUE
    MaxAttempts = 2
    MaxFaults = 0
    None = None
CHECK_DEADLOCK FALSE
INVARIANT PaidIsNotCancelled
