\* Two orders, a declined and a good card for each, one failure.
SPECIFICATION FairSpec
CONSTANTS
    o1 = o1
    o2 = o2
    Orders = {o1, o2}
    Requests = {r1, r2}
    Hooks = {h1}
    Intents = {i1, i2}
    Foreign = {}
    Total <- TwoTotals
    KeysLast = TRUE
    MaxAttempts = 2
    MaxFaults = 1
    None = None
CHECK_DEADLOCK FALSE
INVARIANTS OneIntentPerOrder CapturesAreDue
PROPERTIES RequestsAnswered PaymentsSettle
