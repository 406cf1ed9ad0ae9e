\* Three requests for one order, two concurrent deliveries, a declined card;
\* Stripe may forget idempotency keys.
SPECIFICATION Spec
CONSTANTS
    o1 = o1
    o2 = o2
    Orders = {o1}
    Requests = {r1, r2, r3}
    Hooks = {h1, h2}
    Intents = {i1, i2}
    Foreign = {}
    Total <- OneTotal
    KeysLast = FALSE
    MaxAttempts = 2
    MaxFaults = 2
    None = None
CHECK_DEADLOCK FALSE
SYMMETRY Symmetry
INVARIANTS TypeOK ConfirmedIsPaid AckedIsApplied SecretsAreStored LocksAreLive
PROPERTIES IntentWrittenOnce ChargedOnce
