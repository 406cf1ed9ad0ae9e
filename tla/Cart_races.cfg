\* Three requests on one cart, a deletion, checkouts and a failure.
SPECIFICATION Spec
CONSTANTS
    Users = {u1}
    Products = {p1}
    Requests = {r1, r2, r3}
    Quantities = {1, 2}
    MaxInt = 3
    MaxFaults = 1
    None = None
SYMMETRY Symmetry
CHECK_DEADLOCK FALSE
INVARIANTS TypeOK ItemsHaveProducts
PROPERTY AtomicCarts
