\* Three checkouts that lock two rows in any order, while the cart is edited.
SPECIFICATION FairSpec
CONSTANTS
    Users = {u1}
    Products = {p1, p2}
    Requests = {r1, r2, r3}
    Prices = {2}
    StockLevels = {1, 2}
    MaxQuantity = 1
    MaxEdits = 0
    None = None
CHECK_DEADLOCK FALSE
INVARIANTS PendingUnitsCovered SomebodyRuns
PROPERTIES CheckoutsAdvance AtomicPurchases CheckoutsAnswered
