\* Two checkouts against cart operations and an edit of the catalog.
SPECIFICATION Spec
CONSTANTS
    Users = {u1}
    Products = {p1, p2}
    Requests = {r1, r2}
    Prices = {2, 3}
    StockLevels = {1, 3}
    MaxQuantity = 2
    MaxEdits = 1
    None = None
SYMMETRY Symmetry
CHECK_DEADLOCK FALSE
INVARIANTS TypeOK StockConserved AllOrNothing OrderTotalsMatch
