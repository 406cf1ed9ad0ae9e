\* Two checkouts of one customer's cart.
SPECIFICATION FairSpec
CONSTANTS
    Users = {u1}
    Products = {p1}
    Requests = {r1, r2}
    Prices = {2}
    StockLevels = {2}
    MaxQuantity = 1
    MaxEdits = 0
    None = None
CHECK_DEADLOCK FALSE
PROPERTY ConvertsTheCart
