\* Three requests on a product with an image and on a new one.
SPECIFICATION Spec
CONSTANTS
    p1 = p1
    p2 = p2
    i1 = i1
    Products = {p1, p2}
    Categories = {c1, c2}
    Names = {n1, n2}
    Images = {i1, i2, i3}
    Stocked <- OneProduct
    Requests = {r1, r2, r3}
    MaxImages = 2
    MaxFaults = 1
    None = None
    Gone = Gone
SYMMETRY Symmetry
CHECK_DEADLOCK FALSE
INVARIANTS TypeOK ImagesExist RejectedLeavesNothing NothingLeaks
