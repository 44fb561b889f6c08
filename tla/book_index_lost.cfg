CONSTANTS
    Ids = {o1, o2}
    Prices = {1, 2}
    MaxQty = 1
    MaxArrivals = 4
    None = None
    Engines = {"cpp"}
    Reuse = {TRUE}
SPECIFICATION Spec
INVARIANTS
    IndexComplete
CHECK_DEADLOCK FALSE
