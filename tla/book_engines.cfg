CONSTANTS
    Ids = {o1, o2, o3, o4}
    Prices = {1, 2, 3}
    MaxQty = 2
    MaxArrivals = 4
    None = None
    Engines = {"python", "cpp", "rust"}
    Reuse = {TRUE, FALSE}
SPECIFICATION Spec
SYMMETRY Symmetry
INVARIANTS
    TypeOK
    UniqueInv
PROPERTIES
    PriceTimePriority
    RestsAtBack
    Refines
CHECK_DEADLOCK FALSE
