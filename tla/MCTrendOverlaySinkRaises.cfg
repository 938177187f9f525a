SPECIFICATION Spec
CONSTANTS
    Orders = {o1, o2}
    Qty = 2
    GridQty = 1
    Echo = {"id"}
    PartialExpiry = FALSE
    Lossy = TRUE
    MayFail = {"sink"}
    MaxFaults = 1
INVARIANT BookedOnce
SYMMETRY OrderSymmetry
