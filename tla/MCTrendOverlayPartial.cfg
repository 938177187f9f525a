SPECIFICATION Spec
CONSTANTS
    Orders = {o1, o2}
    Qty = 2
    GridQty = 1
    Echo = {"cid", "id"}
    PartialExpiry = TRUE
    Lossy = TRUE
    MayFail = {}
    MaxFaults = 2
INVARIANT ClearedIsSafe
SYMMETRY OrderSymmetry
