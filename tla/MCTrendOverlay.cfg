SPECIFICATION Spec
CONSTANTS
    Orders = {o1, o2, o3}
    Qty = 2
    GridQty = 1
    Echo = {"id"}
    PartialExpiry = FALSE
    Lossy = TRUE
    MayFail = {"crash", "save", "sink", "journal", "replay"}
    MaxFaults = 2
INVARIANTS TypeOK DurableIntent SlotSafe BucketBacked
SYMMETRY OrderSymmetry
