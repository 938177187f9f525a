SPECIFICATION FairSpec
CONSTANTS
    Orders = {o1, o2}
    Qty = 1
    GridQty = 1
    Echo = {"cid", "id"}
    PartialExpiry = FALSE
    Lossy = TRUE
    MayFail = {}
    MaxFaults = 1
PROPERTY SelfCorrects
