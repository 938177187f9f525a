SPECIFICATION Spec
CONSTANTS
    Cids = {c1, c2}
    Torn = Torn
    Glued = Glued
    TornWrites = FALSE
    MaxLines = 4
    MaxCrashes = 2
    MaxRaises = 1
INVARIANTS TypeOK MirrorIsDurable InFlightIsNamed RestartResurrects
PROPERTY ImplementsDurableIntents
SYMMETRY CidSymmetry
