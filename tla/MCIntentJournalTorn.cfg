SPECIFICATION Spec
CONSTANTS
    Cids = {c1, c2}
    Torn = Torn
    Glued = Glued
    TornWrites = TRUE
    MaxLines = 4
    MaxCrashes = 2
    MaxRaises = 1
INVARIANT RestartResurrects
SYMMETRY CidSymmetry
