\* The whole protocol: batching, flushing, real cycles, crashes, failed saves.
CONSTANTS
    Raws = {m1, m2}
    Axes = {a1}
    Migrations = {g1}
    BatchMax = 3
    HungerThreshold = 4
    PruneInterval = 5
    SelfDriven = TRUE
    MaxCycle = 6
    MaxFaults = 1
SPECIFICATION Spec
SYMMETRY Symmetry
INVARIANTS
    TypeOK
    SpansTileTheCounter
    BoundaryScanned
    AbsorbedOnce
    PendingIsInert
    LiveIsReplay
