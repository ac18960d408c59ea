\* All rules over three scans and a restart.
CONSTANTS
    Contents = {m1, m2}
    Axes = {"a"}
    Ops = {"o"}
    OrphanGrace = 1
    StaleGrace = 2
    ErroneousGrace = 1
    RedundantGrace = 1
    PlateGrace = 1
    Interval = 2
    HoardWindow = 3
    IngestionFloor = 2
    HoardCooldown = 2
    MaxCycle = 6
    MaxOps = 3
    MaxCited = 2
SPECIFICATION Spec
INVARIANTS
    TombstonedOnce
    NothingFallsOff
    GraceRunsFromTheLastWord
    NothingKnownIsLost
PROPERTIES
    HoardingIsReported
SYMMETRY Interchangeable
CHECK_DEADLOCK FALSE
