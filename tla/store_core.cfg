\* Two or three processes in turn on one directory, with faults between them.
CONSTANTS
    Procs = {p1, p2}
    None = None
    SnapEvery = 2
    DamageKinds = {"corruptDag", "newerDag", "corruptSnap", "foreignSnap", "looseKey",
                   "corruptKey", "newerKey", "corruptManifest", "restore", "restoreDag"}
    MaxStarts = 3
    MaxWork = 1
    MaxCycle = 3
    MaxFaults = 1
SPECIFICATION Spec
SYMMETRY Processes
INVARIANTS
    AckedIsDurable
    IdentityIsGenesis
    SnapshotAgrees
CHECK_DEADLOCK FALSE
