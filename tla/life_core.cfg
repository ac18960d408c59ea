\* Births, quarantine, succession and death over two generations and one fault.
CONSTANTS
    d0 = d0
    d1 = d1
    d2 = d2
    Dirs = {d0, d1, d2}
    Root = d0
    Elders = {d0}
    Axes = {a1}
    Envelopes <- SpawnEnvelopes
    Intervals <- SuccessorIntervals
    DepthMax = 1
    Quota = 2
    MinInterval = 2
    QuarantineCycles = 1
    MaxRunning = 1
    MaxCycle = 1
    MaxEvents = 3
    MaxFaults = 1
SPECIFICATION LifeSpec
SYMMETRY Children
INVARIANTS
    BirthsAreSpaced
    ChildrenAreRecorded
    SuccessionIsSerial
    GrownAfterQuarantine
