\* An axis that an evolution added is perturbed.
CONSTANTS
    a1 = a1
    a2 = a2
    Axes = {a1, a2}
    Mortal = {a1}
    MigrationDiffs <- NoDiffs
    EvolutionDiffs <- AddOnly
    Window = 2
    SelfDriven = TRUE
    MaxValue = 3
    MaxCycle = 3
    MaxStarts = 1
    MaxFaults = 0
SPECIFICATION Spec
INVARIANT ReplayFailsOnlyOnCorruption
