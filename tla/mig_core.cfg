\* The whole protocol on two axes: registrations, evolutions, migrations, faults;
\* every migration on file ends in a substrate left running.
CONSTANTS
    a1 = a1
    a2 = a2
    Axes = {a1, a2}
    Mortal = {a1}
    MigrationDiffs <- ModifyAndAdd
    EvolutionDiffs <- ModifyAndAdd
    Window = 2
    SelfDriven = TRUE
    MaxValue = 3
    MaxCycle = 4
    MaxStarts = 2
    MaxFaults = 1
SPECIFICATION FairSpec
INVARIANTS
    DecidedWithinWindow
    GradientIsReplay
PROPERTIES
    SchemaChangesOnlyByDecision
    MigrationEnds
