\* Absorption is eventual in a process left running: two prune boundaries, faults,
\* restarts before it, and an operator whose requests keep cutting the batch short.
CONSTANTS
    Raws = {m1}
    Axes = {}
    Migrations = {}
    BatchMax = 3
    HungerThreshold = 4
    PruneInterval = 5
    SelfDriven = TRUE
    MaxCycle = 10
    MaxFaults = 1
SPECIFICATION FairSpec
PROPERTIES
    EventuallyAbsorbed
