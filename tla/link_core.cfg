SPECIFICATION FairSpec
CONSTANTS
    MaxBoots = 2
    MaxIds = 3
INVARIANTS
    GradientIsTheDag
    SuccessIsRecorded
PROPERTIES
    OrphansLeave
    ShutdownReturns
CHECK_DEADLOCK FALSE
