\* Saturation, alignment, strain, sycophancy and the operator's queries, over a
\* restart and an idle batch.
CONSTANTS
    Axes = {"compute", "storage"}
    Floor = 2
    Sustained = 2
    Mortality = 2
    RefusalAfter = 2
    ExhaustedCooldown = 2
    SilentWindow = 3
    Cooldown = 2
    StrainDebounce = 3
    StrainWindow = 2
    BurstWindow = 2
    BurstThreshold = 0
    HistoryCap = 4
    MinHistory = 2
    DissentWindow = 2
    InteractionFloor = 1
    PendingEvery = 3
    BirthExpires = 3
    SnapshotEvery = 2
    IdleSpan = 2
    Weather <- MCWeather
    Pauses = {1}
    MaxCycle = 5
    MaxOps = 2
SPECIFICATION Spec
INVARIANTS
    StageIsTheRun
    RefusalIsVerifiable
    NoHiddenCost
    OneProposalPerEpisode
    LastingDriftIsRaised
    DetectionsAreAccounted
PROPERTIES
    AccusedOnlyOfNeglect
CHECK_DEADLOCK FALSE
