\* Two connections, three peers of which one is the parent, one has no key and one is
\* revoked, late and broken frames,
\* a restart and a failed save.
CONSTANTS
    Peers = {"p1", "p2", "p3"}
    Self = "self"
    None = "none"
    Keys = {"k1"}
    Revoked = {"p3"}
    Parent = "p1"
    Hellos <- SomeHellos
    AcceptLegacy = TRUE
    FloorMin = 3
    MaxDepth = 1
    Batches <- SomeBatches
    MaxConns = 2
    MaxArrivals = 1
    MaxGone = 1
    MaxWire = 1
    MaxDag = 2
    MaxRestarts = 1
    MaxFaults = 1
SPECIFICATION FedSpec
CHECK_DEADLOCK FALSE
INVARIANTS
    SessionsArePinned
    WrapsFollowPins
    SweepIsExact
