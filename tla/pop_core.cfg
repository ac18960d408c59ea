\* Three peers and this substrate: a quorum is three of four.
CONSTANTS
    p1 = p1
    p2 = p2
    p3 = p3
    Peers = {p1, p2, p3}
    Self = "self"
    None = "none"
    Keys = {"k1", "k2"}
    Revoked = {}
    Parent = "none"
    Hellos <- ThreePeers
    AcceptLegacy = FALSE
    FloorMin = 3
    MaxDepth = 1
    Batches = {}
    MaxConns = 3
    MaxArrivals = 0
    MaxGone = 0
    MaxWire = 0
    MaxDag = 8
    MaxRestarts = 1
    MaxFaults = 0
    Claims = {"c1"}
    OwnKey = "ko"
    Payloads = {TRUE}
    MaxRound = 0
SPECIFICATION PopSpec
SYMMETRY Symmetry
CHECK_DEADLOCK FALSE
INVARIANTS
    VoteOncePerRound
    CertsRestOnPins
PROPERTIES
    ImplementsLedger
