SPECIFICATION FairSpec
CONSTANTS
    Files <- MCFiles
    Bridges = {"talk", "imsg"}
    BridgeOrder <- MCBridgeOrder
    BridgeOf <- MCBridgeOf
    IdOf <- MCIdOf
    NoId = NoId
    RawFiles = {"i1"}
    MayHold <- MCMayHold
    ParseFailureLimit = 2
    DedupCap = 1
    MaxWrites <- MCMaxWrites
    MaxStops = 1
    MaxFaults = 1
    MaxExpiries = 1
INVARIANTS
    AtMostOnce
PROPERTIES
    AccountedRemoval
    InOrder
    EveryMessageSettles
