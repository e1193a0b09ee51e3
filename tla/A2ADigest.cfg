SPECIFICATION FairSpec
CONSTANTS
    NMsgs = 5
    Peers = {"p", "q"}
    PeerOf <- MCPeerOf
    SerieGap = 1
    Window = 2
    BurstCap = 3
    Cooldown = 1
    MaxCrashes = 1
    MaxRaises = 1
INVARIANTS
    NothingUnaccounted
    FirstHandOffsInOrder
PROPERTIES
    EveryMessageArrives
CHECK_DEADLOCK FALSE
