SPECIFICATION OutboundSpec
CONSTANTS
    Bridges = {"imsg", "talk"}
    Unified = "unified"
    NoBridge = "none"
    Default = "default"
    ChatIds = {"c", "family"}
    Thread = "family"
    Members <- TwoMembers
    Misfits <- OneMisfit
    NMsgs = 4
    NoId = {2}
    Cap = 2
    Lifetime = 1
    MaxFaults = 1
    MaxRestarts = 1
INVARIANTS
    QuoteHasAReason
    OutboxOfTheTarget
    MulticastReachesEach
