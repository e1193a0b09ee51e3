SPECIFICATION FairSpec
CONSTANTS
    Bridges = {"imsg", "test"}
    Runners = {"imsg"}
    Watchers = {"imsg"}
    NMsgs = 2
    BridgeOf <- MCBridgeOf
    FileOf <- MCFileOf
    MaxRuns = 2
    MaxFaults = 1
INVARIANTS
    AttachmentsHaveAReason
    TornHasAReason
PROPERTIES
    SweepMissesFew
    ManifestsAreFollowed
    StatusComesBack
CHECK_DEADLOCK FALSE
