SPECIFICATION FairSpec
CONSTANTS
    NMsgs = 4
    Chats = {"a", "b"}
    ChatOf <- MCChatOf
    Own <- MCOwn
    HistoryLimit = 2
    MaxDrops = 1
    MaxFaults = 1
INVARIANTS
    GapsHaveAReason
PROPERTIES
    FrontierCatchesUp
CHECK_DEADLOCK FALSE
