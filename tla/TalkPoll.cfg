SPECIFICATION FairSpec
CONSTANTS
    NMsgs = 5
    Rooms = {"r1", "r2"}
    RoomOf <- MCRoomOf
    Unwanted = {4}
    Limit = 3
    Orders = {"newest", "oldest"}
    MaxKills = 2
    MaxFaults = 1
INVARIANTS
    GapsHaveAReason
    FrontierIsKept
PROPERTIES
    EveryMessageSettles
CHECK_DEADLOCK FALSE
