SPECIFICATION FairSpec
CONSTANTS
    Names = {"minutes"}
    Window30 = 1
    Window60 = 2
    Threshold30 = 1
    Threshold60 = 2
    Interval = 2
    Cooldown = 1
    MaxMessages = 3
    MaxCommands = 2
    MaxFaults = 1
INVARIANTS
    TypeOK
    NothingUnaccounted
    MentionPassesTheGate
    ToldAsMeant
PROPERTIES
    SilentDigestIsFlushed
CHECK_DEADLOCK FALSE
