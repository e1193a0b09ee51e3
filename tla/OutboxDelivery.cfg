SPECIFICATION FairSpec
CONSTANTS
    NMsgs = 3
    CronMsgs <- MCCronMsgs
    MaxAge = 1
    MaxFaults = 1
INVARIANTS
    RepeatsArePaidFor
PROPERTIES
    OldestFirst
    ImplementsChannel
    EveryTextSettles
CHECK_DEADLOCK FALSE
