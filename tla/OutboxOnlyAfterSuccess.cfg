SPECIFICATION Spec
CONSTANTS
    NMsgs = 3
    CronMsgs <- MCCronMsgs
    MaxAge = 1
    MaxFaults = 1
PROPERTIES
    UnlinkedOnlyAfterSuccess
CHECK_DEADLOCK FALSE
