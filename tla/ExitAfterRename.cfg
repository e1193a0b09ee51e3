SPECIFICATION Spec
CONSTANTS
    Seats <- MCSeats
    Threads = {T1, T2}
    NoThread = NoThread
    MaxItems = 4
    MaxCrashes = 0
    MaxMerges = 1
PROPERTIES
    ExitStopsRouting
SYMMETRY AnyName
CHECK_DEADLOCK FALSE
