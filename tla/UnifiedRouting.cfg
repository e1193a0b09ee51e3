SPECIFICATION Spec
CONSTANTS
    Seats <- MCSeats
    Threads = {T1, T2}
    NoThread = NoThread
    MaxItems = 4
    MaxCrashes = 1
    MaxMerges = 1
INVARIANTS
    TypeOK
    OneMemberPerPerson
    SavedWhenIdle
PROPERTIES
    ChoicesHold
    NobodyElseMovesMe
    RelayReachesOthers
SYMMETRY AnyName
CHECK_DEADLOCK FALSE
