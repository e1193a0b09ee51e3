SPECIFICATION ClaimSpec
CONSTANTS
    Accounts <- MCAccounts
    Codes = {"c1", "c2"}
    MaxAttempts = 2
    Lifetime = 1
    MaxClaims = 2
    MaxConfirms = 3
    MaxCrashes = 1
INVARIANTS
    ClaimTypeOK
    AttemptsAreMisses
    ClosedStaysClosed
PROPERTIES
    ConfirmMergesTheTwo
    RightCodeConfirms
CHECK_DEADLOCK FALSE
