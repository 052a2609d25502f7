SPECIFICATION FairSpec
CONSTANTS
    Logins = {l1, l2}
    Removals = {r1, r2}
    Legacy = Legacy
    InitialCredits = 75
    NoUser = NoUser
    NoOne = NoOne
    MaxFaults = 1
INVARIANTS
    GrantedOnce
    GrantIsCredited
    LoginsAgree
    OnlyDeletionFailsLogins
PROPERTIES
    ClosedByOwner
    AccountRequestsEnd
CHECK_DEADLOCK FALSE
