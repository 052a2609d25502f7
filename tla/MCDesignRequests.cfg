SPECIFICATION FairSpec
CONSTANTS
    u1 = u1
    Users = {u1}
    Designs = {d1}
    Replacements = {o1}
    Owner <- MCOwner
    Faults = {"crash", "timeout", "database"}
    FirstGrant = 50
    TopUpCredits = 50
    MaxGranted = 100
    MaxTries = 2
INVARIANTS
    CreditsAccountedFor
    FailuresRefundedOnce
    FinishedJobSettled
    UnsettledExplained
    FirstRunCostsItsModel
PROPERTIES
    RequestSpec
    SettledStays
    JobsEnd
    SubmissionsEnd
CHECK_DEADLOCK FALSE
