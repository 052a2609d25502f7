SPECIFICATION Spec
CONSTANTS
    u1 = u1
    Users = {u1}
    Designs = {d1}
    Replacements = {}
    Owner <- MCOwner
    Faults = {"timeout"}
    FirstGrant = 50
    TopUpCredits = 50
    MaxGranted = 100
    MaxTries = 1
INVARIANTS
    StartedDesignSettled
CHECK_DEADLOCK FALSE
