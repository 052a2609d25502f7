SPECIFICATION Spec
CONSTANTS
    u1 = u1
    Users = {u1}
    Designs = {d1}
    Replacements = {}
    Owner <- MCOwner
    Faults = {"crash"}
    FirstGrant = 50
    TopUpCredits = 50
    MaxGranted = 100
    MaxTries = 2
INVARIANTS
    ImageCostsItsModel
CHECK_DEADLOCK FALSE
