SPECIFICATION Spec
CONSTANTS
    u1 = u1
    weekly = weekly
    bought = bought
    renewed = renewed
    ended = ended
    Users = {u1}
    Products = {weekly}
    Price <- MCPrice
    Events = {bought, renewed, ended}
    Owner <- MCOwner
    Kind <- MCKind
    Product <- MCProduct
    Hooks = {h1, h2}
    Restorers = {r1}
    NoTask = NoTask
    MaxFaults = 1
SYMMETRY MCSymmetry
INVARIANTS
    GrantsMatchRecords
    AcknowledgedIsRecorded
    AtMostOneActive
PROPERTIES
    PurchaseSpec
CHECK_DEADLOCK FALSE
