SPECIFICATION Spec
CONSTANTS
    u1 = u1
    weekly = weekly
    bought = bought
    renewed = renewed
    ended = ended
    Users = {u1}
    Products = {weekly}
    Price <- MCPrice
    Events = {bought}
    Owner <- MCOwner
    Kind <- MCKind
    Product <- MCProduct
    Hooks = {h1}
    Restorers = {r1}
    NoTask = NoTask
    MaxFaults = 0
INVARIANTS
    ActiveIsReported
CHECK_DEADLOCK FALSE
