SPECIFICATION FairSpec
CONSTANTS
    k1 = k1
    Users = {u1}
    Calls = {c1, c2}
    Nobody = Nobody
    Keys <- MCKeys
    NoKey = NoKey
    Requests <- MCRequests
    NoEvent = NoEvent
    FreeCredits = 25
    MaxEvents = 4
INVARIANTS
    Reconciled
    KeysUnique
    AcknowledgedGrantsStay
PROPERTIES
    AccountSpec
    EveryCallEnds
