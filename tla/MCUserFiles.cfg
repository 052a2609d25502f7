SPECIFICATION FairSpec
CONSTANTS
    photo = photo
    tap = tap
    example = example
    d1 = d1
    d2 = d2
    r1 = r1
    Keys = {photo, tap, example}
    Shared = {example}
    Presigned = {tap}
    Uploads = {photo, tap}
    KeyOf <- MCKeyOf
    Jobs = {d1, d2, r1}
    Replacements = {r1}
    Input <- MCInput
    Models = 1
    Higgsfield = TRUE
    Faults = {"api", "crash", "timeout", "storage"}
    MaxTries = 2
    MaxFaults = 2
INVARIANTS
    LeftoversAccounted
    LossExplained
PROPERTIES
    DeletedAccountErased
CHECK_DEADLOCK FALSE
