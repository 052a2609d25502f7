SPECIFICATION Spec
CONSTANTS
    None = None
    Pictures <- MCPictures
    Sides <- MCSides
    Taps <- MCTaps
INVARIANTS
    MaskFits
    MaskAroundTap
    FailureExplained
CHECK_DEADLOCK FALSE
