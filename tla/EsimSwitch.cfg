SPECIFICATION Spec
CONSTANTS
    Callers = {s1, s2}
    Profiles = {p1, p2}
    None = None
    Configs <- Devices
    Operations = {"enable", "disable"}
    RadioFails = FALSE
    Attempts = 2
    ReloadAfter = 1
    StallThreshold = 1
SYMMETRY Symmetry
INVARIANTS
    FlagHasOwner
    GateReadyIsFresh
    WaiterHasProber
PROPERTIES
    OnlyOwnerClears
    TransitionEndsAtTarget
CONSTRAINTS
    TwoAtATime
    DisableOnAT
CHECK_DEADLOCK FALSE
