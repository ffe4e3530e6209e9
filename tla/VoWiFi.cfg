SPECIFICATION Spec
CONSTANTS
    Commands = {c1, c2, c3}
    Kinds <- RunKinds
    None = None
SYMMETRY Symmetry
INVARIANTS
    SessionsAccounted
    InstanceIsUp
    StartingHasOwner
PROPERTIES
    QueuedDisableSticks
    ImplementsSessionSlot
CONSTRAINT RestartMeetsOneOther
CHECK_DEADLOCK FALSE
