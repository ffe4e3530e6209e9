SPECIFICATION Spec
CONSTANTS
    Threads = {t1, t2}
    None = None
    Backend = "qmi"
    Operations <- AllOperations
    MaxWorkers = 2
    MaxRounds = 1
    MaxRebuilds = 1
INVARIANTS
    SlotHasOwner
    NoLeak
    ActiveHasRecovery
PROPERTIES
    SlotFreed
CHECK_DEADLOCK FALSE
