SPECIFICATION Spec
CONSTANTS
    Calls = {c1, c2, c3}
    Idlers = {}
    Requests <- AllRequests
    MaxSessions = 2
    MaxQMITransports = 2
    WaitsMayAge = TRUE
SYMMETRY Symmetry
INVARIANTS
    CardExclusive
    QueueIsWaiters
PROPERTIES
    LeaseEndsByOwnerOrWatchdog
    ImplementsCardAccess
    AKABeforeFreshWrites
    ClassFIFO
    NothingPassesBarrier
CHECK_DEADLOCK FALSE
