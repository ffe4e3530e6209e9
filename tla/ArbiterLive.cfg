SPECIFICATION FairSpec
CONSTANTS
    Calls = {c1, c2, c3}
    Idlers = {w1}
    Requests <- LiveRequests
    MaxSessions = 1
    MaxQMITransports = 2
    WaitsMayAge = FALSE
INVARIANTS
    NobodySleepsAdmissible
PROPERTIES
    EveryRequestServed
    WaitIdleReturns
CHECK_DEADLOCK FALSE
