SPECIFICATION FairSpec
CONSTANTS
    Calls = {c1, c2, c3}
    Idlers = {}
    Requests <- StarvationRequests
    MaxSessions = 1
    MaxQMITransports = 1
    WaitsMayAge = TRUE
PROPERTIES
    PriorityAgingPreventsEUICCStarvation
CHECK_DEADLOCK FALSE
