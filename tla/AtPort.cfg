SPECIFICATION Spec
CONSTANTS
    Callers = {n1, c1}
    Poller = n1
    Pool = {q1}
    None = None
    QueueLength = 1
    RxLength = 1
    Threshold = 1
    MaxPending = 2
INVARIANTS
    AnswerFromOwnRequest
    AnswersInStep
    WaitingHasRequest
PROPERTIES
    EveryCallReturns
    DisconnectNoticed
CHECK_DEADLOCK FALSE
