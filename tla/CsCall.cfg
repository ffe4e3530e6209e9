SPECIFICATION Spec
CONSTANTS
    Workflows = {w1, w2}
    Clients = {b1}
    Monitor = Monitor
    Stopper = Stopper
    ByID = TRUE
    MaxDialogs = 2
    MaxCalls = 2
    MaxModemCalls = 1
    QueueLength = 1
SYMMETRY Symmetry
INVARIANTS
    RunningAudioHasOwner
    SetupHasWorkflow
    AnsweredGetsBye
    StopDoesNotHang
PROPERTIES
    ImplementsClientCall
CHECK_DEADLOCK FALSE
