SPECIFICATION FairSpec
CONSTANTS
    Writers = {w1, w2}
    Listers = {l1}
    Readers = {r1}
    Observers = {o1}
    None = None
INVARIANTS
    OneOperationAtATime
PROPERTIES
    EveryOperationReturns
CHECK_DEADLOCK FALSE
