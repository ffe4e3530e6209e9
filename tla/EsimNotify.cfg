SPECIFICATION FairSpec
CONSTANTS
    Writers = {w1, w2}
    Listers = {}
    Readers = {}
    Observers = {}
    None = None
INVARIANTS
    ChannelClosedOnce
CHECK_DEADLOCK FALSE
