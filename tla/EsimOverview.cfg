SPECIFICATION Spec
CONSTANTS
    Profiles = {p1, p2}
    NoProfile = NoProfile
    Getters = {g1}
    Refreshers = {r1}
    Listings = {l1}
    Reload = Reload
    Writers = {w1}
    Kinds = {"switch", "delete", "download"}
    None = None
    MaxGeneration = 1
SYMMETRY Symmetry
INVARIANTS
    CacheNotOlderThanInvalidation
    LoadNotOlderThanInvalidation
    ReloadFlagHasGoroutine
CHECK_DEADLOCK FALSE
