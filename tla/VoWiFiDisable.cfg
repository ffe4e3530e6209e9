SPECIFICATION Spec
CONSTANTS
    Commands = {c1, c2}
    Kinds <- DisableKinds
    None = None
SYMMETRY Symmetry
PROPERTIES
    DisableSticks
CHECK_DEADLOCK FALSE
