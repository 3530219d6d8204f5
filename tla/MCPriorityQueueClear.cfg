SPECIFICATION Spec
CONSTANTS
    a = a
    b = b
    Depth = 3
    ElementSize = 1
    Priorities = {1, 2}
    Inputs <- MCInputs
    Rooms = {0, 1}
    OrderSize = 3
    ClearsQueued = TRUE
    Nothing = Nothing

INVARIANT
    SlotsAreUnique

