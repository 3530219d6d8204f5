SPECIFICATION Spec
CONSTANTS
    short = short
    long = long
    None = None
    Pushers = {p1}
    Poppers = {c1}
    Clearers = {k1}
    Elements <- MCElements
    Length <- MCLength
    Overhead = 1
    Capacity = 6

INVARIANT
    NoLostWakeup
