SPECIFICATION FairSpec
CONSTANTS
    short = short
    long = long
    None = None
    Pushers = {p1, p2}
    Poppers = {c1}
    Clearers = {}
    Elements <- MCElements
    Length <- MCLength
    Overhead = 1
    Capacity = 6

INVARIANTS
    NoLostWakeup
    NoStrandedPusher
    

PROPERTY
    SleepingPusherReleased
