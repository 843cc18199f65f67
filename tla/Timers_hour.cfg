\* A delay of an hour or more (8 quanta are 4 ms here).
SPECIFICATION Spec
CONSTANTS
    MS = 2
    Hour = 4
    Delays <- MCDelaysHour
    MaxId = 2
    Horizon = 3
    Takers = {}
    PolMerges = TRUE
PROPERTY LoopDrained
CHECK_DEADLOCK FALSE
