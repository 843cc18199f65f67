\* Callbacks throw and clear, promise jobs set timers, scripts call pol.init
\* and take pol.timer for themselves.
SPECIFICATION FairSpec
CONSTANTS
    MS = 2
    Hour = 4
    Delays <- MCDelays
    MaxId = 2
    Horizon = 2
    Takers = {"throw", "init", "timer"}
    PolMerges = TRUE
INVARIANTS TypeOK WheelArmed FireOnce ClearSticks
PROPERTIES LoopDrained DueFires NeverEarly
CHECK_DEADLOCK FALSE
