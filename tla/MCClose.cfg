SPECIFICATION FairSpec
CONSTANTS
    Operators = {alice, bob}
    Hooks = {hook}
    Streams = {s1, s2}
    MaxQueued = 2
    Nobody = nobody
CHECK_DEADLOCK FALSE
INVARIANTS GaugeExact NoLostWakeup OneCloseAccepted ServedCloseIsSent
PROPERTY ServedCloseEnds
PROPERTY DrainedCloseEnds
