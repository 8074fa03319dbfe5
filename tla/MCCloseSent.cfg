SPECIFICATION Spec
CONSTANTS
    Operators = {alice, bob}
    Hooks = {hook}
    Streams = {s1, s2}
    MaxQueued = 2
    Nobody = nobody
CHECK_DEADLOCK FALSE
INVARIANTS AcceptedCloseIsSent
