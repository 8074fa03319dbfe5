SPECIFICATION Spec
CONSTANTS
    Units = 3
    MaxChunk = 2
    SrcEnds = {"fin", "reset"}
    Partials = {TRUE, FALSE}
    Actions = {"Pass", "Drop", "Delay", "Hold", "Truncate", "Unshown"}
    EndActions = {"Pass", "Reset"}
    Faults = {"cancel"}
    Delays = {1}
    MaxHold = 2
    MaxBytes = 2
    MaxUnits = 2
    Shaped = TRUE
    Overflow = "DropTail"
    Depth = 2
    OnExpiry = "ResetStream"
    MaxClock = 2
CHECK_DEADLOCK FALSE
INVARIANTS WireOrder HeadArmed LedgerMatches FinIsComplete
PROPERTY RefusalIsAWait
