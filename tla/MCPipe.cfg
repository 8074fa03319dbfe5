SPECIFICATION Spec
CONSTANTS
    Units = 3
    MaxChunk = 2
    SrcEnds = {"fin", "reset"}
    Partials = {TRUE, FALSE}
    Actions = {"Pass", "Drop", "Delay", "DelayDrop", "Hold", "Truncate", "Reset", "Close", "Unshown", "Reject", "FixupLost"}
    EndActions = {"Pass", "Reset", "Close"}
    Faults = {"cancel", "discard", "lost", "stop", "operator"}
    Delays = {1}
    MaxHold = 2
    MaxBytes = 1
    MaxUnits = 2
    Shaped = FALSE
    Overflow = "Block"
    Depth = 2
    OnExpiry = "Deliver"
    MaxClock = 1
CHECK_DEADLOCK FALSE
INVARIANTS TypeOK WireOrder QueueBounded AccountedFor StopAccounted TeardownCountsAll ResetIsMirrored FinIsComplete
