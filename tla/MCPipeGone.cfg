SPECIFICATION Spec
CONSTANTS
    Units = 3
    MaxChunk = 2
    SrcEnds = {"fin", "reset"}
    Partials = {FALSE}
    Actions = {"Pass", "Hold", "Close", "Unshown"}
    EndActions = {"Pass", "Reset", "Close"}
    Faults = {"cancel", "lost"}
    Delays = {1}
    MaxHold = 2
    MaxBytes = 2
    MaxUnits = 2
    Shaped = FALSE
    Overflow = "Block"
    Depth = 2
    OnExpiry = "Deliver"
    MaxClock = 1
CHECK_DEADLOCK FALSE
INVARIANTS NeverSilentlyGone
