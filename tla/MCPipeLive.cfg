SPECIFICATION PromptSpec
CONSTANTS
    Units = 2
    MaxChunk = 2
    SrcEnds = {"fin", "reset"}
    Partials = {FALSE}
    Actions = {"Pass", "Drop", "Hold", "Truncate"}
    EndActions = {"Pass", "Reset"}
    Faults = {"cancel"}
    Delays = {1}
    MaxHold = 2
    MaxBytes = 1
    MaxUnits = 2
    Shaped = TRUE
    Overflow = "ResetStream"
    Depth = 1
    OnExpiry = "Deliver"
    MaxClock = 1
CHECK_DEADLOCK FALSE
PROPERTY ResetEnds
PROPERTY CancelEnds
PROPERTY FinEnds
