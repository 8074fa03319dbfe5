SPECIFICATION FairSpec
CONSTANTS
    Regs = {d1, d2}
    Horizon = 3
    SLICE = 1
    SWEEP_MIN_LEN = 1
    SWEEP_INTERVAL = 1
    Parkers = {"SleepSlice", "Condvar"}
CHECK_DEADLOCK FALSE
INVARIANTS NeverParkedPast ReleasedInOrder
PROPERTIES EveryDeadlineFires DropReturns
