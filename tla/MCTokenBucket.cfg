SPECIFICATION Spec
CONSTANTS
    NANO = 5
    Unlimited <- MCUnlimited
    MaxWait = 4
    Rates <- MCRates
    Burst = 3
    UnitBytes <- MCUnitBytes
    MaxStale = 2
    MaxClock = 6
INVARIANTS RateBound LaterIsEarliest
PROPERTY BucketClockForward
