SPECIFICATION Spec
CONSTANTS
    s1 = s1
    s2 = s2
    audio = audio
    video = video
    link = link
    Streams = {s1, s2}
    Classes = {audio, video}
    Other = other
    NoClass = none
    BucketIds = {link}
    BucketOf <- MCBucketOf
    Priority <- MCPriority
    Weight <- MCWeight
    Discipline = "WeightedRoundRobin"
    Rate <- MCRate
    Burst <- MCBurst
    OnExpiry = "ResetStream"
    UnitBytes = {1}
    NANO = 1
    Unlimited <- MCUnlimited
    MaxWait = 3
    Delays = {0, 1}
    Ages = {1}
    MaxHold = 2
    FairStreams = {}
    MaxClock = 3
SYMMETRY Symmetric
INVARIANTS ShareBound NeverOversleeps
PROPERTY RefusalWaits
