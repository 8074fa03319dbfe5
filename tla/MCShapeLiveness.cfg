SPECIFICATION FairSpec
CONSTANTS
    s1 = s1
    s2 = s2
    audio = audio
    video = video
    link = link
    Streams = {s1, s2}
    Classes = {audio, video}
    Other = other
    NoClass = none
    BucketIds = {link}
    BucketOf <- MCBucketOf
    Priority <- MCPriority
    Weight <- MCWeight
    Discipline = "StrictPriority"
    Rate <- MCRate
    Burst <- MCBurst
    OnExpiry = "Deliver"
    UnitBytes = {1}
    NANO = 1
    Unlimited <- MCUnlimited
    MaxWait = 3
    Delays = {0, 1}
    Ages = {0}
    MaxHold = 2
    FairStreams = {s1}
    MaxClock = 3
INVARIANTS DemandExact NoMissedWake
PROPERTY EveryHeadLeaves
