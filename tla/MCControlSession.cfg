SPECIFICATION Spec
CONSTANTS
    Tracks = {t1, t2}
    Aliases = {a1, a2}
    Namespaces <- MCNamespaces
    Ids <- MCIds
    None = none
    Workloads <- MCWorkloads
    MaxInFlight = 2
CHECK_DEADLOCK FALSE
SYMMETRY Symmetric
INVARIANTS TypeOK ClosesExplained SettledAgreement AliasNamesOneTrack
PROPERTY ImplementsRequestLife
