CONSTANTS
    short = short
    long = long
    None = None
    Idle = Idle
    Garbled = Garbled
    Values = {short, long}
    Size <- MCSize
    Versions = {v1, v2, v3}
    MaxChunks = 2
    MaxUploads = 2
    MaxPolls = 2
    Alerts = {a1}
    MaxScans = 1
    MaxRequests = 2
    MaxFaults = 1
    MaxLooks = 2
    t1 = t1
    t2 = t2
    MaxClicks = 3
SPECIFICATION ClientsSpec
INVARIANTS
    Inv
    ShownVerdictIsTrue
    DismissedIsResolved
    ToldIsTrue
PROPERTIES
    ActsAsRegister
    VerdictShown
    PagesConverge
    LostSessionEnds
    NavigationEnds
\* The camera, the vendor, the admin and the link may stop for ever.
CHECK_DEADLOCK FALSE
