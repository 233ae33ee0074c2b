SPECIFICATION ServingSpec
CONSTANTS
    Tabs = {t1, t2}
    Nobody = nobody
    Keys <- Buckets
    UiTimeout = 1
    MaxSent = 3
    MaxDirect = 1
    MaxRequests = 1
    Window = 2
    MaxSkew = 1
    MaxClock = 5
SYMMETRY Symmetry
INVARIANTS
    WindowBound
    ChargedForWhatRan
    VisitorsIndependent
    LateAnswersDropped
PROPERTIES
    IdleEntriesReclaimed
    ImplementsSlidingWindow
CHECK_DEADLOCK FALSE
