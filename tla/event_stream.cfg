\* Two emitters; two events per read of the stream and two per page.
SPECIFICATION FairSpec
CONSTANTS
    Emitters = {e1, e2}
    MaxEvents = 4
    Limit = 2
    PageSize = 2
    KeepRecent = 1
    MaxFaults = 1
INVARIANTS
    StreamComplete
    PagesComplete
PROPERTIES
    EventuallyShown
CHECK_DEADLOCK FALSE
