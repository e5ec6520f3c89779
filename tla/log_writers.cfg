\* Two finalizations append while the watcher does; nothing fails.
SPECIFICATION Spec
CONSTANTS
    Watcher = Watcher
    Orders = {o1, o2}
    NumCerts = 1
    BatchSize = 1
    MaxLevel = 2
    MaxIdleCps = 1
    MaxFaults = 0
    TileWidth = 2
SYMMETRY OrderSymmetry
INVARIANTS
    LeavesMatchEntries
    CursorCovered
    IssuedOwnEntry
    LoggedOnce
CHECK_DEADLOCK FALSE
