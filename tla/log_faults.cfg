\* A finalization appends while the watcher does; a call fails or the process dies.
SPECIFICATION FairSpec
CONSTANTS
    Watcher = Watcher
    Orders = {o1}
    NumCerts = 1
    BatchSize = 1
    MaxLevel = 2
    MaxIdleCps = 1
    MaxFaults = 1
    TileWidth = 2
INVARIANTS
    IInv
PROPERTIES
    AppendOnly
    LeafTilesImmutable
    FinalizeEnds
    CertsRecovered
CHECK_DEADLOCK FALSE
