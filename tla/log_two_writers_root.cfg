\* One finalization appends while the watcher does: what is signed.
SPECIFICATION Spec
CONSTANTS
    Watcher = Watcher
    Orders = {o1}
    NumCerts = 1
    BatchSize = 1
    MaxLevel = 2
    MaxIdleCps = 1
    MaxFaults = 0
    TileWidth = 2
INVARIANTS
    CheckpointRootIsMTH
CHECK_DEADLOCK FALSE
