\* The watcher is the only writer, as without a local CA, or finalizations take
\* turns with it; nothing fails.
SPECIFICATION SerialSpec
CONSTANTS
    Watcher = Watcher
    Orders = {o1}
    NumCerts = 6
    BatchSize = 3
    MaxLevel = 3
    MaxIdleCps = 1
    MaxFaults = 0
    TileWidth = 2
INVARIANTS
    CheckpointRootIsMTH
    InclusionProofsVerify
    ConsistencyProofsVerify
    IssuedProofVerifies
    SuitePasses
    DashboardShowsTree
PROPERTIES
    CertsCheckpointed
