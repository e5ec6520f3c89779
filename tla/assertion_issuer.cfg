\* Overlapping runs, an order with a checkpoint of its own; a call fails or the process dies.
SPECIFICATION FairSpec
CONSTANTS
    MaxRuns = 2
    Orders = {o1}
    MaxSize = 3
    BatchSize = 1
    KeepRecent = 2
    MaxIdle = 0
    MaxRetries = 2
    MaxFaults = 1
INVARIANTS
    IssuerInv
    BundleProvable
PROPERTIES
    EventuallyFresh
