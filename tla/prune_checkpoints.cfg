\* One run at a time, nothing fails, and the log stops growing: what is deleted.
SPECIFICATION HousekeepingSpec
CONSTANTS
    MaxRuns = 1
    Orders = {}
    MaxSize = 3
    BatchSize = 1
    KeepRecent = 1
    MaxIdle = 1
    MaxRetries = 2
    MaxFaults = 0
PROPERTIES
    EventuallyPruned
