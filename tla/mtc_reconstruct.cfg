\* One order in either mode: what a verifier rebuilds of an MTC certificate.
SPECIFICATION CertSpec
CONSTANTS
    Watcher = Watcher
    Orders = {o1}
    NumCerts = 0
    BatchSize = 1
    MaxLevel = 2
    MaxIdleCps = 0
    MaxFaults = 0
    HashSize = 2
    LenBound = 8
    LogID = "log"
    NinetyDays = 3
    Subjects = {{"CN", "O"}}
    Validities = {3}
    Cosigners = {"c1"}
    MaxClock = 1
INVARIANTS
    MTCCertInLog
CHECK_DEADLOCK FALSE
