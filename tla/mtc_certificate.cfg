\* A finalization in either mode beside the watcher; a call fails or the process dies. Two
\* signatures overflow the length prefix.
SPECIFICATION CertSpec
CONSTANTS
    Watcher = Watcher
    Orders = {o1}
    NumCerts = 1
    BatchSize = 1
    MaxLevel = 2
    MaxIdleCps = 0
    MaxFaults = 1
    HashSize = 2
    LenBound = 8
    LogID = "log"
    NinetyDays = 3
    Subjects = {{"CN", "O"}}
    Validities = {3}
    Cosigners = {"c1", "c2"}
    MaxClock = 1
INVARIANTS
    EmbeddedCanonical
    EmbeddedVerifies
    MTCReconstructs
    LandmarkAgrees
    BatchProofSigned
CHECK_DEADLOCK FALSE
