\* Two certificates of one created_date, the second of them the TLS server's, and a
\* finalization beside the watcher.
SPECIFICATION FairSpec
CONSTANTS
    NumCerts = 2
    BatchSize = 1
    ByteWidth = 2
    MaxFaults = 1
    Subject = 2
    Orders = {o1}
    MaxBeside = 1
INVARIANTS
    RevokedByCA
    BitmapExact
    StapleOwn
PROPERTIES
    EventuallyLogged
    RevocationRecorded
    StapleProgress
    RevocationReaches
