\* The verifier's check of an honest staple; the watcher is the only writer.
SPECIFICATION Spec
CONSTANTS
    NumCerts = 2
    BatchSize = 1
    ByteWidth = 2
    MaxFaults = 0
    Subject = 2
    Orders = {}
    MaxBeside = 0
INVARIANTS
    HonestStapleVerifies
