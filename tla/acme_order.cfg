\* Two identifiers, two finalize requests; a store call fails or the process dies.
SPECIFICATION FairSpec
CONSTANTS
    Order = Order
    Authzs = {a1, a2}
    NumPosts = 1
    NumFinalizes = 2
    MaxFaults = 1
INVARIANTS
    OrderInv
    AuthorizedFirst
    AcceptedOnce
PROPERTIES
    BecomesReady
    Settles
    Downloadable
CHECK_DEADLOCK FALSE
