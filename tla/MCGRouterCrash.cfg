SPECIFICATION Spec
CONSTANTS
    o = o
    r = r
    d = d
    m1 = m1
    Node = {o, d}
    Msg = {m1}
    Origin <- OneOrigin
    Dest <- OneDest
    Friends <- PairFriends
    OtherClues <- NoClues
    AckWait = 0
    FriendTry = 9
    CacheKeep = 1
    ResendDelay = 2
    DestKeep = 3
    MaxBranching = 2
    MaxTime = 3
    MaxDowns = 0
    MaxCrashes = 1
INVARIANTS Provenance ReceiptSound DeliveredOnce
PROPERTY ImplementsService
