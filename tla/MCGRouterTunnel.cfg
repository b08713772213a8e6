SPECIFICATION FairSpec
CONSTANTS
    o = o
    r = r
    d = d
    m1 = m1
    Node = {o, d}
    Msg = {m1}
    Origin <- OneOrigin
    Dest <- OneDest
    Friends <- PairFriends
    OtherClues <- NoClues
    AckWait = 0
    FriendTry = 0
    CacheKeep = 1
    ResendDelay = 2
    DestKeep = 3
    MaxBranching = 2
    MaxTime = 5
    MaxDowns = 0
    MaxCrashes = 0
INVARIANT DeliveredOnce
PROPERTY EveryMessageSettled
