SPECIFICATION Spec
CONSTANTS
    o = o
    r = r
    d = d
    m1 = m1
    Node = {o, r, d}
    Msg = {m1}
    Origin <- OneOrigin
    Dest <- OneDest
    Friends <- LineFriends
    OtherClues <- WrongWayClue
    AckWait = 0
    FriendTry = 9
    CacheKeep = 0
    ResendDelay = 1
    DestKeep = 2
    MaxBranching = 2
    MaxTime = 2
    MaxDowns = 1
    MaxCrashes = 0
INVARIANTS TypeOK NoSilentLoss ReceiptHasRoute OneVerdict
PROPERTY NoReroute
