SPECIFICATION FairSpec
CONSTANTS
    o = o
    a = a
    d = d
    h1 = h1
    Node = {o, a, d}
    Hash = {h1}
    Friends <- TriangleFriends
    Client <- OneClient
    Provider <- OneProvider
    MaxDigs = 2
    MaxStale = 1
INVARIANTS TypeOK LoopFree RouteStable DataFromOtherEnd EndsRegistered
PROPERTIES BrokenTunnelsDisappear ImplementsVirtualPeers
