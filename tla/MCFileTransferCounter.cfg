SPECIFICATION Spec
CONSTANTS
    p1 = p1
    p2 = p2
    Peer = {p1, p2}
    FileSize = 4
    ChunkLen = 3
    Avail <- BothAvail
    MaxSlice = 3
    MaxPerPeer = 1
    CounterMod = 8
    MaxFlight = 3
    MaxFaults = 2
INVARIANT PeerFreed
