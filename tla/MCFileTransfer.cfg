SPECIFICATION FairSpec
CONSTANTS
    p1 = p1
    p2 = p2
    Peer = {p1, p2}
    FileSize = 3
    ChunkLen = 2
    Avail <- BothAvail
    MaxSlice = 2
    MaxPerPeer = 1
    CounterMod = 8
    MaxFlight = 2
    MaxFaults = 2
INVARIANTS TypeOK ChunkAccounted SlicePending CheckedIsWritten CacheExact CounterExact CompleteIsRight
PROPERTIES ImplementsDownload Completes
