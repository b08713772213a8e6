SPECIFICATION FairSpec
CONSTANTS
    hash = hash
    Msg = {m1, m2}
    Hash = {hash}
    HashOf <- OneHash
    Vpid = {v1, v2}
    TunnelWait = 1
    Unmanaged = 2
    OkWait = 1
    IdleTime = 2
INVARIANTS TypeOK KnownTunnelsExist ReadyHasTunnel
PROPERTY WaitingServed
