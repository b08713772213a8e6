SPECIFICATION Spec
CONSTANTS
    hash = hash
    Msg = {m1}
    Hash = {hash}
    HashOf <- OneHash
    Vpid = {v1}
    TunnelWait = 1
    Unmanaged = 2
    OkWait = 1
    IdleTime = 2
INVARIANT RequestsRemoved
