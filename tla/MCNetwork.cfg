SPECIFICATION FairSpec
CONSTANTS
    b = b
    j = j
    k = k
    Node = {b, j, k}
    BootNode = b
    Situation <- MCSituation
    BLOCK_CHUNK = 4
    Signer <- MCSigner
    MaxHeight = 4
    MaxTraffic = 1
INVARIANTS TypeOK NoGap PeersMutual
PROPERTY BootstrapEnds
CHECK_DEADLOCK FALSE
