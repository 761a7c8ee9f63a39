SPECIFICATION RepairSpec
CONSTANTS
    b = b
    j = j
    k = k
    Node = {b, j, k}
    BootNode = b
    Situation <- Calm
    BLOCK_CHUNK = 3
    Signer <- MCSigner
    MaxHeight = 4
    MaxTraffic = 1
PROPERTY BlocksArrive
CHECK_DEADLOCK FALSE
