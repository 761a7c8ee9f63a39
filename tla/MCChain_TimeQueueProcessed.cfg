CONSTANTS
  a1 = a1
  a2 = a2
  Addr = {a1, a2}
  Blank = Blank
  IP <- MCIP
  Prefix <- MCPrefix
  MapServer = {}
  Rloc = {}
  PrioWeight = {}
  NoLocator = NoLocator
  MapServerMeta = {}
  LocatorMeta = {}
  MAXINT = 3
  Genesis <- MCGenesis
  Tx <- MCTx
  BlockTxs <- MCBlockTxs
  Mine = {a1}
  BLOCK_TIME = 1
  TIMEOUT = 3
  Torn = Torn
  MaxTime = 3
  MaxHeight = 3
  MaxPool = 2
  MaxQueue = 1
  MaxCrash = 1
SPECIFICATION Spec
PROPERTY
  TimeQueueProcessed
