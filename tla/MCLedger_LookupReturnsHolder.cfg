CONSTANTS
  a1 = a1
  a2 = a2
  a3 = a3
  ms = ms
  r1 = r1
  r2 = r2
  Addr = {a1, a2, a3}
  Blank = Blank
  IP <- MCIP
  Prefix <- MCPrefix
  MapServer = {ms}
  Rloc = {r1, r2}
  PrioWeight <- MCPrioWeight
  NoLocator = NoLocator
  Genesis <- MCGenesis
  MaxNonce = 2
  MapServerMeta <- MCMapServerMeta
  LocatorMeta <- MCLocatorMeta
  MAXINT = 2
SYMMETRY MCSymmetry
SPECIFICATION Spec
INVARIANT LookupReturnsHolder
CHECK_DEADLOCK FALSE
