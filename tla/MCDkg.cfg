\* One renewal, at most one restart.  It ends: the nodes wait for the next block.
CONSTANTS
  n1 = n1
  n2 = n2
  f = f
  OldKey = OldKey
  Nobody = "nobody"
  IP = {1, 2, 5}
  Holder <- MCHolder
  Owner <- MCOwner
  Node <- MCNode
  Addrs <- MCAddrs
  Old <- MCOld
  New <- MCNew
  Signer = "a2"
  Fresh <- MCFresh
  THRESHOLD = 2
  MaxRestart = 1
SPECIFICATION Spec
INVARIANTS
  TypeOK
  OneGroupKey
  SecretsFitKey
  
PROPERTY Renewed
CHECK_DEADLOCK FALSE
