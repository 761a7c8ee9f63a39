\* What perform_bootstrap leaves a joining node with.
CONSTANTS
  n1 = n1
  n2 = n2
  f = f
  OldKey = OldKey
  Nobody = "nobody"
  IP = {3}
  Holder <- MCHolder
  Owner <- MCOwner
  Node <- MCNode
  Addrs <- MCAddrs
  Old <- MCOld
  New <- MCNew
  Signer = "a2"
  Fresh <- MCFresh
  THRESHOLD = 2
  MaxRestart = 0
SPECIFICATION Spec
INVARIANT
  JoinerKnowsGroup
CHECK_DEADLOCK FALSE
