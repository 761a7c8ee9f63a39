CONSTANTS
  n1 = n1
  n2 = n2
  n3 = n3
  p1 = p1
  p2 = p2
  Node = {n1, n2, n3}
  Member = {p1, p2}
  Keys <- MCKeys
  Master = {}
  Fresh = {n3}
  Elected <- MCElected
  THRESHOLD = 2
  BLOCK_TIME = 2
  NEAR = 1
  Timely = TRUE
  MaxHeight = 2
SPECIFICATION Spec
INVARIANTS
  TypeOK
  SignersAgree
  OneChain
  NewRandomPerBlock
  SharesOfOneRound
PROPERTY
  Progress
CHECK_DEADLOCK FALSE
