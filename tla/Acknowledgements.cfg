SPECIFICATION Spec
CONSTANTS
  a1 = a1
  a2 = a2
  r1 = r1
  r2 = r2
  v1 = v1
  v2 = v2
  Ack <- MCAck
  RunNode <- MCRunNode
  Timed <- MCTimed
  Value <- MCValue
  NoNode = NoNode
INVARIANTS
  TypeOK
  RegistryIsExact
  HandlesFollowSettlement
  NoLostWakeup
PROPERTIES
  CloseIsPerNode
  ImplementsPromises
CHECK_DEADLOCK FALSE
