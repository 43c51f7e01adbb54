SPECIFICATION JobsSafety
CONSTANTS
  a1 = a1
  a2 = a2
  r1 = r1
  r2 = r2
  j1 = j1
  v1 = v1
  Ack <- MCAck
  RunNode <- MCRunNode
  Timed <- MCTimed
  Value <- MCValue
  Job <- MCJob
  Concurrency <- MCConcurrency
  Awaited = {"rateLimit", "waiting"}
  FlowError = {"failed", "unrecoverable", "rateLimit", "waiting", "delayed"}
  MaxCalls = 1
  NoNode = NoNode
  NoJob = NoJob
  NoAck = NoAck
INVARIANTS
  JobsTypeOK
  TransitionIsEarned
  NoOrphanedJob
  OnlyTheHolderMoves
PROPERTIES
  RegistrySpec
SYMMETRY Symmetry
CHECK_DEADLOCK FALSE
