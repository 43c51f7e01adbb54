SPECIFICATION ShutSpec
CONSTANTS
  w = w
  q = q
  Pair <- MCPair
  Companion <- MCCompanion
  WorkerPair <- MCWorkerPair
  CLOSE_GRACE = 1
  GRACEFUL_CLOSE = 10
  POSTGRES_CLOSE = 11
  NODE_CLOSE_TIMEOUT = 15
  MaxCloses = 1
INVARIANTS
  EveryStepIsTried
CHECK_DEADLOCK FALSE
