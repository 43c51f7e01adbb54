SPECIFICATION ConfigSpec
CONSTANTS
  redisWorker = redisWorker
  redisQueue = redisQueue
  pgWorker = pgWorker
  pgEvents = pgEvents
  pgQueue = pgQueue
  Pair <- MCPair
  Companion <- MCCompanion
  WorkerPair <- MCWorkerPair
  Queues <- MCQueues
  Events <- MCEvents
  NoQueue = NoQueue
  CLOSE_GRACE = 1
  GRACEFUL_CLOSE = 2
  POSTGRES_CLOSE = 3
  NODE_CLOSE_TIMEOUT = 4
  MaxCloses = 2
  MaxAsked = 2
INVARIANTS
  ConfigTypeOK
  ClosedOnce
  NothingUntracked
  DoneMeansClosed
  OneTelemetryClient
PROPERTIES
  ConfigAnswers
CHECK_DEADLOCK FALSE
