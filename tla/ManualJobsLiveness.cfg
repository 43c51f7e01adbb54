SPECIFICATION JobsSpec
CONSTANTS
  a1 = a1
  a2 = a2
  r1 = r1
  r2 = r2
  j1 = j1
  v1 = v1
  Ack <- MCAck
  RunNode <- MCRunNode
  Timed <- MCTimed
  Value <- MCValue
  Job <- MCJob
  Concurrency <- MCUneven
  Awaited = {"waiting"}
  FlowError = {"failed", "waiting"}
  MaxCalls = 1
  NoNode = NoNode
  NoJob = NoJob
  NoAck = NoAck
PROPERTIES
  TimedActivationsEnd
  CloseDrains
CHECK_DEADLOCK FALSE
