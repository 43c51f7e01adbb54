CONSTANTS
  order = order  tick = tick  tock = tock  clock = clock  idler = idler
  Job = {order, tick, tock}
  Scheduler = {clock, idler}
  None = None
  MaxRuns = 2
  SchedulerOf <- MCSchedulerOf
SPECIFICATION StopSpec
INVARIANTS StopTypeOK NothingOldSurvives
CHECK_DEADLOCK FALSE
