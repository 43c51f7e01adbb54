SPECIFICATION Spec
CONSTANTS
  single = single
  postgres = postgres
  cluster = cluster
  Deployments <- MCDeployments
  Postgres <- MCPostgres
  MemoryDb = MemoryDb
  MaxProbes = 3
  MaxRuns = 2
INVARIANTS
  TestsRunOnSoundStacks
  EndsHonestAndClean
PROPERTIES
  ScriptEnds
CHECK_DEADLOCK FALSE
