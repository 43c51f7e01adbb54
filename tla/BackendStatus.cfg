SPECIFICATION StatusSpec
CONSTANTS
  c1 = c1
  c2 = c2
  run = run
  ev = ev
  generic = generic
  schema = schema
  Cmd <- MCCmd
  Run <- MCRun
  Once <- MCOnce
  Category <- MCCategory
  MaxReports = 2
INVARIANTS
  StatusTypeOK
  ReadersAgree
  LiveEventsWin
  ReportedExactlyOnce
PROPERTIES
  ReadyErrorsAreRuntimeErrors
  ConnectingEnds
CHECK_DEADLOCK FALSE
