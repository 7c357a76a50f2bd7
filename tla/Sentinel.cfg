SPECIFICATION MonitorSpec
CONSTANTS
  c1 = c1
  c2 = c2
  Checks <- MCChecks
  Mute = {}
  Exempt = {c2}
  NoResult = NoResult
  MayStop = TRUE
  MaxRuns <- MCMaxRuns
INVARIANTS
  ResultsInOrder
PROPERTIES
  ResultsArrive
  RunReturns
CHECK_DEADLOCK FALSE
