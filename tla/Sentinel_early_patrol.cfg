SPECIFICATION MonitorSpec
CONSTANTS
  c1 = c1
  c2 = c2
  Checks <- MCChecks
  Mute = {}
  Exempt = {}
  NoResult = NoResult
  MayStop = FALSE
  MaxRuns <- MCMaxRunsFew
INVARIANT PatrolSpeaksTrue
