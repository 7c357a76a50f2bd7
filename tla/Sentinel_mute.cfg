SPECIFICATION MonitorSpec
CONSTANTS
  c1 = c1
  c2 = c2
  Checks <- MCChecks
  Mute = {c1}
  Exempt = {}
  NoResult = NoResult
  MayStop = FALSE
  MaxRuns <- MCMaxRunsFew
INVARIANT TroubleIsSeen
