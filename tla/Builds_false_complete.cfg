SPECIFICATION Spec
CONSTANTS
  Submitters = {s1}
  Factories = {f1, f2}
  Unregistered = {u1}
  BuildIds = {b1, b2}
  Destinations = {"network", "local"}
  SpecLengths = {10, 600}
  InitialBalance = 30
  Requests = {r1}
  NoKey = NoKey
  None = None
  StoreMayFail = TRUE
  MayCrash = FALSE
  MaxRequests = 3
  MaxFaults = 1
  MaxTime = 0
SYMMETRY MCSymmetry
PROPERTY CompleteReplyIsTrue
CHECK_DEADLOCK FALSE
