SPECIFICATION Spec
CONSTANTS
  Submitters = {s1}
  Factories = {f1, f2}
  Unregistered = {u1}
  BuildIds = {b1, b2}
  Destinations = {"network", "local"}
  SpecLengths = {10, 600}
  InitialBalance = 30
  Requests = {r1, r2}
  NoKey = NoKey
  None = None
  StoreMayFail = FALSE
  MayCrash = FALSE
  MaxRequests = 4
  MaxFaults = 0
  MaxTime = 0
SYMMETRY MCSymmetry
INVARIANT OneFactoryIsTold
CHECK_DEADLOCK FALSE
