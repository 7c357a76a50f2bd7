SPECIFICATION Spec
CONSTANTS
  Submitters = {s1}
  Factories = {f1, f2}
  Unregistered = {u1}
  BuildIds = {b1, b2}
  Destinations = {"network", "local"}
  SpecLengths = {600}
  InitialBalance = 30
  Requests = {r1, r2}
  NoKey = NoKey
  None = None
  StoreMayFail = TRUE
  MayCrash = TRUE
  MaxRequests = 4
  MaxFaults = 2
  MaxTime = 1
SYMMETRY MCSymmetry
INVARIANTS
  NeverOverdrawn
  ChargesAccountedFor
  PaidBuildsAreOver
PROPERTIES
  ImplementsBuildQueue
  NoOvertaking
CHECK_DEADLOCK FALSE
