SPECIFICATION Spec
CONSTANTS
  Ids = {i1, i2, i3}
  Factories = {fa, fb, fc}
  Subjects = {s1, s2}
  Confidences = {4, 12}
  Counts <- MCCounts
  Deltas <- MCDeltas
  Thresholds = {5}
  None = None
  MaxCalls = 5
SYMMETRY MCSymmetry
INVARIANTS
  OneSourcePerSubject
  KeptUntilRevised
  CountsEveryFactory
CHECK_DEADLOCK FALSE
