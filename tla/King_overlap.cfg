SPECIFICATION CourtSpec
CONSTANTS
  Keys = {k1}
  NoKey = NoKey
  PatrolKey = PatrolKey
  Requests = {r1, r2}
  Earnings = {0}
  BuildCounts = {0}
  Names = {n1}
  Nicknames = {}
  NoName = NoName
  Handles = {}
  Failing = {}
  TicksPerSec = 2
  Minute = 2
  Nothing = Nothing
  MayCrash = FALSE
  MaxTime = 4
  MaxAudiences = 2
SYMMETRY MCSymmetry
INVARIANT OnePerMinute
