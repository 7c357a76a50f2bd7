SPECIFICATION CourtSpec
CONSTANTS
  Keys = {k1}
  NoKey = NoKey
  PatrolKey = PatrolKey
  Requests = {r1}
  Earnings = {0, 60000}
  BuildCounts = {0, 150}
  Names = {n1}
  Nicknames = {nick1}
  NoName = NoName
  Handles = {}
  Failing = {}
  TicksPerSec = 2
  Minute = 2
  Nothing = Nothing
  MayCrash = FALSE
  MaxTime = 1
  MaxAudiences = 3
SYMMETRY MCSymmetry
INVARIANT ServiceIsHonoured
