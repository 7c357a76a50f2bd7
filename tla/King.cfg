SPECIFICATION CourtSpec
CONSTANTS
  Keys = {k1}
  NoKey = NoKey
  PatrolKey = PatrolKey
  Requests = {r1, r2}
  Earnings = {0}
  BuildCounts = {0}
  Names = {n1}
  Nicknames = {nick1}
  NoName = NoName
  Handles = {h1}
  Failing = {"RecordAudience", "LastAudienceTime"}
  TicksPerSec = 2
  Minute = 1
  Nothing = Nothing
  MayCrash = TRUE
  MaxTime = 5
  MaxAudiences = 2
SYMMETRY MCSymmetry
INVARIANTS
  PatientAreSpaced
