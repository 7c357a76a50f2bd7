SPECIFICATION Spec
CONSTANTS
  Keys = {k1, k2}
  Handles = {h1}
  Grant = 10
  Amounts = {9}
  BuildCosts = {5}
  LentAmounts <- MCLentAmounts
  Interests = {0}
  MinReputations = {0}
  OfferIds = {o1}
  LoanIds = {l1}
  MaxDebtToDeliveryPct = 50
  MaxActiveLoans = 3
  MaxNetworkDebtPct = 30
  MinBalanceAfterLend = 1
  DayStep = 90
  MaxAge = 90
  Requests = {r1, r2}
  None = None
  NoHandle = NoHandle
  StoreMayFail = TRUE
  MayCrash = TRUE
  MaxRequests = 5
  MaxFaults = 2
SYMMETRY MCSymmetry
INVARIANTS
  LedgerBalanceWasReal
  LedgerFollowsTurns
PROPERTY PairedStaysPaired
CHECK_DEADLOCK FALSE
