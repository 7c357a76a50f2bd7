SPECIFICATION Spec
CONSTANTS
  Keys = {k1, k2}
  Handles = {h1}
  Grant = 10
  Amounts = {3, 9}
  BuildCosts = {5}
  LentAmounts <- MCNothing
  Interests = {0}
  MinReputations = {0}
  OfferIds = {o1}
  LoanIds = {l1}
  MaxDebtToDeliveryPct = 50
  MaxActiveLoans = 3
  MaxNetworkDebtPct = 30
  MinBalanceAfterLend = 1
  DayStep = 90
  MaxAge = 0
  Requests = {r1}
  None = None
  NoHandle = NoHandle
  StoreMayFail = FALSE
  MayCrash = FALSE
  MaxRequests = 4
  MaxFaults = 0
SYMMETRY MCSymmetry
INVARIANT EarnersAreRegistered
CHECK_DEADLOCK FALSE
