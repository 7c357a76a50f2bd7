SPECIFICATION Spec
CONSTANTS
  Keys = {k1}
  Handles = {h1}
  Grant = 10
  Amounts = {3, 9}
  BuildCosts = {}
  LentAmounts <- MCNothing
  Interests = {0}
  MinReputations = {0}
  OfferIds = {o1}
  LoanIds = {l1}
  MaxDebtToDeliveryPct = 50
  MaxActiveLoans = 3
  MaxNetworkDebtPct = 30
  MinBalanceAfterLend = 1
  DayStep = 90
  MaxAge = 0
  Requests = {r1}
  None = None
  NoHandle = NoHandle
  StoreMayFail = TRUE
  MayCrash = FALSE
  MaxRequests = 4
  MaxFaults = 1
SYMMETRY MCSymmetry
INVARIANT RegisteredReplyIsTrue
CHECK_DEADLOCK FALSE
