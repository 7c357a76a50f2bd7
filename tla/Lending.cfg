SPECIFICATION Spec
CONSTANTS
  lena = lena
  bob = bob
  Makers <- MCMakers
  InitialReps <- MCReps
  InitialBalances <- MCBalances
  OfferIds = {o1, o2}
  LoanIds = {l1, l2}
  Amounts <- MCAmounts
  Interests = {5}
  MinReputations = {0}
  Deposits = {500}
  MaxDebtToDeliveryPct = 50
  MaxActiveLoans = 2
  MaxNetworkDebtPct = 30
  MinBalanceAfterLend = 100
  DayStep = 90
  MaxAge = 90
  MaxLends = 3
  None = None
SYMMETRY MCSymmetry
INVARIANTS
  NoLeveragedLending
  OfferLentOnce
  TokensConserved
  HistoryMatchesLoans
  OnlyHistoryBorrows
PROPERTIES
  DebtWithinDelivery
  OverdraftsOnlyByNegatives
  NetworkDebtContained
  DefaultsOnlyHurt
CHECK_DEADLOCK FALSE
