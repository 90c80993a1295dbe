SPECIFICATION FairSpec
CONSTANTS
  Users = {u1, u2, u3}
  Rejecting = {u3}
  Contracts = {"MARKETPLACE", "VAULT"}
  Owner = Owner
  Registrars = {"USCVerifier"}
  Evidence = {"evidence"}
  NoEvidence = NoEvidence
  Applicants = {u1}
  Grants <- MCGrants
  Lifetimes = {2}
  Amounts = {1, 2}
  Aprs = {2}
  Durations = {1}
  Collaterals = {1}
  Payments = {3}
  InitialWallet = 5
  MaxTime = 3
  MaxNonce = 2
  MaxRequests = 2
  MaxOffers = 2
  LOW_RISK_MAX_CREDIT = 3
  MEDIUM_RISK_MAX_CREDIT = 2
  HIGH_RISK_MAX_CREDIT = 1
  LOW_RISK_MAX_LTV_BPS = 2
  MEDIUM_RISK_MAX_LTV_BPS = 1
  HIGH_RISK_MAX_LTV_BPS = 1
  MIN_COLLATERAL_BPS = 1
  BPS_DENOMINATOR = 4
  MAX_APR_BPS = 2
  MAX_LOAN_DURATION = 2
  DEFAULT_GRACE_PERIOD = 1
  YEAR = 1
INVARIANTS
  TypeOK
  EscrowCovered
  WalletsMatchBooks
  CapacityMatchesLoans
  ExposureBounded
  ActiveLoansOwe
  HistoryMatchesLoans
  ExitsStayOpen
PROPERTIES
  DrawsWithinTerms
  KeepsLoanBook
  EveryLoanEnds
