SPECIFICATION Spec
CONSTANTS
  Users = {u1, u2}
  Rejecting = {}
  Contracts = {"MARKETPLACE", "VAULT"}
  Owner = Owner
  Registrars = {"USCVerifier"}
  Evidence = {"evidence"}
  NoEvidence = NoEvidence
  Applicants = {u1, u2}
  Grants <- MCOneGrant
  Lifetimes = {1}
  Amounts = {2}
  Aprs = {2}
  Durations = {1, 2}
  Collaterals = {0, 1}
  Payments = {1}
  InitialWallet = 4
  MaxTime = 1
  MaxNonce = 1
  MaxRequests = 2
  MaxOffers = 2
  LOW_RISK_MAX_CREDIT = 4
  MEDIUM_RISK_MAX_CREDIT = 2
  HIGH_RISK_MAX_CREDIT = 1
  LOW_RISK_MAX_LTV_BPS = 2
  MEDIUM_RISK_MAX_LTV_BPS = 1
  HIGH_RISK_MAX_LTV_BPS = 1
  MIN_COLLATERAL_BPS = 1
  BPS_DENOMINATOR = 4
  MAX_APR_BPS = 2
  MAX_LOAN_DURATION = 2
  DEFAULT_GRACE_PERIOD = 1
  YEAR = 1
SYMMETRY MCSymmetry
INVARIANTS
  FundedByOneOffer
  LoansCarryOutOffers
