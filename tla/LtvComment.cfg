SPECIFICATION Spec
CONSTANTS
  Users = {u1, u2}
  Rejecting = {}
  Contracts = {"MARKETPLACE", "VAULT"}
  Owner = Owner
  Registrars = {"USCVerifier"}
  Evidence = {"evidence"}
  NoEvidence = NoEvidence
  Applicants = {u1}
  Grants <- MCGrantWithoutRatio
  Lifetimes = {2}
  Amounts = {1, 2}
  Aprs = {2}
  Durations = {1}
  Collaterals = {0, 1}
  Payments = {1}
  InitialWallet = 3
  MaxTime = 1
  MaxNonce = 1
  MaxRequests = 1
  MaxOffers = 1
  LOW_RISK_MAX_CREDIT = 3
  MEDIUM_RISK_MAX_CREDIT = 2
  HIGH_RISK_MAX_CREDIT = 1
  LOW_RISK_MAX_LTV_BPS = 2
  MEDIUM_RISK_MAX_LTV_BPS = 1
  HIGH_RISK_MAX_LTV_BPS = 1
  MIN_COLLATERAL_BPS = 1
  BPS_DENOMINATOR = 4
  MAX_APR_BPS = 2
  MAX_LOAN_DURATION = 2
  DEFAULT_GRACE_PERIOD = 1
  YEAR = 1
PROPERTIES
  CollateralRatioEnforced
