SPECIFICATION Spec
CONSTANTS
  None = None
  Borrowers = {"b1", "b2"}
  SourceTxs = {"t1", "t2", "t3"}
  Claims <- MCClaims
  SourceBlock <- MCSourceBlock
  Calls = {"c1", "c2"}
  Faults = TRUE
  MaxRequests = 2
  MaxSent = 1
  LOW_RISK_MAX_CREDIT = 10000
  MEDIUM_RISK_MAX_CREDIT = 5000
  HIGH_RISK_MAX_CREDIT = 2000
  LOW_RISK_MAX_LTV_BPS = 6500
  MEDIUM_RISK_MAX_LTV_BPS = 5000
  HIGH_RISK_MAX_LTV_BPS = 3500
  MIN_COLLATERAL_BPS = 1000
  BPS_DENOMINATOR = 10000
  MAX_APR_BPS = 5000
  MAX_LOAN_DURATION = 2
  DEFAULT_GRACE_PERIOD = 1
  YEAR = 1
INVARIANTS
  VerifiedMeansConfirmed
CHECK_DEADLOCK FALSE
