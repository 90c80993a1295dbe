SPECIFICATION Spec
CONSTANTS
  b1 = b1
  b2 = b2
  Owner = Owner
  Users = {b1, b2, Owner}
  Rejecting = {}
  Contracts = {}
  Registrars = {"USCVerifier", Owner}
  Applicants = {b1, b2}
  Evidence <- MCEvidence
  NoEvidence = NoEvidence
  DeployerEvidence = DeployerEvidence
  Inclusions <- MCInclusionsOfBatch
  FaucetRequests = {}
  SeedRuns = {}
  Target <- MCTarget
  OnboardingTerms <- MCOnboardingTerms
  OnboardingLifetime = 1
  Faults = FALSE
  MaxTime = 0
  MaxNonce = 2
  SourceTokens = {"USDC", "DAI"}
  ChainKeys = {"key"}
  SourceChainIds = {"sepolia"}
  Unset = Unset
  LOW_BALANCE = 1
  TOP_UP = 2
  InitialWallet = 3
  Grants <- MCGrants
  Lifetimes = {1}
  LOW_RISK_MAX_CREDIT = 3
  MEDIUM_RISK_MAX_CREDIT = 2
  HIGH_RISK_MAX_CREDIT = 1
  LOW_RISK_MAX_LTV_BPS = 2
  MEDIUM_RISK_MAX_LTV_BPS = 1
  HIGH_RISK_MAX_LTV_BPS = 1
  MIN_COLLATERAL_BPS = 1
  BPS_DENOMINATOR = 4
  MAX_APR_BPS = 2
  MAX_LOAN_DURATION = 2
  DEFAULT_GRACE_PERIOD = 1
  YEAR = 1
INVARIANTS
  RecordedTokenWasTransferred
CHECK_DEADLOCK FALSE
