-------------------------- MODULE PolicyConstants --------------------------
(***************************************************************************)
(* The protocol's numeric limits, contracts/libraries/PolicyConstants.sol, *)
(* as parameters: the contracts only ever compare with them and divide by  *)
(* BPS_DENOMINATOR, so a model instance may scale them all down.           *)
(***************************************************************************)
EXTENDS Integers

CONSTANTS
  LOW_RISK_MAX_CREDIT, MEDIUM_RISK_MAX_CREDIT, HIGH_RISK_MAX_CREDIT,
  LOW_RISK_MAX_LTV_BPS, MEDIUM_RISK_MAX_LTV_BPS, HIGH_RISK_MAX_LTV_BPS,
  MIN_COLLATERAL_BPS, BPS_DENOMINATOR, MAX_APR_BPS,
  MAX_LOAN_DURATION,     \* the longest loan the marketplace accepts
  DEFAULT_GRACE_PERIOD,  \* LoanVault's two days
  YEAR                   \* Solidity's 365 days, the period an APR refers to

\* A LOW tier is allowed at least what a MEDIUM or a HIGH one is.
ASSUME CreditLimits ==
  /\ LOW_RISK_MAX_CREDIT \in Nat
  /\ MEDIUM_RISK_MAX_CREDIT \in 0 .. LOW_RISK_MAX_CREDIT
  /\ HIGH_RISK_MAX_CREDIT \in 0 .. MEDIUM_RISK_MAX_CREDIT

\* Ratios are fractions of BPS_DENOMINATOR.
ASSUME Ratios ==
  /\ BPS_DENOMINATOR \in Nat \ {0}
  /\ LOW_RISK_MAX_LTV_BPS \in 0 .. BPS_DENOMINATOR
  /\ MEDIUM_RISK_MAX_LTV_BPS \in 0 .. LOW_RISK_MAX_LTV_BPS
  /\ HIGH_RISK_MAX_LTV_BPS \in 0 .. MEDIUM_RISK_MAX_LTV_BPS
  /\ MIN_COLLATERAL_BPS \in 0 .. BPS_DENOMINATOR

ASSUME LoanTerms ==
  /\ MAX_APR_BPS \in Nat
  /\ MAX_LOAN_DURATION \in Nat
  /\ DEFAULT_GRACE_PERIOD \in Nat
  /\ YEAR \in Nat \ {0}

RiskTier == {"LOW", "MEDIUM", "HIGH"}

TierMaxCredit ==
  [tier \in RiskTier |-> CASE tier = "LOW"    -> LOW_RISK_MAX_CREDIT
                           [] tier = "MEDIUM" -> MEDIUM_RISK_MAX_CREDIT
                           [] tier = "HIGH"   -> HIGH_RISK_MAX_CREDIT]

TierMaxLtvBps ==
  [tier \in RiskTier |-> CASE tier = "LOW"    -> LOW_RISK_MAX_LTV_BPS
                           [] tier = "MEDIUM" -> MEDIUM_RISK_MAX_LTV_BPS
                           [] tier = "HIGH"   -> HIGH_RISK_MAX_LTV_BPS]
=============================================================================
