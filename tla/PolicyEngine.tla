---------------------------- MODULE PolicyEngine ----------------------------
(***************************************************************************)
(* backend/src/policy/PolicyEngine.ts: the terms a set of features earns.  *)
(* The limits of each tier are written out in it, in whole tCTC and basis  *)
(* points; the contract has its own in PolicyConstants.                    *)
(***************************************************************************)
EXTENDS PolicyConstants, FiniteSets

\* The contract's limits in the engine's units: here they are not scaled.
ASSUME DeployedLimits ==
  /\ LOW_RISK_MAX_CREDIT = 10000 /\ LOW_RISK_MAX_LTV_BPS = 6500
  /\ MEDIUM_RISK_MAX_CREDIT = 5000 /\ MEDIUM_RISK_MAX_LTV_BPS = 5000
  /\ HIGH_RISK_MAX_CREDIT = 2000 /\ HIGH_RISK_MAX_LTV_BPS = 3500

FeatureType == {"INFLOW", "REPAYMENT", "OBLIGATION"}

\* Points by the number of features of each type, capped at both ends.
Score(inflows, repayments, obligations) ==
  LET score == 50 + 15 * inflows + 20 * repayments - 10 * obligations
  IN  IF score > 100 THEN 100 ELSE IF score < 0 THEN 0 ELSE score

\* Faulty variant: the tiers' limits are taken from the next better tier.
TermsOneTierUp(score) ==
  IF score >= 80 THEN [tier |-> "LOW", credit |-> 10000, ltv |-> 6500]
  ELSE IF score >= 50 THEN [tier |-> "MEDIUM", credit |-> 10000, ltv |-> 6500]
  ELSE IF score >= 20 THEN [tier |-> "HIGH", credit |-> 5000, ltv |-> 5000]
  ELSE [tier |-> "REJECTED", credit |-> 0, ltv |-> 0]

TermsOf(score) ==
  IF score >= 80 THEN [tier |-> "LOW", credit |-> 10000, ltv |-> 6500]
  ELSE IF score >= 50 THEN [tier |-> "MEDIUM", credit |-> 5000, ltv |-> 5000]
  ELSE IF score >= 20 THEN [tier |-> "HIGH", credit |-> 2000, ltv |-> 3500]
  ELSE [tier |-> "REJECTED", credit |-> 0, ltv |-> 0]

\* evaluate, of features that differ at least in their evidence id.
Evaluate(features) ==
  LET count(type) == Cardinality({f \in features : f.eventType = type})
  IN  TermsOf(Score(count("INFLOW"), count("REPAYMENT"), count("OBLIGATION")))
=============================================================================
