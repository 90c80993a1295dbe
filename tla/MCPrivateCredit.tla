-------------------------- MODULE MCPrivateCredit --------------------------
(***************************************************************************)
(* Instances of PrivateCredit for TLC. A basis point is a quarter here     *)
(* (BPS_DENOMINATOR = 4) and a year one unit of time, so that interest and *)
(* collateral round as they do in the contracts.                           *)
(***************************************************************************)
EXTENDS PrivateCredit, TLC

\* LOW terms with half, and MEDIUM terms with three quarters of the principal
\* as collateral.
MCGrants ==
  {[tier |-> "LOW", credit |-> 3, ltv |-> 2], [tier |-> "MEDIUM", credit |-> 2, ltv |-> 1]}

\* One registration only, of the largest credit.
MCOneGrant == {[tier |-> "LOW", credit |-> 4, ltv |-> 2]}

\* Terms that state no loan-to-value ratio.
MCGrantWithoutRatio == {[tier |-> "LOW", credit |-> 3, ltv |-> 0]}

\* Every account may play every part.
MCSymmetry == Permutations(Users)
=============================================================================
