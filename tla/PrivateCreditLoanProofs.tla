---------------------- MODULE PrivateCreditLoanProofs ----------------------
(***************************************************************************)
(* What holds of the loans of PrivateCredit, one by one and in sum, for    *)
(* every set of accounts, every input and every bound. It all rests on     *)
(* TypeOK; the lemmas of the first part say once what each transaction     *)
(* does to the loans, so that each invariant is argued over those effects. *)
(***************************************************************************)
EXTENDS PrivateCreditProofs

-----------------------------------------------------------------------------
(* Arithmetic.                                                             *)

\* Integer division by a positive number is monotone.
LEMMA DivMonotone ==
  ASSUME NEW x \in Int, NEW y \in Int, NEW d \in Nat \ {0}, x <= y
  PROVE  x \div d <= y \div d
<1> DEFINE q == x \div d
           p == y \div d
<1>1. /\ q \in Int /\ p \in Int
      /\ d * q <= x /\ y < d * p + d
  OBVIOUS
<1>2. SUFFICES ASSUME q >= p + 1 PROVE FALSE
  BY <1>1
<1>3. d * q >= d * (p + 1)
  BY <1>1, <1>2
<1>4. d * (p + 1) = d * p + d
  BY <1>1
<1> QED
  BY <1>1, <1>3, <1>4

\* Time that passes never lowers what a loan owes, and a new loan owes its
\* principal.
LEMMA InterestGrows ==
  ASSUME NEW loan \in Loan, NEW t \in Nat, loan.startTime <= t
  PROVE  /\ InterestAt(loan, t) \in Nat
         /\ InterestAt(loan, t) <= InterestAt(loan, t + 1)
         /\ InterestAt(loan, loan.startTime) = 0
<1>1. loan.principal \in Nat /\ loan.aprBps \in Nat /\ loan.startTime \in Nat
  BY DEF Loan
<1>2. BPS_DENOMINATOR * YEAR \in Nat \ {0}
  BY Ratios, LoanTerms
<1> DEFINE pa == loan.principal * loan.aprBps
           d == BPS_DENOMINATOR * YEAR
<1>3. pa \in Nat /\ d \in Nat \ {0}
  BY <1>1, <1>2
<1> HIDE DEF pa, d
<1>4. pa * (t - loan.startTime) \in Nat
  BY <1>1, <1>3
<1>5. pa * ((t + 1) - loan.startTime) = pa * (t - loan.startTime) + pa
  <2>1. ASSUME NEW n \in Int PROVE pa * (n + 1) = pa * n + pa
    BY <1>3
  <2>2. (t + 1) - loan.startTime = (t - loan.startTime) + 1 /\ t - loan.startTime \in Int
    BY <1>1
  <2> QED
    BY <2>1, <2>2
<1>6. (pa * (t - loan.startTime)) \div d <= (pa * ((t + 1) - loan.startTime)) \div d
  BY <1>3, <1>4, <1>5, DivMonotone
<1>7. pa * (loan.startTime - loan.startTime) = 0
  BY <1>1, <1>3
<1>8. 0 \div d = 0
  BY <1>3
<1>9. (pa * (t - loan.startTime)) \div d \in Nat
  BY <1>3, <1>4
<1> QED
  BY <1>6, <1>7, <1>8, <1>9 DEF InterestAt, pa, d
-----------------------------------------------------------------------------
(* What transactions do.                                                   *)

\* Transactions that touch neither loans nor counters nor the history.
LEMMA QuietSteps ==
  ASSUME PassTime \/ Administer \/ Trade \/ UNCHANGED vars
  PROVE  UNCHANGED <<loans, capacityVars, repaymentVars>>
BY DEF PassTime, Administer, Trade, vars

\* An acceptance appends one active loan on the offer's terms, within the
\* capacity its borrower has at that time.
NewLoan(b, o) ==
  [borrower |-> b, lender |-> offers[o].lender, principal |-> offerDeposits[o],
   aprBps |-> offers[o].aprBps, startTime |-> now, duration |-> offers[o].duration,
   collateralAmount |-> offers[o].requiredCollateral, repaidAmount |-> 0,
   status |-> "ACTIVE"]

LEMMA AcceptEffect ==
  ASSUME TypeOK, NEW b \in Users, NEW o \in DOMAIN offers, Accept(b, o)
  PROVE  /\ loans' = Append(loans, NewLoan(b, o))
         /\ Len(loans) \in Nat /\ Len(loans') = Len(loans) + 1
         /\ DOMAIN loans = 1 .. Len(loans) /\ DOMAIN loans' = 1 .. Len(loans) + 1
         /\ \A i \in DOMAIN loans : loans'[i] = loans[i]
         /\ loans'[Len(loans) + 1] = NewLoan(b, o)
         /\ NewLoan(b, o) \in Loan
         /\ offerDeposits[o] \in Nat \ {0}
         /\ ReserveCapacity(b, offerDeposits[o])
         /\ offers[o].requiredCollateral \in Nat
         /\ offers[o].requiredCollateral >= MinCollateral(b, offerDeposits[o])
         /\ UNCHANGED <<now, registryVars, repaymentVars>>
<1>1. /\ offers \in Seq(LenderOffer) /\ offerDeposits \in Seq(Nat)
      /\ Len(offerDeposits) = Len(offers) /\ loans \in Seq(Loan) /\ now \in Nat
  BY DEF TypeOK, MarketTypeOK, VaultTypeOK, ChainTypeOK
<1>2. offers[o] \in LenderOffer /\ offerDeposits[o] \in Nat
  <2>1. offers[o] \in LenderOffer /\ o \in 1 .. Len(offers)
    BY <1>1, SeqItem
  <2> QED
    BY <1>1, <2>1, ElementOfSeq
<1>3. NewLoan(b, o) \in Loan
  BY <1>1, <1>2 DEF NewLoan, Loan, LoanStatus, LenderOffer
<1>4. loans' = Append(loans, NewLoan(b, o))
  BY DEF Accept, AcceptOffer, OriginateLoan, NewLoan
<1>5. /\ Len(loans) \in Nat /\ Len(loans') = Len(loans) + 1
      /\ \A i \in 1 .. Len(loans) : loans'[i] = loans[i]
      /\ loans'[Len(loans) + 1] = NewLoan(b, o)
      /\ loans' \in Seq(Loan)
  BY <1>1, <1>3, <1>4, AppendProperties, LenProperties
<1>6. DOMAIN loans = 1 .. Len(loans) /\ DOMAIN loans' = 1 .. Len(loans) + 1
  BY <1>1, <1>5, LenProperties
<1>7. /\ offerDeposits[o] # 0 /\ ReserveCapacity(b, offerDeposits[o])
      /\ offers[o].requiredCollateral >= MinCollateral(b, offerDeposits[o])
      /\ UNCHANGED <<now, registryVars, repaymentVars>>
  BY DEF Accept, AcceptOffer, OriginateLoan
<1> QED
  BY <1>2, <1>3, <1>4, <1>5, <1>6, <1>7 DEF LenderOffer

\* What a loan was agreed to be; nothing changes it.
SameTerms(l, m) ==
  /\ l.borrower = m.borrower /\ l.lender = m.lender /\ l.principal = m.principal
  /\ l.aprBps = m.aprBps /\ l.startTime = m.startTime /\ l.duration = m.duration
  /\ l.collateralAmount = m.collateralAmount

\* A change of loan id alone, to the given repaid amount and status.
Update(id, repaid, status) ==
  /\ DOMAIN loans' = DOMAIN loans /\ Len(loans') = Len(loans)
  /\ \A i \in DOMAIN loans \ {id} : loans'[i] = loans[i]
  /\ SameTerms(loans'[id], loans[id])
  /\ loans'[id].repaidAmount = repaid
  /\ loans'[id].status = status

LEMMA RepayInFullEffect ==
  ASSUME TypeOK, NEW b \in Users, NEW id \in DOMAIN loans, NEW value \in Nat,
         Repay(b, id, value), RepayInFull(id, value)
  PROVE  /\ loans[id] \in Loan /\ loans[id].status = "ACTIVE" /\ TotalOwed(loans[id]) \in Nat
         /\ Update(id, loans[id].repaidAmount + TotalOwed(loans[id]), "REPAID")
         /\ ReleaseCapacity(loans[id].borrower, loans[id].principal)
         /\ RecordRepayment(id, loans[id].borrower, TotalOwed(loans[id]),
              IF now <= DueTime(loans[id]) THEN "ON_TIME" ELSE "LATE")
         /\ UNCHANGED <<now, registryVars, marketVars>>
<1>1. loans \in Seq(Loan) /\ now \in Nat
  BY DEF TypeOK, VaultTypeOK, ChainTypeOK
<1>2. loans[id] \in Loan /\ id \in 1 .. Len(loans)
  BY <1>1, SeqItem
<1>3. TotalOwed(loans[id]) \in Nat /\ loans[id].repaidAmount \in Nat
  BY <1>1, <1>2, OwedType DEF Loan
<1>4. Update(id, loans[id].repaidAmount + TotalOwed(loans[id]), "REPAID")
  <2>1. ASSUME NEW n \in Nat, loans' = [loans EXCEPT ![id].repaidAmount = n,
                                                    ![id].status = "REPAID"]
        PROVE  Update(id, n, "REPAID")
    <3>1. [loans[id] EXCEPT !.repaidAmount = n, !.status = "REPAID"] \in Loan
      BY <1>2 DEF Loan, LoanStatus
    <3>2. loans' = [loans EXCEPT ![id] = [loans[id] EXCEPT !.repaidAmount = n,
                                                           !.status = "REPAID"]]
      BY <1>1, <1>2, <2>1
    <3>3. loans' \in Seq(Loan) /\ Len(loans') = Len(loans)
          /\ loans'[id] = [loans[id] EXCEPT !.repaidAmount = n, !.status = "REPAID"]
          /\ \A i \in DOMAIN loans \ {id} : loans'[i] = loans[i]
      BY <1>1, <1>2, <3>1, <3>2, ExceptSeq, LenProperties
    <3> QED
      BY <1>1, <1>2, <3>3, LenProperties DEF Update, SameTerms, Loan
  <2>2. loans[id].repaidAmount + TotalOwed(loans[id]) \in Nat
    BY <1>3
  <2>3. loans' = [loans EXCEPT ![id].repaidAmount = loans[id].repaidAmount + TotalOwed(loans[id]),
                               ![id].status = "REPAID"]
    BY <1>1, <1>2 DEF RepayInFull
  <2> QED
    BY <2>1, <2>2, <2>3
<1>5. /\ loans[id].status = "ACTIVE"
      /\ ReleaseCapacity(loans[id].borrower, loans[id].principal)
      /\ RecordRepayment(id, loans[id].borrower, TotalOwed(loans[id]),
           IF now <= DueTime(loans[id]) THEN "ON_TIME" ELSE "LATE")
      /\ UNCHANGED <<now, registryVars, marketVars>>
  BY DEF Repay, RepayLoan, RepayInFull
<1> QED
  BY <1>2, <1>3, <1>4, <1>5

LEMMA RepayInPartEffect ==
  ASSUME TypeOK, NEW b \in Users, NEW id \in DOMAIN loans, NEW value \in Nat,
         Repay(b, id, value), RepayInPart(id, value)
  PROVE  /\ loans[id] \in Loan /\ loans[id].status = "ACTIVE"
         /\ value < TotalOwed(loans[id])
         /\ Update(id, loans[id].repaidAmount + value, "ACTIVE")
         /\ UNCHANGED <<now, registryVars, capacityVars, repaymentVars, marketVars>>
<1>1. loans \in Seq(Loan)
  BY DEF TypeOK, VaultTypeOK
<1>2. loans[id] \in Loan /\ id \in 1 .. Len(loans)
  BY <1>1, SeqItem
<1>3. /\ loans[id].status = "ACTIVE" /\ value < TotalOwed(loans[id])
      /\ loans' = [loans EXCEPT ![id].repaidAmount = @ + value]
      /\ UNCHANGED <<now, registryVars, capacityVars, repaymentVars, marketVars>>
  BY DEF Repay, RepayLoan, RepayInPart
<1>4. Update(id, loans[id].repaidAmount + value, "ACTIVE")
  <2>1. [loans[id] EXCEPT !.repaidAmount = @ + value] \in Loan
    BY <1>2 DEF Loan
  <2>2. loans' \in Seq(Loan) /\ Len(loans') = Len(loans)
        /\ loans'[id] = [loans[id] EXCEPT !.repaidAmount = @ + value]
        /\ \A i \in DOMAIN loans \ {id} : loans'[i] = loans[i]
    BY <1>1, <1>2, <1>3, <2>1, ExceptSeq, LenProperties
  <2> QED
    BY <1>1, <1>2, <1>3, <2>2, LenProperties DEF Update, SameTerms, Loan
<1> QED
  BY <1>2, <1>3, <1>4

LEMMA DefaultEffect ==
  ASSUME TypeOK, NEW id \in DOMAIN loans, Default(id)
  PROVE  /\ loans[id] \in Loan /\ loans[id].status = "ACTIVE" /\ PastGrace(loans[id])
         /\ Update(id, loans[id].repaidAmount, "DEFAULTED")
         /\ LockDefaultedCapacity(loans[id].borrower, loans[id].principal)
         /\ RecordRepayment(id, loans[id].borrower, 0, "DEFAULT")
         /\ UNCHANGED <<now, registryVars, marketVars>>
<1>1. loans \in Seq(Loan)
  BY DEF TypeOK, VaultTypeOK
<1>2. loans[id] \in Loan /\ id \in 1 .. Len(loans)
  BY <1>1, SeqItem
<1>3. /\ loans[id].status = "ACTIVE" /\ PastGrace(loans[id])
      /\ loans' = [loans EXCEPT ![id].status = "DEFAULTED"]
      /\ LockDefaultedCapacity(loans[id].borrower, loans[id].principal)
      /\ RecordRepayment(id, loans[id].borrower, 0, "DEFAULT")
      /\ UNCHANGED <<now, registryVars, marketVars>>
  BY DEF Default, DeclareDefault
<1>4. Update(id, loans[id].repaidAmount, "DEFAULTED")
  <2>1. [loans[id] EXCEPT !.status = "DEFAULTED"] \in Loan
    BY <1>2 DEF Loan, LoanStatus
  <2>2. loans' \in Seq(Loan) /\ Len(loans') = Len(loans)
        /\ loans'[id] = [loans[id] EXCEPT !.status = "DEFAULTED"]
        /\ \A i \in DOMAIN loans \ {id} : loans'[i] = loans[i]
    BY <1>1, <1>2, <1>3, <2>1, ExceptSeq, LenProperties
  <2> QED
    BY <1>1, <1>2, <2>2, LenProperties DEF Update, SameTerms, Loan
<1> QED
  BY <1>2, <1>3, <1>4

\* Every step is one of the above.
LEMMA StepKinds ==
  ASSUME [Next]_vars
  PROVE  \/ PassTime \/ Administer \/ Trade \/ UNCHANGED vars
         \/ \E b \in Users, o \in DOMAIN offers : Accept(b, o)
         \/ \E b \in Users, id \in DOMAIN loans, value \in Nat :
              Repay(b, id, value) /\ (RepayInFull(id, value) \/ RepayInPart(id, value))
         \/ \E id \in DOMAIN loans : Default(id)
BY Inputs DEF Next, Repay, RepayLoan
-----------------------------------------------------------------------------
(* Exposure and the terms it is drawn under.                               *)

\* A draw stays within the terms of that moment.
LEMMA ReserveWithinTerms ==
  ASSUME TypeOK, NEW b \in Users, NEW amount \in Nat, ReserveCapacity(b, amount)
  PROVE  /\ IsEligibilityValid(b)
         /\ TotalConsumedCapacity(b)' = TotalConsumedCapacity(b) + amount
         /\ TotalConsumedCapacity(b)' <= eligibilities[b].maxActiveCredit
         /\ \A u \in Users \ {b} : TotalConsumedCapacity(u)' = TotalConsumedCapacity(u)
<1>1. /\ usedCapacity[b] \in Nat /\ defaultedLockedCapacity[b] \in Nat
      /\ eligibilities[b].maxActiveCredit \in Nat
  BY DEF TypeOK, CapacityTypeOK, RegistryTypeOK, Eligibility
<1>2. /\ usedCapacity'[b] = usedCapacity[b] + amount
      /\ defaultedLockedCapacity' = defaultedLockedCapacity
      /\ \A u \in Users \ {b} : usedCapacity'[u] = usedCapacity[u]
  BY DEF ReserveCapacity, TypeOK, CapacityTypeOK
<1>3. IsEligibilityValid(b) /\ amount # 0 /\ amount <= AvailableCapacity(b)
  BY DEF ReserveCapacity
<1> QED
  BY <1>1, <1>2, <1>3 DEF AvailableCapacity, TotalConsumedCapacity

\* No other transaction raises anybody's exposure.
LEMMA OthersDrawNothing ==
  ASSUME TypeOK, [Next]_vars, \A b \in Users, o \in DOMAIN offers : ~Accept(b, o),
         NEW u \in Users
  PROVE  TotalConsumedCapacity(u)' <= TotalConsumedCapacity(u)
<1>0. /\ usedCapacity \in [Users -> Nat] /\ defaultedLockedCapacity \in [Users -> Nat]
  BY DEF TypeOK, CapacityTypeOK
<1>1. CASE UNCHANGED capacityVars
  BY <1>0, <1>1 DEF capacityVars, TotalConsumedCapacity
<1>2. ASSUME NEW loan \in Loan, \/ ReleaseCapacity(loan.borrower, loan.principal)
                               \/ LockDefaultedCapacity(loan.borrower, loan.principal)
      PROVE  TotalConsumedCapacity(u)' <= TotalConsumedCapacity(u)
  BY <1>0, <1>2 DEF Loan, ReleaseCapacity, LockDefaultedCapacity, TotalConsumedCapacity
<1> QED
  BY <1>1, <1>2, StepKinds, QuietSteps, RepayInFullEffect, RepayInPartEffect, DefaultEffect

\* A tier allows at most what LOW does.
LEMMA TierLimits ==
  ASSUME NEW tier \in RiskTier
  PROVE  TierMaxCredit[tier] \in Nat /\ TierMaxCredit[tier] <= LOW_RISK_MAX_CREDIT
BY CreditLimits DEF RiskTier, TierMaxCredit

LEMMA InitExposure == Init => ExposureBounded
<1> SUFFICES ASSUME Init, NEW b \in Users
             PROVE  /\ TotalConsumedCapacity(b) <= LOW_RISK_MAX_CREDIT
                    /\ eligibilities[b].maxActiveCredit <= TierMaxCredit[eligibilities[b].riskTier]
  BY DEF ExposureBounded
<1>1. "LOW" \in RiskTier
  BY DEF RiskTier
<1> QED
  BY <1>1, TierLimits, CreditLimits
  DEF Init, RegistryInit, CapacityInit, NoEligibility, TotalConsumedCapacity

\* A registration never grants more than its tier does.
LEMMA GrantsWithinTier ==
  ASSUME TypeOK, ExposureBounded, [Next]_vars, NEW b \in Users
  PROVE  eligibilities'[b].maxActiveCredit <= TierMaxCredit[eligibilities'[b].riskTier]
<1>1. eligibilities[b] \in Eligibility /\ eligibilities \in [Users -> Eligibility]
  BY DEF TypeOK, RegistryTypeOK
<1>2. CASE UNCHANGED eligibilities
  BY <1>2 DEF ExposureBounded
<1>3. ASSUME NEW grant \in Grants, NEW life \in Lifetimes, NEW a \in Applicants, NEW e,
             RegisterEligibility(registrar, a, grant.tier, grant.credit, grant.ltv,
                                 now + life, e)
      PROVE  eligibilities'[b].maxActiveCredit <= TierMaxCredit[eligibilities'[b].riskTier]
  BY <1>1, <1>3 DEF RegisterEligibility, ExposureBounded
<1>4. ASSUME NEW caller, NEW a \in Applicants, RevokeEligibility(caller, a)
      PROVE  eligibilities'[b].maxActiveCredit <= TierMaxCredit[eligibilities'[b].riskTier]
  <2>1. /\ eligibilities'[b].maxActiveCredit = eligibilities[b].maxActiveCredit
        /\ eligibilities'[b].riskTier = eligibilities[b].riskTier
    BY <1>1, <1>4 DEF RevokeEligibility, Eligibility
  <2> QED
    BY <2>1 DEF ExposureBounded
<1>5. CASE Administer
  BY <1>2, <1>3, <1>4, <1>5 DEF Administer, SetRegistrar
<1>6. CASE PassTime \/ Trade \/ UNCHANGED vars
  BY <1>2, <1>6 DEF PassTime, Trade, vars, registryVars
<1> QED
  BY <1>2, <1>5, <1>6, StepKinds, AcceptEffect, RepayInFullEffect, RepayInPartEffect,
     DefaultEffect DEF registryVars

\* Whatever terms come and go, the principal a borrower has drawn and not
\* repaid stays within the largest tier.
THEOREM ExposureIsBounded == Spec => []ExposureBounded
<1>1. TypeOK /\ ExposureBounded /\ [Next]_vars => ExposureBounded'
  <2> SUFFICES ASSUME TypeOK, ExposureBounded, [Next]_vars, NEW u \in Users
               PROVE  TotalConsumedCapacity(u)' <= LOW_RISK_MAX_CREDIT
    BY GrantsWithinTier DEF ExposureBounded, TotalConsumedCapacity
  <2>1. /\ TotalConsumedCapacity(u) <= LOW_RISK_MAX_CREDIT
        /\ eligibilities[u].maxActiveCredit <= TierMaxCredit[eligibilities[u].riskTier]
        /\ eligibilities[u] \in Eligibility /\ TotalConsumedCapacity(u) \in Nat
        /\ TypeOK' /\ TotalConsumedCapacity(u)' \in Nat
    BY NextType DEF ExposureBounded, TypeOK, RegistryTypeOK, CapacityTypeOK, TotalConsumedCapacity
  <2>2. eligibilities[u].maxActiveCredit <= LOW_RISK_MAX_CREDIT
    BY <2>1, TierLimits, CreditLimits DEF Eligibility
  <2>3. ASSUME NEW b \in Users, NEW o \in DOMAIN offers, Accept(b, o)
        PROVE  TotalConsumedCapacity(u)' <= LOW_RISK_MAX_CREDIT
    <3>1. offerDeposits[o] \in Nat /\ ReserveCapacity(b, offerDeposits[o])
      BY <2>3, AcceptEffect
    <3>2. CASE u = b
      BY <2>1, <2>2, <3>1, <3>2, ReserveWithinTerms, CreditLimits DEF Eligibility
    <3>3. CASE u # b
      BY <2>1, <3>1, <3>3, ReserveWithinTerms
    <3> QED
      BY <3>2, <3>3
  <2>4. CASE \A b \in Users, o \in DOMAIN offers : ~Accept(b, o)
    BY <2>1, <2>4, OthersDrawNothing, CreditLimits
  <2> QED
    BY <2>3, <2>4
<1> QED
  BY <1>1, InitExposure, TypeCorrect, PTL DEF Spec

\* Every draw is made under terms that are valid and sufficient at that moment
\* and against the collateral they ask for.
THEOREM DrawsAreWithinTerms == Spec => DrawsWithinTerms
<1> DEFINE Within ==
      \A b \in Users :
        TotalConsumedCapacity(b)' > TotalConsumedCapacity(b) =>
          LET drawn == loans'[Len(loans')] IN
          /\ IsEligibilityValid(b)
          /\ TotalConsumedCapacity(b)' <= eligibilities[b].maxActiveCredit
          /\ eligibilities[b].maxLtvBps > 0 =>
               drawn.collateralAmount >=
                 (drawn.principal * (BPS_DENOMINATOR - eligibilities[b].maxLtvBps))
                   \div BPS_DENOMINATOR
<1>1. TypeOK /\ [Next]_vars => [Within]_vars
  <2> SUFFICES ASSUME TypeOK, [Next]_vars, NEW u \in Users,
                      TotalConsumedCapacity(u)' > TotalConsumedCapacity(u)
               PROVE  /\ IsEligibilityValid(u)
                      /\ TotalConsumedCapacity(u)' <= eligibilities[u].maxActiveCredit
                      /\ eligibilities[u].maxLtvBps > 0 =>
                           loans'[Len(loans')].collateralAmount >=
                             (loans'[Len(loans')].principal *
                                (BPS_DENOMINATOR - eligibilities[u].maxLtvBps))
                               \div BPS_DENOMINATOR
    OBVIOUS
  <2>1. /\ TotalConsumedCapacity(u) \in Nat /\ TotalConsumedCapacity(u)' \in Nat
        /\ eligibilities[u].maxLtvBps \in Nat
    BY NextType DEF TypeOK, RegistryTypeOK, CapacityTypeOK, Eligibility, TotalConsumedCapacity
  <2>2. PICK b \in Users, o \in DOMAIN offers : Accept(b, o)
    BY <2>1, OthersDrawNothing
  <2> DEFINE principal == offerDeposits[o]
             value == offers[o].requiredCollateral
             ltv == eligibilities[u].maxLtvBps
  <2>3. principal \in Nat /\ ReserveCapacity(b, principal) /\ u = b
    BY <2>1, <2>2, AcceptEffect, ReserveWithinTerms
  <2>4. /\ loans'[Len(loans')].collateralAmount = value
        /\ loans'[Len(loans')].principal = principal
        /\ value \in Nat /\ value >= MinCollateral(u, principal)
    <3>1. /\ Len(loans') = Len(loans) + 1 /\ loans'[Len(loans) + 1] = NewLoan(b, o)
          /\ value \in Nat /\ value >= MinCollateral(b, principal)
      BY <2>2, AcceptEffect
    <3> QED
      BY <2>3, <3>1 DEF NewLoan
  <2>5. ltv > 0 => value >= (principal * (BPS_DENOMINATOR - ltv)) \div BPS_DENOMINATOR
    <3>0. BPS_DENOMINATOR \in Nat \ {0}
      BY Ratios
    <3>1. CASE BPS_DENOMINATOR > ltv
      BY <2>4, <3>1 DEF MinCollateral
    <3>2. CASE BPS_DENOMINATOR <= ltv
      <4>1. principal * (BPS_DENOMINATOR - ltv) <= 0
        BY <2>1, <2>3, <3>0, <3>2
      <4>2. (principal * (BPS_DENOMINATOR - ltv)) \div BPS_DENOMINATOR <= 0 \div BPS_DENOMINATOR
        BY <2>1, <2>3, <3>0, <4>1, DivMonotone
      <4>3. 0 \div BPS_DENOMINATOR = 0
        BY <3>0
      <4>4. (principal * (BPS_DENOMINATOR - ltv)) \div BPS_DENOMINATOR \in Int
        BY <2>1, <2>3, <3>0
      <4> QED
        BY <2>4, <4>2, <4>3, <4>4
    <3> QED
      BY <2>1, <3>0, <3>1, <3>2
  <2> QED
    BY <2>3, <2>4, <2>5, ReserveWithinTerms
<1> QED
  BY <1>1, TypeCorrect, PTL DEF Spec, DrawsWithinTerms
-----------------------------------------------------------------------------
(* Debts.                                                                  *)

\* The inductive form of ActiveLoansOwe: loans start in the past, and an
\* active one was repaid less than principal and interest up to now.
Underway(loan, time) ==
  /\ loan.startTime <= time
  /\ loan.status = "ACTIVE" => loan.repaidAmount < loan.principal + InterestAt(loan, time)

LoansUnderway == \A id \in DOMAIN loans : Underway(loans[id], now)

\* Interest depends on a loan's terms only.
LEMMA SameInterest ==
  ASSUME NEW l, NEW m, NEW t, SameTerms(l, m)
  PROVE  InterestAt(l, t) = InterestAt(m, t) /\ DueTime(l) = DueTime(m)
BY DEF SameTerms, InterestAt, DueTime

LEMMA UnderwayInit == Init => LoansUnderway
<1>1. ASSUME loans = <<>> PROVE DOMAIN loans = {}
  BY <1>1
<1> QED
  BY <1>1 DEF Init, VaultInit, LoansUnderway

\* An update of one loan keeps the others underway.
LEMMA UpdateUnderway ==
  ASSUME LoansUnderway, UNCHANGED now, NEW id \in DOMAIN loans, NEW repaid, NEW status,
         Update(id, repaid, status),
         status = "ACTIVE" => repaid < loans[id].principal + InterestAt(loans[id], now)
  PROVE  LoansUnderway'
<1> SUFFICES ASSUME NEW i \in DOMAIN loans PROVE Underway(loans'[i], now)
  BY DEF LoansUnderway, Update
<1>1. CASE i # id
  BY <1>1 DEF LoansUnderway, Update
<1>2. CASE i = id
  <2>1. SameTerms(loans'[id], loans[id])
    BY DEF Update
  <2>2. InterestAt(loans'[id], now) = InterestAt(loans[id], now)
    BY <2>1, SameInterest
  <2>3. /\ loans'[id].startTime = loans[id].startTime
        /\ loans'[id].principal = loans[id].principal
        /\ loans'[id].repaidAmount = repaid /\ loans'[id].status = status
    BY <2>1 DEF SameTerms, Update
  <2> QED
    BY <1>2, <2>2, <2>3 DEF LoansUnderway, Underway
<1> QED
  BY <1>1, <1>2

LEMMA UnderwayNext == TypeOK /\ LoansUnderway /\ [Next]_vars => LoansUnderway'
<1> SUFFICES ASSUME TypeOK, LoansUnderway, [Next]_vars PROVE LoansUnderway'
  OBVIOUS
<1>0. /\ now \in Nat /\ loans \in Seq(Loan)
      /\ \A i \in DOMAIN loans : loans[i] \in Loan
  <2>1. now \in Nat /\ loans \in Seq(Loan)
    BY DEF TypeOK, ChainTypeOK, VaultTypeOK
  <2> QED
    BY <2>1, SeqItem
<1>1. CASE PassTime
  <2>1. now' = now + 1 /\ loans' = loans
    BY <1>1 DEF PassTime, Tick
  <2>2. ASSUME NEW i \in DOMAIN loans PROVE Underway(loans[i], now + 1)
    <3>1. /\ loans[i] \in Loan /\ Underway(loans[i], now)
          /\ loans[i].startTime \in Nat /\ loans[i].repaidAmount \in Nat
          /\ loans[i].principal \in Nat
      BY <1>0 DEF LoansUnderway, Loan
    <3>2. loans[i].startTime <= now
      BY <3>1 DEF Underway
    <3>3. /\ InterestAt(loans[i], now) \in Int /\ InterestAt(loans[i], now + 1) \in Nat
          /\ InterestAt(loans[i], now) <= InterestAt(loans[i], now + 1)
      <4>1. now + 1 \in Nat /\ loans[i].startTime <= now + 1
        BY <1>0, <3>1, <3>2
      <4> QED
        BY <1>0, <3>1, <3>2, <4>1, InterestGrows
    <3> QED
      BY <1>0, <3>1, <3>2, <3>3 DEF Underway
  <2> QED
    BY <2>1, <2>2 DEF LoansUnderway
<1>2. CASE Administer \/ Trade \/ UNCHANGED vars
  <2>1. UNCHANGED <<now, loans>>
    BY <1>2 DEF Administer, Trade, vars
  <2> QED
    BY <2>1 DEF LoansUnderway
<1>3. ASSUME NEW b \in Users, NEW o \in DOMAIN offers, Accept(b, o)
      PROVE  LoansUnderway'
  <2>1. /\ DOMAIN loans' = 1 .. Len(loans) + 1 /\ DOMAIN loans = 1 .. Len(loans)
        /\ Len(loans) \in Nat /\ now' = now
        /\ \A i \in DOMAIN loans : loans'[i] = loans[i]
        /\ loans'[Len(loans) + 1] = NewLoan(b, o) /\ NewLoan(b, o) \in Loan
        /\ offerDeposits[o] \in Nat \ {0}
    BY <1>3, AcceptEffect
  <2>2. /\ NewLoan(b, o).startTime = now /\ NewLoan(b, o).repaidAmount = 0
        /\ NewLoan(b, o).principal = offerDeposits[o]
    BY DEF NewLoan
  <2>3. InterestAt(NewLoan(b, o), now) = 0
    BY <1>0, <2>1, <2>2, InterestGrows
  <2>4. Underway(NewLoan(b, o), now)
    BY <1>0, <2>1, <2>2, <2>3 DEF Underway
  <2>5. ASSUME NEW i \in DOMAIN loans' PROVE Underway(loans'[i], now')
    <3>1. CASE i \in DOMAIN loans
      BY <2>1, <3>1 DEF LoansUnderway
    <3>2. CASE i = Len(loans) + 1
      BY <2>1, <2>4, <3>2
    <3> QED
      BY <2>1, <2>5, <3>1, <3>2
  <2> QED
    BY <2>5 DEF LoansUnderway
<1>4. ASSUME NEW b \in Users, NEW id \in DOMAIN loans, NEW value \in Nat,
             Repay(b, id, value), RepayInFull(id, value)
      PROVE  LoansUnderway'
  BY <1>4, RepayInFullEffect, UpdateUnderway
<1>5. ASSUME NEW b \in Users, NEW id \in DOMAIN loans, NEW value \in Nat,
             Repay(b, id, value), RepayInPart(id, value)
      PROVE  LoansUnderway'
  <2>1. /\ loans[id] \in Loan /\ value < TotalOwed(loans[id]) /\ now' = now
        /\ Update(id, loans[id].repaidAmount + value, "ACTIVE")
    BY <1>5, RepayInPartEffect
  <2>2. /\ loans[id].repaidAmount \in Nat /\ loans[id].principal \in Nat
        /\ InterestAt(loans[id], now) \in Int
    BY <1>0, <2>1, OwedType DEF Loan
  <2>3. loans[id].repaidAmount + value < loans[id].principal + InterestAt(loans[id], now)
    BY <2>1, <2>2 DEF TotalOwed, GrossOwed
  <2> QED
    BY <2>1, <2>3, UpdateUnderway
<1>6. ASSUME NEW id \in DOMAIN loans, Default(id)
      PROVE  LoansUnderway'
  BY <1>6, DefaultEffect, UpdateUnderway
<1> QED
  BY <1>1, <1>2, <1>3, <1>4, <1>5, <1>6, StepKinds

\* No partial payment, however timed, leaves a loan paid off and yet open.
THEOREM ActiveLoansStillOwe == Spec => []ActiveLoansOwe
<1>1. TypeOK /\ LoansUnderway => ActiveLoansOwe
  <2> SUFFICES ASSUME TypeOK, LoansUnderway, NEW id \in DOMAIN loans,
                      loans[id].status = "ACTIVE"
               PROVE  TotalOwed(loans[id]) > 0
    BY DEF ActiveLoansOwe, LoansOf
  <2>1. now \in Nat /\ loans \in Seq(Loan)
    BY DEF TypeOK, ChainTypeOK, VaultTypeOK
  <2>2. loans[id] \in Loan
    BY <2>1, SeqItem
  <2>3. /\ loans[id].repaidAmount \in Nat /\ loans[id].principal \in Nat
        /\ InterestAt(loans[id], now) \in Int
    BY <2>1, <2>2, OwedType DEF Loan
  <2> QED
    BY <2>3 DEF LoansUnderway, Underway, TotalOwed, GrossOwed
<1> QED
  BY <1>1, UnderwayInit, UnderwayNext, TypeCorrect, PTL DEF Spec
-----------------------------------------------------------------------------
(* The credit history.                                                     *)

\* A record says what happened to its loan.
Tells(rec, loan) ==
  /\ rec.borrower = loan.borrower
  /\ rec.outcome = "DEFAULT" <=> loan.status = "DEFAULTED"
  /\ rec.outcome = "DEFAULT" => rec.timestamp > DueTime(loan) + DEFAULT_GRACE_PERIOD
  /\ rec.outcome = "ON_TIME" => rec.timestamp <= DueTime(loan)
  /\ rec.outcome = "LATE" => rec.timestamp > DueTime(loan)
  /\ loan.status = "REPAID" =>
       loan.repaidAmount = loan.principal + InterestAt(loan, rec.timestamp)

Ended == DOMAIN loans \ LoansOf("ACTIVE")

\* The three parts of HistoryMatchesLoans.
RecordsOfEnded == DOMAIN records = Ended
ListsOfEnded ==
  \A b \in Users :
    /\ Range(borrowerRepayments[b]) = Borrowed(b) \ LoansOf("ACTIVE")
    /\ IsInjective(borrowerRepayments[b])
RecordsTell == \A id \in DOMAIN records : Tells(records[id], loans[id])

LEMMA HistoryParts ==
  HistoryMatchesLoans <=> RecordsOfEnded /\ ListsOfEnded /\ RecordsTell
BY DEF HistoryMatchesLoans, RecordsOfEnded, ListsOfEnded, RecordsTell, Tells, Ended

LEMMA HistoryInit == Init => HistoryMatchesLoans
<1> SUFFICES ASSUME Init PROVE HistoryMatchesLoans
  OBVIOUS
<1>1. DOMAIN loans = {} /\ DOMAIN records = {}
  BY DEF Init, VaultInit, RepaymentInit
<1>2. ASSUME NEW b \in Users
      PROVE  Range(borrowerRepayments[b]) = {} /\ IsInjective(borrowerRepayments[b])
  <2>1. borrowerRepayments[b] = <<>>
    BY DEF Init, RepaymentInit
  <2>2. DOMAIN borrowerRepayments[b] = {}
    BY <2>1
  <2> QED
    BY <2>2 DEF Range, IsInjective
<1> QED
  BY <1>1, <1>2, HistoryParts
  DEF RecordsOfEnded, ListsOfEnded, RecordsTell, Ended, Borrowed, LoansOf

\* An outcome that is right for the way in which loan id ends now.
TruthfulEnd(id, repaid, status, outcome) ==
  /\ status # "ACTIVE"
  /\ outcome = "DEFAULT" <=> status = "DEFAULTED"
  /\ outcome = "DEFAULT" => PastGrace(loans[id])
  /\ outcome = "ON_TIME" => now <= DueTime(loans[id])
  /\ outcome = "LATE" => now > DueTime(loans[id])
  /\ status = "REPAID" => repaid = loans[id].principal + InterestAt(loans[id], now)

\* A loan that ends is added to the history by the same transaction.
LEMMA EndIsRecorded ==
  ASSUME TypeOK, HistoryMatchesLoans, NEW id \in DOMAIN loans, loans[id].status = "ACTIVE",
         NEW repaid, NEW status, Update(id, repaid, status),
         NEW amount, NEW outcome, RecordRepayment(id, loans[id].borrower, amount, outcome),
         TruthfulEnd(id, repaid, status, outcome)
  PROVE  HistoryMatchesLoans'
<1>0. RecordsOfEnded /\ ListsOfEnded /\ RecordsTell
  BY HistoryParts
<1>1. /\ DOMAIN loans' = DOMAIN loans
      /\ \A i \in DOMAIN loans : SameTerms(loans'[i], loans[i])
      /\ \A i \in DOMAIN loans \ {id} : loans'[i] = loans[i]
      /\ loans'[id].status = status /\ loans'[id].repaidAmount = repaid
  BY DEF Update, SameTerms
<1>2. /\ id \notin DOMAIN records /\ DOMAIN records' = DOMAIN records \cup {id}
      /\ \A i \in DOMAIN records : records'[i] = records[i]
      /\ records'[id] = [borrower |-> loans[id].borrower, amount |-> amount,
                         timestamp |-> now, outcome |-> outcome]
  BY DEF RecordRepayment
<1>3. RecordsOfEnded'
  BY <1>0, <1>1, <1>2 DEF RecordsOfEnded, Ended, LoansOf, TruthfulEnd
<1>4. RecordsTell'
  <2>1. ASSUME NEW i \in DOMAIN records PROVE Tells(records'[i], loans'[i])
    BY <1>0, <1>1, <1>2 DEF RecordsTell, RecordsOfEnded, Ended
  <2>2. Tells(records'[id], loans'[id])
    <3>1. SameTerms(loans'[id], loans[id])
      BY <1>1
    <3>2. /\ InterestAt(loans'[id], now) = InterestAt(loans[id], now)
          /\ DueTime(loans'[id]) = DueTime(loans[id])
      BY <3>1, SameInterest
    <3>3. /\ records'[id].borrower = loans[id].borrower /\ records'[id].timestamp = now
          /\ records'[id].outcome = outcome
      BY <1>2
    <3> QED
      BY <1>1, <3>1, <3>2, <3>3 DEF Tells, SameTerms, PastGrace, TruthfulEnd
  <2> QED
    BY <1>2, <2>1, <2>2 DEF RecordsTell
<1>5. ListsOfEnded'
  <2> SUFFICES ASSUME NEW b \in Users
               PROVE  /\ Range(borrowerRepayments'[b]) = (Borrowed(b) \ LoansOf("ACTIVE"))'
                      /\ IsInjective(borrowerRepayments'[b])
    BY DEF ListsOfEnded
  <2> DEFINE list == borrowerRepayments[b]
  <2>1. /\ list \in Seq(Nat) /\ borrowerRepayments \in [Users -> Seq(Nat)] /\ id \in Nat
        /\ Range(list) = Borrowed(b) \ LoansOf("ACTIVE") /\ IsInjective(list)
    <3>1. loans \in Seq(Loan)
      BY DEF TypeOK, VaultTypeOK
    <3> QED
      BY <1>0, <3>1, SeqItem DEF TypeOK, RepaymentTypeOK, ListsOfEnded
  <2>2. CASE loans[id].borrower # b
    <3>1. borrowerRepayments'[b] = list
      BY <2>1, <2>2 DEF RecordRepayment
    <3>2. (Borrowed(b) \ LoansOf("ACTIVE"))' = Borrowed(b) \ LoansOf("ACTIVE")
      BY <1>1, <2>2 DEF Borrowed, LoansOf, SameTerms
    <3> QED
      BY <2>1, <3>1, <3>2
  <2>3. CASE loans[id].borrower = b
    <3>1. borrowerRepayments'[b] = Append(list, id)
      BY <2>1, <2>3 DEF RecordRepayment
    <3>2. /\ Len(list) \in Nat /\ DOMAIN list = 1 .. Len(list)
          /\ DOMAIN Append(list, id) = 1 .. Len(list) + 1
          /\ \A i \in 1 .. Len(list) : Append(list, id)[i] = list[i]
          /\ Append(list, id)[Len(list) + 1] = id
      BY <2>1, AppendProperties, LenProperties
    <3>3. (Borrowed(b) \ LoansOf("ACTIVE"))' = (Borrowed(b) \ LoansOf("ACTIVE")) \cup {id}
      BY <1>1, <2>3 DEF Borrowed, LoansOf, SameTerms, TruthfulEnd
    <3>4. Range(Append(list, id)) = Range(list) \cup {id}
      BY <3>2 DEF Range
    <3>5. id \notin Range(list)
      BY <2>1 DEF LoansOf
    <3>6. IsInjective(Append(list, id))
      BY <2>1, <3>2, <3>5 DEF IsInjective, Range
    <3> QED
      BY <2>1, <3>1, <3>3, <3>4, <3>6
  <2> QED
    BY <2>2, <2>3
<1> QED
  BY <1>3, <1>4, <1>5, HistoryParts, PTL

LEMMA HistoryNext ==
  TypeOK /\ LoansUnderway /\ HistoryMatchesLoans /\ [Next]_vars => HistoryMatchesLoans'
<1> SUFFICES ASSUME TypeOK, LoansUnderway, HistoryMatchesLoans, [Next]_vars
             PROVE  HistoryMatchesLoans'
  OBVIOUS
<1>0. RecordsOfEnded /\ ListsOfEnded /\ RecordsTell
  BY HistoryParts
<1>1. CASE UNCHANGED <<loans, capacityVars, repaymentVars>>
  BY <1>1 DEF HistoryMatchesLoans, repaymentVars, Borrowed, LoansOf
<1>2. ASSUME NEW b \in Users, NEW o \in DOMAIN offers, Accept(b, o)
      PROVE  HistoryMatchesLoans'
  <2>1. /\ DOMAIN loans' = DOMAIN loans \cup {Len(loans) + 1}
        /\ Len(loans) + 1 \notin DOMAIN loans
        /\ \A i \in DOMAIN loans : loans'[i] = loans[i]
        /\ loans'[Len(loans) + 1].status = "ACTIVE"
        /\ UNCHANGED <<records, borrowerRepayments>>
    <3>1. /\ DOMAIN loans = 1 .. Len(loans) /\ DOMAIN loans' = 1 .. Len(loans) + 1
          /\ Len(loans) \in Nat /\ loans'[Len(loans) + 1] = NewLoan(b, o)
          /\ \A i \in DOMAIN loans : loans'[i] = loans[i]
          /\ UNCHANGED repaymentVars
      BY <1>2, AcceptEffect
    <3> QED
      BY <3>1 DEF NewLoan, repaymentVars
  <2>2. Ended' = Ended
    BY <2>1 DEF Ended, LoansOf
  <2>3. ASSUME NEW u \in Users
        PROVE  (Borrowed(u) \ LoansOf("ACTIVE"))' = Borrowed(u) \ LoansOf("ACTIVE")
    BY <2>1 DEF Borrowed, LoansOf
  <2>4. Ended \subseteq DOMAIN loans
    BY DEF Ended
  <2>5. RecordsOfEnded' /\ ListsOfEnded'
    BY <1>0, <2>1, <2>2, <2>3 DEF RecordsOfEnded, ListsOfEnded
  <2>6. RecordsTell'
    BY <1>0, <2>1, <2>4 DEF RecordsTell, RecordsOfEnded
  <2> QED
    BY <2>5, <2>6, HistoryParts, PTL
<1>3. ASSUME NEW b \in Users, NEW id \in DOMAIN loans, NEW value \in Nat,
             Repay(b, id, value), RepayInFull(id, value)
      PROVE  HistoryMatchesLoans'
  <2>1. /\ loans[id] \in Loan /\ loans[id].status = "ACTIVE" /\ now \in Nat
        /\ Update(id, loans[id].repaidAmount + TotalOwed(loans[id]), "REPAID")
        /\ RecordRepayment(id, loans[id].borrower, TotalOwed(loans[id]),
              IF now <= DueTime(loans[id]) THEN "ON_TIME" ELSE "LATE")
    BY <1>3, RepayInFullEffect DEF TypeOK, ChainTypeOK
  <2>2. /\ loans[id].repaidAmount \in Nat /\ loans[id].principal \in Nat
        /\ InterestAt(loans[id], now) \in Int /\ DueTime(loans[id]) \in Nat
    BY <2>1, OwedType DEF Loan, DueTime
  <2>3. loans[id].repaidAmount + TotalOwed(loans[id])
          = loans[id].principal + InterestAt(loans[id], now)
    BY <2>1, <2>2 DEF LoansUnderway, Underway, TotalOwed, GrossOwed
  <2> DEFINE repaid == loans[id].repaidAmount + TotalOwed(loans[id])
             owed == TotalOwed(loans[id])
  <2>4. /\ loans[id].status = "ACTIVE" /\ Update(id, repaid, "REPAID")
        /\ repaid = loans[id].principal + InterestAt(loans[id], now)
    BY <2>1, <2>3
  <2> HIDE DEF repaid, owed
  <2>5. CASE now <= DueTime(loans[id])
    <3>1. RecordRepayment(id, loans[id].borrower, owed, "ON_TIME")
      BY <2>1, <2>5 DEF owed
    <3>2. TruthfulEnd(id, repaid, "REPAID", "ON_TIME")
      BY <2>5, <2>4 DEF TruthfulEnd
    <3> QED
      BY <2>4, <3>1, <3>2, EndIsRecorded
  <2>6. CASE now > DueTime(loans[id])
    <3>1. RecordRepayment(id, loans[id].borrower, owed, "LATE")
      BY <2>1, <2>2, <2>6 DEF owed
    <3>2. TruthfulEnd(id, repaid, "REPAID", "LATE")
      BY <2>6, <2>4 DEF TruthfulEnd
    <3> QED
      BY <2>4, <3>1, <3>2, EndIsRecorded
  <2> QED
    BY <2>1, <2>2, <2>5, <2>6
<1>4. ASSUME NEW b \in Users, NEW id \in DOMAIN loans, NEW value \in Nat,
             Repay(b, id, value), RepayInPart(id, value)
      PROVE  HistoryMatchesLoans'
  <2>1. /\ loans[id].status = "ACTIVE" /\ Update(id, loans[id].repaidAmount + value, "ACTIVE")
        /\ UNCHANGED <<records, borrowerRepayments>>
    BY <1>4, RepayInPartEffect DEF repaymentVars
  <2>2. /\ DOMAIN loans' = DOMAIN loans
        /\ \A i \in DOMAIN loans : SameTerms(loans'[i], loans[i])
        /\ \A i \in DOMAIN loans \ {id} : loans'[i] = loans[i]
        /\ loans'[id].status = "ACTIVE"
    BY <2>1 DEF Update, SameTerms
  <2>3. Ended' = Ended /\ id \notin Ended /\ Ended \subseteq DOMAIN loans
    BY <2>1, <2>2 DEF Ended, LoansOf
  <2>4. ASSUME NEW u \in Users
        PROVE  (Borrowed(u) \ LoansOf("ACTIVE"))' = Borrowed(u) \ LoansOf("ACTIVE")
    BY <2>1, <2>2 DEF Borrowed, LoansOf, SameTerms
  <2>5. RecordsOfEnded' /\ ListsOfEnded'
    BY <1>0, <2>1, <2>3, <2>4 DEF RecordsOfEnded, ListsOfEnded
  <2>6. RecordsTell'
    BY <1>0, <2>1, <2>2, <2>3 DEF RecordsTell, RecordsOfEnded
  <2> QED
    BY <2>5, <2>6, HistoryParts, PTL
<1>5. ASSUME NEW id \in DOMAIN loans, Default(id)
      PROVE  HistoryMatchesLoans'
  <2>1. /\ loans[id].status = "ACTIVE" /\ PastGrace(loans[id])
        /\ Update(id, loans[id].repaidAmount, "DEFAULTED")
        /\ RecordRepayment(id, loans[id].borrower, 0, "DEFAULT")
    BY <1>5, DefaultEffect
  <2>2. TruthfulEnd(id, loans[id].repaidAmount, "DEFAULTED", "DEFAULT")
    BY <2>1 DEF TruthfulEnd
  <2> QED
    BY <2>1, <2>2, EndIsRecorded
<1> QED
  BY <1>1, <1>2, <1>3, <1>4, <1>5, StepKinds, QuietSteps

\* The credit history records each ended loan once, and tells the truth.
THEOREM HistoryIsTrue == Spec => []HistoryMatchesLoans
BY HistoryInit, HistoryNext, UnderwayInit, UnderwayNext, TypeCorrect, PTL DEF Spec
-----------------------------------------------------------------------------
(* Sums over loans. Every transaction touches at most one loan, so a sum   *)
(* moves by what that loan adds to it, before and after (SumChange).       *)

\* Loan i may change or be new; no other does.
Touches(i) ==
  /\ DOMAIN loans' = DOMAIN loans \cup {i}
  /\ \A j \in DOMAIN loans \ {i} : loans'[j] = loans[j]

LEMMA UpdateTouches ==
  ASSUME NEW id \in DOMAIN loans, NEW repaid, NEW status, Update(id, repaid, status)
  PROVE  Touches(id) /\ id \in DOMAIN loans'
BY DEF Update, Touches

LEMMA AcceptTouches ==
  ASSUME TypeOK, NEW b \in Users, NEW o \in DOMAIN offers, Accept(b, o)
  PROVE  \E n : /\ Touches(n) /\ n \notin DOMAIN loans /\ n \in DOMAIN loans'
                /\ loans'[n] = NewLoan(b, o)
<1>1. /\ Len(loans) \in Nat
      /\ DOMAIN loans = 1 .. Len(loans) /\ DOMAIN loans' = 1 .. Len(loans) + 1
      /\ \A i \in DOMAIN loans : loans'[i] = loans[i]
      /\ loans'[Len(loans) + 1] = NewLoan(b, o)
  BY AcceptEffect
<1>2. /\ DOMAIN loans' = DOMAIN loans \cup {Len(loans) + 1}
      /\ Len(loans) + 1 \notin DOMAIN loans
  BY <1>1
<1> QED
  BY <1>1, <1>2 DEF Touches

\* Loans are finitely many, and what is summed over them are numbers.
LEMMA LoanNumbers ==
  ASSUME NEW ls \in Seq(Loan), NEW S, S \subseteq DOMAIN ls
  PROVE  /\ IsFiniteSet(S)
         /\ \A i \in S : /\ ls[i].principal \in Nat /\ ls[i].collateralAmount \in Nat
                         /\ ls[i].repaidAmount \in Nat
<1>1. IsFiniteSet(S)
  BY FinitePositions
<1>2. \A i \in S : ls[i] \in Loan
  BY ElementOfSeq, LenProperties
<1>3. \A l \in Loan : /\ l.principal \in Nat /\ l.collateralAmount \in Nat
                      /\ l.repaidAmount \in Nat
  BY DEF Loan
<1> QED
  BY <1>1, <1>2, <1>3

LEMMA LoanSums ==
  ASSUME NEW ls \in Seq(Loan), NEW S, S \subseteq DOMAIN ls
  PROVE  /\ Sum([i \in DOMAIN ls |-> ls[i].principal], S) \in Nat
         /\ Sum([i \in DOMAIN ls |-> ls[i].collateralAmount], S) \in Nat
         /\ Sum([i \in DOMAIN ls |-> ls[i].principal - ls[i].repaidAmount], S) \in Int
<1> DEFINE P == [i \in DOMAIN ls |-> ls[i].principal]
           C == [i \in DOMAIN ls |-> ls[i].collateralAmount]
           O == [i \in DOMAIN ls |-> ls[i].principal - ls[i].repaidAmount]
<1>1. /\ IsFiniteSet(S)
      /\ \A i \in S : P[i] \in Nat /\ C[i] \in Nat /\ O[i] \in Int
  <2>1. IsFiniteSet(S)
    BY LoanNumbers
  <2>2. ASSUME NEW i \in S PROVE P[i] \in Nat /\ C[i] \in Nat /\ O[i] \in Int
    <3>1. /\ ls[i].principal \in Nat /\ ls[i].collateralAmount \in Nat
          /\ ls[i].repaidAmount \in Nat /\ i \in DOMAIN ls
      BY LoanNumbers
    <3> QED
      BY <3>1
  <2> QED
    BY <2>1, <2>2
<1> HIDE DEF P, C, O
<1>2. Sum(P, S) \in Nat /\ Sum(C, S) \in Nat /\ Sum(O, S) \in Int
  BY <1>1, SumNatural, SumType DEF Sum
<1> QED
  BY <1>2 DEF P, C, O

LEMMA LoanSumChange ==
  ASSUME TypeOK, TypeOK', NEW i, Touches(i),
         NEW S, S \subseteq DOMAIN loans, NEW T, T \subseteq DOMAIN loans', S \ {i} = T \ {i}
  PROVE  /\ Sum(Principals', T) =
              Sum(Principals, S) - Share(Principals, S, i) + Share(Principals', T, i)
         /\ Sum(Collateral', T) =
              Sum(Collateral, S) - Share(Collateral, S, i) + Share(Collateral', T, i)
         /\ Sum(Outstanding', T) =
              Sum(Outstanding, S) - Share(Outstanding, S, i) + Share(Outstanding', T, i)
<1>1. loans \in Seq(Loan) /\ loans' \in Seq(Loan)
  BY DEF TypeOK, VaultTypeOK
<1>2. /\ IsFiniteSet(S) /\ IsFiniteSet(T)
      /\ \A y \in S : /\ Principals[y] \in Int /\ Collateral[y] \in Int
                      /\ Outstanding[y] \in Int
  <2>1. /\ IsFiniteSet(S) /\ IsFiniteSet(T)
        /\ \A y \in S : /\ loans[y].principal \in Nat /\ loans[y].collateralAmount \in Nat
                        /\ loans[y].repaidAmount \in Nat
    BY <1>1, LoanNumbers
  <2> QED
    BY <2>1 DEF Principals, Collateral, Outstanding
<1>3. \A y \in T : /\ Principals'[y] \in Int /\ Collateral'[y] \in Int
                   /\ Outstanding'[y] \in Int
  <2>1. \A y \in T : /\ loans'[y].principal \in Nat /\ loans'[y].collateralAmount \in Nat
                     /\ loans'[y].repaidAmount \in Nat
    BY <1>1, LoanNumbers
  <2> QED
    BY <2>1 DEF Principals, Collateral, Outstanding
<1>4. \A y \in S \ {i} : /\ Principals'[y] = Principals[y] /\ Collateral'[y] = Collateral[y]
                         /\ Outstanding'[y] = Outstanding[y]
  BY DEF Principals, Collateral, Outstanding, Touches
<1> DEFINE p == Principals
           q == Principals'
           c == Collateral
           d == Collateral'
           f == Outstanding
           g == Outstanding'
<1> HIDE DEF p, q, c, d, f, g
<1>5. Sum(q, T) = Sum(p, S) - Share(p, S, i) + Share(q, T, i)
  BY <1>2, <1>3, <1>4, SumChange DEF p, q, Sum
<1>6. Sum(d, T) = Sum(c, S) - Share(c, S, i) + Share(d, T, i)
  BY <1>2, <1>3, <1>4, SumChange DEF c, d, Sum
<1>7. Sum(g, T) = Sum(f, S) - Share(f, S, i) + Share(g, T, i)
  BY <1>2, <1>3, <1>4, SumChange DEF f, g, Sum
<1> QED
  BY <1>5, <1>6, <1>7 DEF p, q, c, d, f, g
-----------------------------------------------------------------------------
(* The capacity counters.                                                  *)

Drawn(b) == Sum(Principals, Borrowed(b) \cap LoansOf("ACTIVE"))
Lost(b) == Sum(Principals, Borrowed(b) \cap LoansOf("DEFAULTED"))

\* What one loan adds to the sum of its borrower's loans with the given status.
Counted(b, status, l) == IF l.borrower = b /\ l.status = status THEN l.principal ELSE 0

LEMMA DrawnChange ==
  ASSUME TypeOK, TypeOK', NEW i, Touches(i), i \in DOMAIN loans', NEW b
  PROVE  /\ Drawn(b) \in Nat /\ Lost(b) \in Nat
         /\ i \in DOMAIN loans =>
              /\ Drawn(b)' = Drawn(b) - Counted(b, "ACTIVE", loans[i])
                               + Counted(b, "ACTIVE", loans'[i])
              /\ Lost(b)' = Lost(b) - Counted(b, "DEFAULTED", loans[i])
                              + Counted(b, "DEFAULTED", loans'[i])
         /\ i \notin DOMAIN loans =>
              /\ Drawn(b)' = Drawn(b) + Counted(b, "ACTIVE", loans'[i])
              /\ Lost(b)' = Lost(b) + Counted(b, "DEFAULTED", loans'[i])
<1> DEFINE S(status) == Borrowed(b) \cap LoansOf(status)
<1>1. loans \in Seq(Loan)
  BY DEF TypeOK, VaultTypeOK
<1>2. ASSUME NEW status
      PROVE  /\ S(status) \subseteq DOMAIN loans /\ S(status)' \subseteq DOMAIN loans'
             /\ S(status) \ {i} = S(status)' \ {i}
             /\ i \in DOMAIN loans =>
                  Share(Principals, S(status), i) = Counted(b, status, loans[i])
             /\ i \notin DOMAIN loans => Share(Principals, S(status), i) = 0
             /\ Share(Principals', S(status)', i) = Counted(b, status, loans'[i])
  BY DEF Borrowed, LoansOf, Touches, Share, Principals, Counted
<1>3. Drawn(b) \in Nat /\ Lost(b) \in Nat
  <2>1. ASSUME NEW status PROVE Sum(Principals, S(status)) \in Nat
    BY <1>1, <1>2, LoanSums DEF Principals
  <2> QED
    BY <2>1 DEF Drawn, Lost
<1>4. ASSUME NEW status
      PROVE  Sum(Principals', S(status)') =
               Sum(Principals, S(status)) - Share(Principals, S(status), i)
                 + Share(Principals', S(status)', i)
  BY <1>2, LoanSumChange
<1>5. /\ Drawn(b)' = Drawn(b) - Share(Principals, S("ACTIVE"), i)
                       + Share(Principals', S("ACTIVE")', i)
      /\ Lost(b)' = Lost(b) - Share(Principals, S("DEFAULTED"), i)
                      + Share(Principals', S("DEFAULTED")', i)
  BY <1>4 DEF Drawn, Lost
<1> HIDE DEF S
<1> QED
  BY <1>2, <1>3, <1>5

\* The invariant, with the sums named.
Counts ==
  \A b \in Users : usedCapacity[b] = Drawn(b) /\ defaultedLockedCapacity[b] = Lost(b)

LEMMA CountsIs == CapacityMatchesLoans <=> Counts
BY DEF CapacityMatchesLoans, Counts, Drawn, Lost

LEMMA CountsInit == Init => Counts
<1> SUFFICES ASSUME Init, NEW b \in Users
             PROVE  usedCapacity[b] = Drawn(b) /\ defaultedLockedCapacity[b] = Lost(b)
  BY DEF Counts
<1>1. DOMAIN loans = {}
  BY DEF Init, VaultInit
<1>2. Borrowed(b) = {}
  BY <1>1 DEF Borrowed
<1>3. Borrowed(b) \cap LoansOf("ACTIVE") = {} /\ Borrowed(b) \cap LoansOf("DEFAULTED") = {}
  BY <1>2
<1>4. Drawn(b) = 0 /\ Lost(b) = 0
  BY <1>3, SumEmpty, Zenon DEF Drawn, Lost, Sum
<1> QED
  BY <1>4 DEF Init, CapacityInit

LEMMA CountsNext == TypeOK /\ Counts /\ [Next]_vars => Counts'
<1> SUFFICES ASSUME TypeOK, Counts, [Next]_vars, NEW u \in Users
             PROVE  usedCapacity'[u] = Drawn(u)' /\ defaultedLockedCapacity'[u] = Lost(u)'
  BY DEF Counts
<1>0. /\ TypeOK' /\ usedCapacity \in [Users -> Nat] /\ defaultedLockedCapacity \in [Users -> Nat]
      /\ usedCapacity[u] = Drawn(u) /\ defaultedLockedCapacity[u] = Lost(u)
  BY NextType DEF TypeOK, CapacityTypeOK, Counts
<1>1. CASE UNCHANGED <<loans, capacityVars, repaymentVars>>
  BY <1>0, <1>1 DEF capacityVars, Drawn, Lost, Principals, Borrowed, LoansOf
<1>2. ASSUME NEW b \in Users, NEW o \in DOMAIN offers, Accept(b, o)
      PROVE  usedCapacity'[u] = Drawn(u)' /\ defaultedLockedCapacity'[u] = Lost(u)'
  <2>1. PICK n : /\ Touches(n) /\ n \notin DOMAIN loans /\ n \in DOMAIN loans'
                 /\ loans'[n] = NewLoan(b, o)
    BY <1>2, AcceptTouches
  <2>2. /\ Counted(u, "ACTIVE", loans'[n]) = (IF u = b THEN offerDeposits[o] ELSE 0)
        /\ Counted(u, "DEFAULTED", loans'[n]) = 0
    BY <2>1 DEF Counted, NewLoan
  <2>3. offerDeposits[o] \in Nat /\ ReserveCapacity(b, offerDeposits[o])
    BY <1>2, AcceptEffect
  <2>4. /\ usedCapacity'[u] = usedCapacity[u] + (IF u = b THEN offerDeposits[o] ELSE 0)
        /\ defaultedLockedCapacity'[u] = defaultedLockedCapacity[u]
    BY <1>0, <2>3 DEF ReserveCapacity
  <2>5. /\ Drawn(u)' = Drawn(u) + Counted(u, "ACTIVE", loans'[n])
        /\ Lost(u)' = Lost(u) + Counted(u, "DEFAULTED", loans'[n])
        /\ Drawn(u) \in Nat /\ Lost(u) \in Nat
    BY <1>0, <2>1, DrawnChange
  <2> QED
    BY <1>0, <2>2, <2>4, <2>5
<1>3. ASSUME NEW id \in DOMAIN loans, loans[id] \in Loan, loans[id].status = "ACTIVE",
             NEW repaid, NEW status, Update(id, repaid, status),
             \/ status = "ACTIVE" /\ UNCHANGED capacityVars
             \/ status = "REPAID" /\ ReleaseCapacity(loans[id].borrower, loans[id].principal)
             \/ /\ status = "DEFAULTED"
                /\ LockDefaultedCapacity(loans[id].borrower, loans[id].principal)
      PROVE  usedCapacity'[u] = Drawn(u)' /\ defaultedLockedCapacity'[u] = Lost(u)'
  <2> DEFINE b == loans[id].borrower
             p == loans[id].principal
  <2>1. Touches(id) /\ id \in DOMAIN loans'
    BY <1>3, UpdateTouches
  <2>2. b \in Users /\ p \in Nat
    BY <1>3 DEF Loan
  <2>3. /\ Counted(u, "ACTIVE", loans[id]) = (IF u = b THEN p ELSE 0)
        /\ Counted(u, "DEFAULTED", loans[id]) = 0
        /\ Counted(u, "ACTIVE", loans'[id]) = (IF u = b /\ status = "ACTIVE" THEN p ELSE 0)
        /\ Counted(u, "DEFAULTED", loans'[id]) =
             (IF u = b /\ status = "DEFAULTED" THEN p ELSE 0)
    BY <1>3 DEF Update, SameTerms, Counted
  <2>4. /\ Drawn(u)' = Drawn(u) - Counted(u, "ACTIVE", loans[id])
                         + Counted(u, "ACTIVE", loans'[id])
        /\ Lost(u)' = Lost(u) - Counted(u, "DEFAULTED", loans[id])
                        + Counted(u, "DEFAULTED", loans'[id])
        /\ Drawn(u) \in Nat /\ Lost(u) \in Nat
    BY <1>0, <2>1, DrawnChange
  <2>5. /\ usedCapacity'[u] =
             usedCapacity[u] - (IF u = b /\ status # "ACTIVE" THEN p ELSE 0)
        /\ defaultedLockedCapacity'[u] =
             defaultedLockedCapacity[u] + (IF u = b /\ status = "DEFAULTED" THEN p ELSE 0)
    <3> HIDE DEF p
    <3>1. CASE status = "ACTIVE" /\ UNCHANGED capacityVars
      BY <1>0, <3>1 DEF capacityVars
    <3>2. CASE status = "REPAID" /\ ReleaseCapacity(b, p)
      BY <1>0, <2>2, <3>2 DEF ReleaseCapacity
    <3>3. CASE status = "DEFAULTED" /\ LockDefaultedCapacity(b, p)
      BY <1>0, <2>2, <3>3 DEF LockDefaultedCapacity
    <3> QED
      BY <1>3, <3>1, <3>2, <3>3 DEF p
  <2> HIDE DEF b, p
  <2>6. CASE u # b
    BY <1>0, <2>3, <2>4, <2>5, <2>6
  <2>7. CASE u = b
    BY <1>0, <1>3, <2>2, <2>3, <2>4, <2>5, <2>7
  <2> QED
    BY <2>6, <2>7
<1>4. ASSUME NEW b \in Users, NEW id \in DOMAIN loans, NEW value \in Nat,
             Repay(b, id, value), RepayInFull(id, value) \/ RepayInPart(id, value)
      PROVE  usedCapacity'[u] = Drawn(u)' /\ defaultedLockedCapacity'[u] = Lost(u)'
  BY <1>3, <1>4, RepayInFullEffect, RepayInPartEffect DEF capacityVars
<1>5. ASSUME NEW id \in DOMAIN loans, Default(id)
      PROVE  usedCapacity'[u] = Drawn(u)' /\ defaultedLockedCapacity'[u] = Lost(u)'
  BY <1>3, <1>5, DefaultEffect
<1> QED
  BY <1>1, <1>2, <1>4, <1>5, StepKinds, QuietSteps

\* No capacity leaks and none is freed twice: whatever the order of draws,
\* repayments and defaults, the counters are the sums of the loans behind them.
THEOREM CapacityIsCounted == Spec => []CapacityMatchesLoans
BY CountsIs, CountsInit, CountsNext, TypeCorrect, PTL DEF Spec
=============================================================================
