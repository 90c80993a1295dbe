--------------------------- MODULE PrivateCredit ---------------------------
(***************************************************************************)
(* The lending contracts as ignition/modules/PrivateCredit.ts deploys and  *)
(* wires them: registry, capacity manager, repayment registry, vault and   *)
(* marketplace, with every transaction an account can send to them, in any *)
(* order and at any time.                                                  *)
(***************************************************************************)
EXTENDS LoanMarketplace, Functions

CONSTANTS
  Applicants,   \* users who may be registered as borrowers
  Grants,       \* registrations: [tier, credit, ltv]
  Lifetimes,    \* how long a registration may be valid
  Amounts, Aprs, Durations, Collaterals,  \* terms of requests and offers
  Payments,     \* amounts a borrower repays
  InitialWallet \* what every account starts with

CONSTANTS  \* bounds that keep an instance finite
  MaxTime, MaxNonce, MaxRequests, MaxOffers

ASSUME Inputs ==
  /\ Applicants \subseteq Users
  /\ Grants \subseteq [tier : RiskTier, credit : Nat, ltv : Nat]
  /\ Lifetimes \subseteq Nat
  /\ Amounts \subseteq Nat /\ Aprs \subseteq Nat
  /\ Durations \subseteq Nat /\ Collaterals \subseteq Nat
  /\ Payments \subseteq Nat /\ InitialWallet \in Nat

vars == <<now, balance, registryVars, capacityVars, repaymentVars, loans, marketVars>>

TypeOK ==
  /\ ChainTypeOK
  /\ RegistryTypeOK
  /\ CapacityTypeOK
  /\ RepaymentTypeOK
  /\ VaultTypeOK
  /\ MarketTypeOK

Init ==
  /\ now = 0
  /\ balance = [a \in Users \cup Contracts |-> IF a \in Users THEN InitialWallet ELSE 0]
  /\ RegistryInit
  /\ CapacityInit
  /\ RepaymentInit
  /\ VaultInit
  /\ MarketInit
-----------------------------------------------------------------------------
PassTime ==
  /\ now < MaxTime
  /\ Tick
  /\ UNCHANGED <<balance, registryVars, capacityVars, repaymentVars, loans, marketVars>>

\* The registry's own transactions.
Administer ==
  /\ \/ \E r \in Registrars : SetRegistrar(Owner, r)
     \/ \E b \in Applicants, grant \in Grants, life \in Lifetimes,
           e \in Evidence \cup {NoEvidence} :
          /\ nonces[b] < MaxNonce
          /\ RegisterEligibility(registrar, b, grant.tier, grant.credit, grant.ltv,
                                 now + life, e)
     \/ \E caller \in Registrars \cup {Owner}, b \in Applicants : RevokeEligibility(caller, b)
  /\ UNCHANGED <<now, balance, capacityVars, repaymentVars, loans, marketVars>>

\* Marketplace transactions that do not reach the vault.
Trade ==
  /\ \/ \E b \in Users, amount \in Amounts, apr \in Aprs, duration \in Durations :
          /\ Len(requests) < MaxRequests
          /\ CreateBorrowRequest(b, amount, apr, duration)
     \/ \E b \in Users, r \in DOMAIN requests : CancelBorrowRequest(b, r)
     \/ \E lender \in Users, r \in DOMAIN requests, apr \in Aprs,
           duration \in Durations, collateral \in Collaterals :
          /\ Len(offers) < MaxOffers
          /\ CreateLenderOffer(lender, r, apr, duration, collateral, requests[r].amount)
     \/ \E lender \in Users, o \in DOMAIN offers : WithdrawOffer(lender, o)
  /\ UNCHANGED <<now, registryVars, capacityVars, repaymentVars, loans>>

Accept(b, o) ==
  /\ AcceptOffer(b, o, offers[o].requiredCollateral)
  /\ UNCHANGED <<now, registryVars, repaymentVars>>

Repay(b, id, value) ==
  /\ RepayLoan(b, id, value)
  /\ UNCHANGED <<now, registryVars, marketVars>>

Default(id) ==
  /\ DeclareDefault(id)
  /\ UNCHANGED <<now, registryVars, marketVars>>

Next ==
  \/ PassTime
  \/ Administer
  \/ Trade
  \/ \E b \in Users, o \in DOMAIN offers : Accept(b, o)
  \/ \E b \in Users, id \in DOMAIN loans, value \in Payments : Repay(b, id, value)
  \/ \E id \in DOMAIN loans : Default(id)

Spec == Init /\ [][Next]_vars
-----------------------------------------------------------------------------
(* Safety: what the contracts' books say of each other and of the money.   *)

Sum(f, S) == SumFunctionOnSet(f, S)
Principals == [id \in DOMAIN loans |-> loans[id].principal]
Collateral == [id \in DOMAIN loans |-> loans[id].collateralAmount]
Outstanding == [id \in DOMAIN loans |-> loans[id].principal - loans[id].repaidAmount]
Borrowed(b) == {id \in DOMAIN loans : loans[id].borrower = b}
Lent(u) == {id \in DOMAIN loans : loans[id].lender = u}
OffersAt(status) == {o \in DOMAIN offers : offers[o].status = status}

\* Both contracts that hold money can always pay everything they hold it
\* for: the marketplace the deposit of every pending offer, the vault the
\* collateral of every active loan - and neither keeps a remainder.
EscrowCovered ==
  /\ balance["MARKETPLACE"] = Sum(offerDeposits, OffersAt("PENDING"))
  /\ balance["VAULT"] = Sum(Collateral, LoansOf("ACTIVE"))

\* Nobody's money goes astray: what an account has is what it started with,
\* less its pending deposits, less what it lent and was not repaid, plus the
\* collateral it seized; plus what it borrowed and did not repay, less the
\* collateral it has not got back.
WalletsMatchBooks ==
  \A u \in Users :
    balance[u] = InitialWallet
      - Sum(offerDeposits, {o \in OffersAt("PENDING") : offers[o].lender = u})
      - Sum(Outstanding, Lent(u))
      + Sum(Collateral, Lent(u) \cap LoansOf("DEFAULTED"))
      + Sum(Outstanding, Borrowed(u))
      - Sum(Collateral, Borrowed(u) \ LoansOf("REPAID"))

\* The capacity manager's counters are exactly the borrower's active and
\* defaulted principal, so no sequence of draws, repayments and defaults
\* leaves capacity leaked or freed twice.
CapacityMatchesLoans ==
  \A b \in Users :
    /\ usedCapacity[b] = Sum(Principals, Borrowed(b) \cap LoansOf("ACTIVE"))
    /\ defaultedLockedCapacity[b] = Sum(Principals, Borrowed(b) \cap LoansOf("DEFAULTED"))

\* Whatever terms a borrower was given, had revoked and was given again, its
\* active and defaulted principal never passes the most any tier allows; and
\* its terms never grant more than their own tier does.
ExposureBounded ==
  \A b \in Users :
    /\ TotalConsumedCapacity(b) <= LOW_RISK_MAX_CREDIT
    /\ eligibilities[b].maxActiveCredit <= TierMaxCredit[eligibilities[b].riskTier]

\* A loan that is still active owes something, so that no partial payment can
\* leave it paid off and yet open.
ActiveLoansOwe ==
  \A id \in LoansOf("ACTIVE") : TotalOwed(loans[id]) > 0

\* The credit history is the vault's: a loan is recorded when and only when it
\* ended, once in its borrower's list, and the record says what happened - a
\* default after the grace period, or a repayment of everything that was owed
\* at that time, ON_TIME exactly when not after the due time.
HistoryMatchesLoans ==
  /\ DOMAIN records = DOMAIN loans \ LoansOf("ACTIVE")
  /\ \A b \in Users :
       /\ Range(borrowerRepayments[b]) = Borrowed(b) \ LoansOf("ACTIVE")
       /\ IsInjective(borrowerRepayments[b])
  /\ \A id \in DOMAIN records :
       LET loan == loans[id]
           rec  == records[id]
       IN  /\ rec.borrower = loan.borrower
           /\ rec.outcome = "DEFAULT" <=> loan.status = "DEFAULTED"
           /\ rec.outcome = "DEFAULT" => rec.timestamp > DueTime(loan) + DEFAULT_GRACE_PERIOD
           /\ rec.outcome = "ON_TIME" => rec.timestamp <= DueTime(loan)
           /\ rec.outcome = "LATE" => rec.timestamp > DueTime(loan)
           /\ loan.status = "REPAID" =>
                loan.repaidAmount = loan.principal + InterestAt(loan, rec.timestamp)

\* Of the offers made to a request at most one is ever accepted, and exactly
\* one if it was funded; only pending offers still hold a deposit, the
\* request's amount.
FundedByOneOffer ==
  /\ \A r \in DOMAIN requests :
       requests[r].status = "FUNDED" <=>
         \E o \in OffersAt("ACCEPTED") : offers[o].requestId = r
  /\ \A o, p \in OffersAt("ACCEPTED") :
       offers[o].requestId = offers[p].requestId => o = p
  /\ \A o \in DOMAIN offers :
       offerDeposits[o] = IF offers[o].status = "PENDING"
                          THEN requests[offers[o].requestId].amount ELSE 0

\* Loan id carries out offer o within the request it answered.
CarriesOut(id, o) ==
  LET loan == loans[id]
      offer == offers[o]
      request == requests[offer.requestId]
  IN  /\ loan.borrower = request.borrower /\ loan.lender = offer.lender
      /\ loan.borrower # loan.lender
      /\ loan.principal = request.amount
      /\ loan.aprBps = offer.aprBps /\ loan.aprBps <= request.maxAprBps
      /\ loan.duration = offer.duration /\ loan.duration <= request.maxDuration
      /\ loan.collateralAmount = offer.requiredCollateral

\* Every loan carries out an accepted offer of its own, on that offer's terms
\* and within those of the borrower's request, and no accepted offer is
\* without its loan.
LoansCarryOutOffers ==
  \E match \in Bijection(DOMAIN loans, OffersAt("ACCEPTED")) :
    \A id \in DOMAIN loans : CarriesOut(id, match[id])

\* No stale or exhausted bookkeeping stands in the way of ending a loan or an
\* offer, whatever became of the eligibility it started from: past the grace
\* period a default can be declared, an owner of enough money can repay, and
\* a pending offer can be withdrawn, if the parties accept being paid.
ExitsStayOpen ==
  /\ \A id \in LoansOf("ACTIVE") :
       LET loan == loans[id] IN
       /\ PastGrace(loan) /\ loan.lender \notin Rejecting => ENABLED Default(id)
       /\ balance[loan.borrower] >= TotalOwed(loan) /\ loan.lender \notin Rejecting
            => ENABLED Repay(loan.borrower, id, TotalOwed(loan))
  /\ \A o \in OffersAt("PENDING") :
       offers[o].lender \notin Rejecting =>
         CanTransfer(balance, "MARKETPLACE", offers[o].lender, offerDeposits[o])
-----------------------------------------------------------------------------
(* Steps.                                                                  *)

\* A borrower's exposure only ever grows under terms that are valid and large
\* enough at that moment - not merely when the request was made - and against
\* the collateral those terms ask for.
DrawsWithinTerms ==
  [][\A b \in Users :
       TotalConsumedCapacity(b)' > TotalConsumedCapacity(b) =>
         LET drawn == loans'[Len(loans')] IN
         /\ IsEligibilityValid(b)
         /\ TotalConsumedCapacity(b)' <= eligibilities[b].maxActiveCredit
         /\ eligibilities[b].maxLtvBps > 0 =>
              drawn.collateralAmount >=
                (drawn.principal * (BPS_DENOMINATOR - eligibilities[b].maxLtvBps))
                  \div BPS_DENOMINATOR]_vars

\* What LoanMarketplace.sol:172 says of every loan: its collateral is at least
\* the principal times one minus the borrower's loan-to-value ratio, rounded
\* down. Terms with a ratio of zero - which the registry accepts - get a loan
\* without any.
CollateralRatioEnforced ==
  [][Len(loans') > Len(loans) =>
       LET loan == loans'[Len(loans')] IN
       loan.collateralAmount >=
         (loan.principal * (BPS_DENOMINATOR - eligibilities[loan.borrower].maxLtvBps))
           \div BPS_DENOMINATOR]_vars

\* The contracts together keep the promise of LoanBook.
Book == INSTANCE LoanBook WITH
  Parties  <- Users,
  Limit    <- LOW_RISK_MAX_CREDIT,
  book     <- [id \in DOMAIN loans |->
                [borrower  |-> loans[id].borrower,
                 lender    |-> loans[id].lender,
                 principal |-> loans[id].principal,
                 phase     |-> IF loans[id].status = "ACTIVE" THEN "OPEN"
                               ELSE records[id].outcome]],
  exposure <- [b \in Users |-> TotalConsumedCapacity(b)]

KeepsLoanBook == Book!Spec
-----------------------------------------------------------------------------
(* Liveness. Time passes; anyone may declare a default, so somebody who    *)
(* gains from it - the lender - does; and a lender who wants its deposit   *)
(* back asks for it.                                                       *)
FairSpec ==
  /\ Spec
  /\ WF_vars(PassTime)
  /\ \A id \in 1 .. MaxOffers : WF_vars(id \in DOMAIN loans /\ Default(id))

\* No loan stays active for ever, whatever else goes on (in an instance: none
\* whose grace period ends before time does).
EveryLoanEnds ==
  \A id \in 1 .. MaxOffers :
    (/\ id \in LoansOf("ACTIVE")
     /\ DueTime(loans[id]) + DEFAULT_GRACE_PERIOD < MaxTime
     /\ loans[id].lender \notin Rejecting) ~>
      (id \in LoansOf("REPAID") \cup LoansOf("DEFAULTED"))
=============================================================================
