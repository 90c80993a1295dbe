------------------------ MODULE PrivateCreditProofs ------------------------
(***************************************************************************)
(* Theorems about PrivateCredit, for every set of accounts, every input    *)
(* and every bound.                                                        *)
(***************************************************************************)
EXTENDS PrivateCredit, SumTheorems, SequenceTheorems, TLAPS

Account == Users \cup Contracts
-----------------------------------------------------------------------------
(* Operators.                                                              *)

\* An item of a sequence, found by a member of its domain.
LEMMA SeqItem ==
  ASSUME NEW S, NEW s \in Seq(S), NEW i \in DOMAIN s
  PROVE  s[i] \in S /\ i \in 1 .. Len(s) /\ i \in Nat /\ DOMAIN s = 1 .. Len(s)
BY ElementOfSeq, LenProperties

\* A payment the payer can afford leaves every account with a natural balance.
LEMMA TransferType ==
  ASSUME NEW bal \in [Account -> Nat], NEW from \in Account, NEW to \in Account,
         NEW amount \in Nat, amount <= bal[from]
  PROVE  Transfer(bal, from, to, amount) \in [Account -> Nat]
BY DEF Transfer

\* What a loan owes is a natural number, however its interest rounds.
LEMMA OwedType ==
  ASSUME NEW loan \in Loan, now \in Nat
  PROVE  /\ InterestAt(loan, now) \in Int
         /\ TotalOwed(loan) \in Nat
<1>1. /\ loan.principal \in Nat /\ loan.aprBps \in Nat
      /\ loan.startTime \in Nat /\ loan.repaidAmount \in Nat
  BY DEF Loan
<1>2. BPS_DENOMINATOR * YEAR \in Nat \ {0}
  BY Ratios, LoanTerms
<1>3. loan.principal * loan.aprBps * (now - loan.startTime) \in Int
  BY <1>1
<1>4. InterestAt(loan, now) \in Int
  BY <1>2, <1>3 DEF InterestAt
<1> QED
  BY <1>1, <1>4 DEF TotalOwed, GrossOwed

\* What a borrower has drawn and may still draw are natural numbers.
LEMMA CapacityType ==
  ASSUME RegistryTypeOK, CapacityTypeOK, NEW b \in Users
  PROVE  /\ AvailableCapacity(b) \in Nat
         /\ TotalConsumedCapacity(b) \in Nat
BY DEF RegistryTypeOK, CapacityTypeOK, Eligibility, AvailableCapacity, TotalConsumedCapacity

LEMMA ReserveType ==
  ASSUME CapacityTypeOK, NEW b \in Users, NEW amount \in Nat, ReserveCapacity(b, amount)
  PROVE  CapacityTypeOK'
BY DEF CapacityTypeOK, ReserveCapacity

LEMMA ReleaseType ==
  ASSUME CapacityTypeOK, NEW b \in Users, NEW amount \in Nat, ReleaseCapacity(b, amount)
  PROVE  CapacityTypeOK'
BY DEF CapacityTypeOK, ReleaseCapacity

LEMMA LockType ==
  ASSUME CapacityTypeOK, NEW b \in Users, NEW amount \in Nat,
         LockDefaultedCapacity(b, amount)
  PROVE  CapacityTypeOK'
BY DEF CapacityTypeOK, LockDefaultedCapacity

LEMMA RecordType ==
  ASSUME RepaymentTypeOK, now \in Nat, NEW id \in Nat, NEW b \in Users, NEW amount \in Nat,
         NEW outcome \in RepaymentOutcome, RecordRepayment(id, b, amount, outcome)
  PROVE  RepaymentTypeOK'
<1>1. records' \in [DOMAIN records' -> RepaymentRecord] /\ DOMAIN records' \subseteq Nat
  BY DEF RepaymentTypeOK, RecordRepayment, RepaymentRecord
<1>2. borrowerRepayments[b] \in Seq(Nat)
  BY DEF RepaymentTypeOK
<1>3. Append(borrowerRepayments[b], id) \in Seq(Nat)
  BY <1>2, AppendProperties
<1> QED
  BY <1>1, <1>3 DEF RepaymentTypeOK, RecordRepayment
-----------------------------------------------------------------------------
(* Type correctness.                                                       *)

LEMMA InitType == Init => TypeOK
<1> SUFFICES ASSUME Init PROVE TypeOK
  OBVIOUS
<1>1. ChainTypeOK
  BY Inputs DEF Init, ChainTypeOK
<1>2. RegistryTypeOK
  BY DEF Init, RegistryInit, RegistryTypeOK, NoEligibility, Eligibility, RiskTier
<1>3. CapacityTypeOK
  BY DEF Init, CapacityInit, CapacityTypeOK
<1>4. RepaymentTypeOK
  <2>1. DOMAIN records = {} /\ records \in [DOMAIN records -> RepaymentRecord]
    BY DEF Init, RepaymentInit
  <2>2. borrowerRepayments \in [Users -> Seq(Nat)]
    BY EmptySeq DEF Init, RepaymentInit
  <2> QED
    BY <2>1, <2>2 DEF RepaymentTypeOK
<1>5. VaultTypeOK
  BY EmptySeq DEF Init, VaultInit, VaultTypeOK
<1>6. MarketTypeOK
  BY EmptySeq DEF Init, MarketInit, MarketTypeOK
<1> QED
  BY <1>1, <1>2, <1>3, <1>4, <1>5, <1>6 DEF TypeOK

LEMMA AdministerType == TypeOK /\ Administer => TypeOK'
<1> SUFFICES ASSUME TypeOK, Administer PROVE TypeOK'
  OBVIOUS
<1>1. RegistryTypeOK'
  <2>1. ASSUME NEW r \in Registrars, SetRegistrar(Owner, r)
        PROVE  RegistryTypeOK'
    BY <2>1 DEF TypeOK, RegistryTypeOK, SetRegistrar
  <2>2. ASSUME NEW b \in Applicants, NEW grant \in Grants, NEW life \in Lifetimes,
               NEW e \in Evidence \cup {NoEvidence},
               RegisterEligibility(registrar, b, grant.tier, grant.credit, grant.ltv,
                                   now + life, e)
        PROVE  RegistryTypeOK'
    <3>1. grant.tier \in RiskTier /\ grant.credit \in Nat /\ grant.ltv \in Nat
      BY Inputs
    <3>2. now + life \in Nat /\ nonces[b] + 1 \in Nat
      BY Inputs DEF TypeOK, ChainTypeOK, RegistryTypeOK
    <3>3. [riskTier |-> grant.tier, maxActiveCredit |-> grant.credit,
           maxLtvBps |-> grant.ltv, validUntil |-> now + life, evidence |-> e,
           nonce |-> nonces[b] + 1, active |-> TRUE] \in Eligibility
      BY <3>1, <3>2 DEF Eligibility
    <3> QED
      BY <2>2, <3>2, <3>3 DEF TypeOK, RegistryTypeOK, RegisterEligibility
  <2>3. ASSUME NEW caller, NEW b \in Applicants, RevokeEligibility(caller, b)
        PROVE  RegistryTypeOK'
    <3>1. b \in Users
      BY Inputs
    <3>2. [eligibilities[b] EXCEPT !.active = FALSE] \in Eligibility
      BY <3>1 DEF TypeOK, RegistryTypeOK, Eligibility
    <3> QED
      BY <2>3, <3>1, <3>2 DEF TypeOK, RegistryTypeOK, RevokeEligibility
  <2> QED
    BY <2>1, <2>2, <2>3 DEF Administer
<1>2. UNCHANGED <<now, balance, capacityVars, repaymentVars, loans, marketVars>>
  BY DEF Administer
<1> QED
  BY <1>1, <1>2 DEF TypeOK, ChainTypeOK, CapacityTypeOK, RepaymentTypeOK, VaultTypeOK,
                    MarketTypeOK, capacityVars, repaymentVars, marketVars

LEMMA TradeType == TypeOK /\ Trade => TypeOK'
<1> SUFFICES ASSUME TypeOK, Trade PROVE TypeOK'
  OBVIOUS
<1>1. MarketTypeOK' /\ balance' \in [Account -> Nat]
  <2>0. requests \in Seq(BorrowRequest) /\ offers \in Seq(LenderOffer)
        /\ offerDeposits \in Seq(Nat) /\ Len(offerDeposits) = Len(offers)
        /\ balance \in [Account -> Nat]
    BY DEF TypeOK, MarketTypeOK, ChainTypeOK, Account
  <2>1. ASSUME NEW b \in Users, NEW amount \in Amounts, NEW apr \in Aprs,
               NEW duration \in Durations, CreateBorrowRequest(b, amount, apr, duration)
        PROVE  MarketTypeOK' /\ balance' \in [Account -> Nat]
    <3>1. [borrower |-> b, amount |-> amount, maxAprBps |-> apr,
           maxDuration |-> duration, status |-> "OPEN"] \in BorrowRequest
      BY Inputs DEF BorrowRequest, RequestStatus
    <3>2. /\ requests' \in Seq(BorrowRequest)
          /\ Len(requests') = Len(requests) + 1
      BY <2>0, <2>1, <3>1, AppendProperties DEF CreateBorrowRequest
    <3>3. \A o \in DOMAIN offers : offers[o].requestId \in DOMAIN requests'
      BY <2>0, <3>2, LenProperties DEF TypeOK, MarketTypeOK
    <3> QED
      BY <2>0, <2>1, <3>2, <3>3 DEF CreateBorrowRequest, MarketTypeOK
  <2>2. ASSUME NEW b \in Users, NEW r \in DOMAIN requests, CancelBorrowRequest(b, r)
        PROVE  MarketTypeOK' /\ balance' \in [Account -> Nat]
    <3>0. requests[r] \in BorrowRequest /\ r \in 1 .. Len(requests)
      BY <2>0, SeqItem
    <3>1. [requests[r] EXCEPT !.status = "CANCELLED"] \in BorrowRequest
      BY <3>0 DEF BorrowRequest, RequestStatus
    <3>2. requests' \in Seq(BorrowRequest) /\ DOMAIN requests' = DOMAIN requests
      BY <2>0, <2>2, <3>0, <3>1, ExceptSeq, LenProperties DEF CancelBorrowRequest
    <3> QED
      BY <2>0, <2>2, <3>2 DEF TypeOK, CancelBorrowRequest, MarketTypeOK
  <2>3. ASSUME NEW lender \in Users, NEW r \in DOMAIN requests, NEW apr \in Aprs,
               NEW duration \in Durations, NEW collateral \in Collaterals,
               CreateLenderOffer(lender, r, apr, duration, collateral, requests[r].amount)
        PROVE  MarketTypeOK' /\ balance' \in [Account -> Nat]
    <3>0. requests[r] \in BorrowRequest /\ r \in Nat
      BY <2>0, SeqItem
    <3>1. requests[r].amount \in Nat /\ r \in Nat
      BY <3>0 DEF BorrowRequest
    <3>2. [requestId |-> r, lender |-> lender, aprBps |-> apr, duration |-> duration,
           requiredCollateral |-> collateral, status |-> "PENDING"] \in LenderOffer
      BY <3>1, Inputs DEF LenderOffer, OfferStatus
    <3>3. /\ offers' \in Seq(LenderOffer) /\ Len(offers') = Len(offers) + 1
          /\ \A o \in 1 .. Len(offers) : offers'[o] = offers[o]
          /\ offers'[Len(offers) + 1].requestId = r
      BY <2>0, <2>3, <3>2, AppendProperties DEF CreateLenderOffer
    <3>4. offerDeposits' \in Seq(Nat) /\ Len(offerDeposits') = Len(offers')
      BY <2>0, <2>3, <3>1, <3>3, AppendProperties DEF CreateLenderOffer
    <3>5. requests' = requests
      BY <2>3 DEF CreateLenderOffer
    <3>6. \A o \in DOMAIN offers' : offers'[o].requestId \in DOMAIN requests'
      <4>1. \A o \in 1 .. Len(offers) : offers[o].requestId \in DOMAIN requests
        BY <2>0, LenProperties DEF TypeOK, MarketTypeOK
      <4>2. DOMAIN offers' = 1 .. Len(offers) + 1 /\ Len(offers) \in Nat
        BY <2>0, <3>3, LenProperties
      <4> QED
        BY <3>3, <3>5, <4>1, <4>2
    <3>7. balance' \in [Account -> Nat]
      BY <2>0, <2>3, <3>1, Holders, TransferType DEF CreateLenderOffer, CanTransfer, Account
    <3> QED
      BY <2>0, <3>3, <3>4, <3>5, <3>6, <3>7 DEF MarketTypeOK
  <2>4. ASSUME NEW lender \in Users, NEW o \in DOMAIN offers, WithdrawOffer(lender, o)
        PROVE  MarketTypeOK' /\ balance' \in [Account -> Nat]
    <3>0. offers[o] \in LenderOffer /\ o \in 1 .. Len(offers)
      BY <2>0, SeqItem
    <3>1. [offers[o] EXCEPT !.status = "WITHDRAWN"] \in LenderOffer
      BY <3>0 DEF LenderOffer, OfferStatus
    <3>2. /\ offers' \in Seq(LenderOffer) /\ Len(offers') = Len(offers)
          /\ \A p \in DOMAIN offers' : offers'[p].requestId = offers[p].requestId
      BY <2>0, <2>4, <3>0, <3>1, ExceptSeq, LenProperties DEF WithdrawOffer, LenderOffer
    <3>3. offerDeposits' \in Seq(Nat) /\ Len(offerDeposits') = Len(offerDeposits)
      BY <2>0, <2>4, ExceptSeq, LenProperties DEF WithdrawOffer
    <3>4. balance' \in [Account -> Nat]
      <4>1. offerDeposits[o] \in Nat
        BY <2>0, ElementOfSeq, LenProperties
      <4> QED
        BY <2>0, <2>4, <4>1, Holders, TransferType DEF WithdrawOffer, CanTransfer, Account
    <3>5. requests' = requests /\ DOMAIN offers' = DOMAIN offers
      BY <2>0, <2>4, <3>2, LenProperties DEF WithdrawOffer
    <3> QED
      BY <2>0, <3>2, <3>3, <3>4, <3>5 DEF TypeOK, MarketTypeOK
  <2> QED
    BY <2>1, <2>2, <2>3, <2>4 DEF Trade
<1>2. UNCHANGED <<now, registryVars, capacityVars, repaymentVars, loans>>
  BY DEF Trade
<1> QED
  BY <1>1, <1>2 DEF TypeOK, ChainTypeOK, RegistryTypeOK, CapacityTypeOK, RepaymentTypeOK,
                    VaultTypeOK, Account, registryVars, capacityVars, repaymentVars

LEMMA AcceptType ==
  ASSUME TypeOK, NEW b \in Users, NEW o \in DOMAIN offers, Accept(b, o)
  PROVE  TypeOK'
<1> DEFINE offer == offers[o]
           r == offer.requestId
           value == offer.requiredCollateral
           principal == offerDeposits[o]
           paid == Transfer(balance, b, "MARKETPLACE", value)
           sent == Transfer(paid, "MARKETPLACE", "VAULT", principal + value)
<1>1. /\ offers \in Seq(LenderOffer) /\ requests \in Seq(BorrowRequest)
      /\ offerDeposits \in Seq(Nat) /\ Len(offerDeposits) = Len(offers)
      /\ loans \in Seq(Loan) /\ now \in Nat /\ balance \in [Account -> Nat]
  BY DEF TypeOK, MarketTypeOK, VaultTypeOK, ChainTypeOK, Account
<1>2. /\ offer \in LenderOffer /\ o \in 1 .. Len(offers)
      /\ principal \in Nat /\ r \in DOMAIN requests
  <2>1. offer \in LenderOffer /\ o \in 1 .. Len(offers)
    BY <1>1, SeqItem
  <2>2. principal \in Nat
    BY <1>1, <2>1, ElementOfSeq
  <2> QED
    BY <2>1, <2>2 DEF TypeOK, MarketTypeOK
<1>3. /\ offer.lender \in Users /\ offer.aprBps \in Nat
      /\ offer.duration \in Nat /\ value \in Nat
  BY <1>2 DEF LenderOffer
<1>4. /\ AcceptOffer(b, o, value)
      /\ OriginateLoan(sent, principal + value, b, offer.lender, principal,
                       offer.aprBps, offer.duration, value)
      /\ UNCHANGED <<now, registryVars, repaymentVars>>
  BY DEF Accept, AcceptOffer
<1>5. CapacityTypeOK'
  <2>1. ReserveCapacity(b, principal)
    BY <1>4 DEF OriginateLoan
  <2> QED
    BY <1>2, <2>1, ReserveType DEF TypeOK
<1>6. VaultTypeOK'
  <2>1. [borrower |-> b, lender |-> offer.lender, principal |-> principal,
         aprBps |-> offer.aprBps, startTime |-> now, duration |-> offer.duration,
         collateralAmount |-> value, repaidAmount |-> 0, status |-> "ACTIVE"] \in Loan
    BY <1>1, <1>2, <1>3 DEF Loan, LoanStatus
  <2> QED
    BY <1>1, <1>4, <2>1, AppendProperties DEF VaultTypeOK, OriginateLoan
<1>7. balance' \in [Account -> Nat]
  <2>1. {b, "MARKETPLACE", "VAULT"} \subseteq Account
    BY Holders DEF Account
  <2>2. paid \in [Account -> Nat]
    BY <1>1, <1>3, <1>4, <2>1, TransferType DEF AcceptOffer, CanTransfer
  <2>3. principal + value \in Nat /\ principal + value <= paid["MARKETPLACE"]
    BY <1>2, <1>3, <1>4 DEF AcceptOffer, CanTransfer
  <2>4. sent \in [Account -> Nat]
    BY <2>1, <2>2, <2>3, TransferType
  <2>5. principal <= sent["VAULT"] /\ balance' = Transfer(sent, "VAULT", b, principal)
    BY <1>4 DEF OriginateLoan, CanTransfer
  <2> QED
    BY <1>2, <2>1, <2>4, <2>5, TransferType
<1>8. MarketTypeOK'
  <2>0. requests[r] \in BorrowRequest /\ r \in 1 .. Len(requests)
    BY <1>1, <1>2, SeqItem
  <2>1. [requests[r] EXCEPT !.status = "FUNDED"] \in BorrowRequest
    BY <2>0 DEF BorrowRequest, RequestStatus
  <2>2. requests' \in Seq(BorrowRequest) /\ DOMAIN requests' = DOMAIN requests
    BY <1>1, <1>4, <2>0, <2>1, ExceptSeq, LenProperties DEF AcceptOffer
  <2>3. [offers[o] EXCEPT !.status = "ACCEPTED"] \in LenderOffer
    BY <1>2 DEF LenderOffer, OfferStatus
  <2>4. /\ offers' \in Seq(LenderOffer) /\ Len(offers') = Len(offers)
        /\ DOMAIN offers' = DOMAIN offers
        /\ \A p \in DOMAIN offers : offers'[p].requestId = offers[p].requestId
    BY <1>1, <1>2, <1>4, <2>3, ExceptSeq, LenProperties DEF AcceptOffer, LenderOffer
  <2>5. offerDeposits' \in Seq(Nat) /\ Len(offerDeposits') = Len(offerDeposits)
    BY <1>1, <1>2, <1>4, ExceptSeq DEF AcceptOffer
  <2> QED
    BY <1>1, <2>2, <2>4, <2>5 DEF TypeOK, MarketTypeOK
<1> QED
  BY <1>1, <1>4, <1>5, <1>6, <1>7, <1>8
  DEF TypeOK, ChainTypeOK, RegistryTypeOK, RepaymentTypeOK, Account, registryVars, repaymentVars

LEMMA RepayType ==
  ASSUME TypeOK, NEW b \in Users, NEW id \in DOMAIN loans, NEW value \in Nat,
         Repay(b, id, value)
  PROVE  TypeOK'
<1> DEFINE loan == loans[id]
           owed == TotalOwed(loan)
           received == Transfer(balance, loan.borrower, "VAULT", value)
<1>1. /\ loans \in Seq(Loan) /\ now \in Nat /\ balance \in [Account -> Nat]
      /\ {"MARKETPLACE", "VAULT"} \subseteq Account
  BY Holders DEF TypeOK, VaultTypeOK, ChainTypeOK, Account
<1>2. /\ loan \in Loan /\ id \in 1 .. Len(loans) /\ id \in Nat
      /\ owed \in Nat
  BY <1>1, SeqItem, OwedType
<1>3. /\ loan.borrower \in Users /\ loan.lender \in Users /\ loan.principal \in Nat
      /\ loan.collateralAmount \in Nat /\ loan.repaidAmount \in Nat
      /\ loan.borrower \in Account /\ loan.lender \in Account
  BY <1>2 DEF Loan, Account
<1>4. UNCHANGED <<now, registryVars, marketVars>>
  BY DEF Repay
<1>5. value <= balance[loan.borrower] => received \in [Account -> Nat]
  BY <1>1, <1>3, TransferType
<1>6. CASE RepayInFull(id, value)
  <2> DEFINE returned == Transfer(received, "VAULT", loan.borrower, loan.collateralAmount)
             paid == Transfer(returned, "VAULT", loan.lender, owed)
  <2>1. VaultTypeOK'
    <3>1. [loan EXCEPT !.repaidAmount = @ + owed, !.status = "REPAID"] \in Loan
      <4>1. loan.repaidAmount + owed \in Nat
        BY <1>2, <1>3
      <4>2. ASSUME NEW n \in Nat
            PROVE  [loan EXCEPT !.repaidAmount = n, !.status = "REPAID"] \in Loan
        BY <1>2 DEF Loan, LoanStatus
      <4> QED
        BY <4>1, <4>2
    <3>2. loans' = [loans EXCEPT ![id] = [loan EXCEPT !.repaidAmount = @ + owed,
                                                      !.status = "REPAID"]]
      BY <1>1, <1>2, <1>6 DEF RepayInFull, Loan
    <3> QED
      BY <1>1, <1>2, <3>1, <3>2, ExceptSeq DEF VaultTypeOK
  <2>2. CapacityTypeOK'
    BY <1>3, <1>6, ReleaseType DEF TypeOK, RepayInFull
  <2>3. RepaymentTypeOK'
    BY <1>1, <1>2, <1>3, <1>6, RecordType DEF TypeOK, RepayInFull, RepaymentOutcome
  <2>4. balance' \in [Account -> Nat]
    <3>1. received \in [Account -> Nat]
      BY <1>5, <1>6 DEF RepayInFull
    <3>2. returned \in [Account -> Nat]
      BY <1>1, <1>3, <1>6, <3>1, TransferType DEF RepayInFull, CanTransfer
    <3>3. paid \in [Account -> Nat]
      BY <1>1, <1>2, <1>3, <1>6, <3>2, TransferType DEF RepayInFull, CanTransfer
    <3>4. value - owed \in Nat /\ value - owed <= paid["VAULT"]
      BY <1>1, <1>2, <1>6, <3>3 DEF RepayInFull, CanTransfer
    <3> QED
      BY <1>1, <1>3, <1>6, <3>3, <3>4, TransferType DEF RepayInFull
  <2> QED
    BY <1>1, <1>4, <2>1, <2>2, <2>3, <2>4
    DEF TypeOK, ChainTypeOK, RegistryTypeOK, MarketTypeOK, Account, registryVars, marketVars
<1>7. CASE RepayInPart(id, value)
  <2>1. VaultTypeOK'
    <3>1. [loan EXCEPT !.repaidAmount = @ + value] \in Loan
      BY <1>2, <1>3 DEF Loan
    <3> QED
      BY <1>1, <1>2, <1>7, <3>1, ExceptSeq DEF VaultTypeOK, RepayInPart
  <2>2. balance' \in [Account -> Nat]
    BY <1>1, <1>3, <1>5, <1>7, TransferType DEF RepayInPart, CanTransfer
  <2>3. UNCHANGED <<capacityVars, repaymentVars>>
    BY <1>7 DEF RepayInPart
  <2> QED
    BY <1>1, <1>4, <2>1, <2>2, <2>3
    DEF TypeOK, ChainTypeOK, RegistryTypeOK, CapacityTypeOK, RepaymentTypeOK, MarketTypeOK,
        Account, registryVars, capacityVars, repaymentVars, marketVars
<1> QED
  BY <1>6, <1>7 DEF Repay, RepayLoan

LEMMA DefaultType ==
  ASSUME TypeOK, NEW id \in DOMAIN loans, Default(id)
  PROVE  TypeOK'
<1> DEFINE loan == loans[id]
<1>1. /\ loans \in Seq(Loan) /\ now \in Nat /\ balance \in [Account -> Nat]
      /\ "VAULT" \in Account
  BY Holders DEF TypeOK, VaultTypeOK, ChainTypeOK, Account
<1>2. loan \in Loan /\ id \in 1 .. Len(loans) /\ id \in Nat
  BY <1>1, SeqItem
<1>3. /\ loan.borrower \in Users /\ loan.lender \in Account /\ loan.principal \in Nat
      /\ loan.collateralAmount \in Nat
  BY <1>2 DEF Loan, Account
<1>4. VaultTypeOK'
  <2>1. [loan EXCEPT !.status = "DEFAULTED"] \in Loan
    BY <1>2 DEF Loan, LoanStatus
  <2> QED
    BY <1>1, <1>2, <2>1, ExceptSeq DEF VaultTypeOK, Default, DeclareDefault
<1>5. CapacityTypeOK'
  BY <1>3, LockType DEF TypeOK, Default, DeclareDefault
<1>6. RepaymentTypeOK'
  BY <1>1, <1>2, <1>3, RecordType DEF TypeOK, Default, DeclareDefault, RepaymentOutcome
<1>7. balance' \in [Account -> Nat]
  BY <1>1, <1>3, TransferType DEF Default, DeclareDefault, CanTransfer
<1> QED
  BY <1>1, <1>4, <1>5, <1>6, <1>7
  DEF Default, TypeOK, ChainTypeOK, RegistryTypeOK, MarketTypeOK, Account,
      registryVars, marketVars

LEMMA NextType == TypeOK /\ [Next]_vars => TypeOK'
<1> SUFFICES ASSUME TypeOK, [Next]_vars PROVE TypeOK'
  OBVIOUS
<1>1. CASE PassTime
  BY <1>1 DEF PassTime, Tick, TypeOK, ChainTypeOK, RegistryTypeOK, CapacityTypeOK,
              RepaymentTypeOK, VaultTypeOK, MarketTypeOK, registryVars, capacityVars,
              repaymentVars, marketVars
<1>2. CASE Administer
  BY <1>2, AdministerType
<1>3. CASE Trade
  BY <1>3, TradeType
<1>4. ASSUME NEW b \in Users, NEW o \in DOMAIN offers, Accept(b, o)
      PROVE  TypeOK'
  BY <1>4, AcceptType
<1>5. ASSUME NEW b \in Users, NEW id \in DOMAIN loans, NEW value \in Payments,
             Repay(b, id, value)
      PROVE  TypeOK'
  BY <1>5, Inputs, RepayType
<1>6. ASSUME NEW id \in DOMAIN loans, Default(id)
      PROVE  TypeOK'
  BY <1>6, DefaultType
<1>7. CASE UNCHANGED vars
  BY <1>7 DEF vars, TypeOK, ChainTypeOK, RegistryTypeOK, CapacityTypeOK,
              RepaymentTypeOK, VaultTypeOK, MarketTypeOK, registryVars, capacityVars,
              repaymentVars, marketVars
<1> QED
  BY <1>1, <1>2, <1>3, <1>4, <1>5, <1>6, <1>7 DEF Next

\* Every variable keeps its type: no balance, counter or debt of the contracts
\* ever becomes negative, whatever is sent to them.
THEOREM TypeCorrect == Spec => []TypeOK
<1>1. Init => TypeOK
  BY InitType
<1>2. TypeOK /\ [Next]_vars => TypeOK'
  BY NextType
<1> QED
  BY <1>1, <1>2, PTL DEF Spec
=============================================================================
