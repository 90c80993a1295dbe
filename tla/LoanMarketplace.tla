-------------------------- MODULE LoanMarketplace --------------------------
(***************************************************************************)
(* contracts/core/LoanMarketplace.sol: borrowers publish requests, lenders *)
(* answer with offers whose principal they deposit, and accepting an offer *)
(* turns its deposit into a loan of the vault. Ids count from 1, so the    *)
(* mappings are sequences; offerDeposits runs parallel to offers.          *)
(***************************************************************************)
EXTENDS LoanVault

ASSUME Holders == {"MARKETPLACE", "VAULT"} \subseteq Contracts

VARIABLES requests, offers, offerDeposits

marketVars == <<requests, offers, offerDeposits>>

RequestStatus == {"OPEN", "FUNDED", "CANCELLED"}
OfferStatus == {"PENDING", "ACCEPTED", "WITHDRAWN"}

BorrowRequest ==
  [borrower : Users, amount : Nat, maxAprBps : Nat, maxDuration : Nat,
   status : RequestStatus]

LenderOffer ==
  [requestId : Nat, lender : Users, aprBps : Nat, duration : Nat,
   requiredCollateral : Nat, status : OfferStatus]

MarketTypeOK ==
  /\ requests \in Seq(BorrowRequest)
  /\ offers \in Seq(LenderOffer)
  /\ \A o \in DOMAIN offers : offers[o].requestId \in DOMAIN requests
  /\ offerDeposits \in Seq(Nat)
  /\ Len(offerDeposits) = Len(offers)

MarketInit == requests = <<>> /\ offers = <<>> /\ offerDeposits = <<>>
-----------------------------------------------------------------------------
CreateBorrowRequest(b, amount, maxApr, maxDuration) ==
  /\ amount # 0 /\ maxApr <= MAX_APR_BPS
  /\ maxDuration # 0 /\ maxDuration <= MAX_LOAN_DURATION
  /\ IsEligibilityValid(b)
  /\ CanBorrow(b, amount)
  /\ requests' = Append(requests,
       [borrower |-> b, amount |-> amount, maxAprBps |-> maxApr,
        maxDuration |-> maxDuration, status |-> "OPEN"])
  /\ UNCHANGED <<offers, offerDeposits, balance>>

CancelBorrowRequest(b, r) ==
  /\ requests[r].borrower = b
  /\ requests[r].status = "OPEN"
  /\ requests' = [requests EXCEPT ![r].status = "CANCELLED"]
  /\ UNCHANGED <<offers, offerDeposits, balance>>

\* Faulty variant: only the protocol's limits bind the lender.
WithinLimits(r, apr, duration) ==
  duration # 0 /\ duration <= MAX_LOAN_DURATION /\ apr <= MAX_APR_BPS

WithinRequest(r, apr, duration) ==
  /\ duration # 0 /\ duration <= requests[r].maxDuration
  /\ apr <= requests[r].maxAprBps /\ apr <= MAX_APR_BPS

\* Faulty variant: a borrower may fund its own request.
CreateOwnOffer(lender, r, apr, duration, collateral, value) ==
  /\ requests[r].status = "OPEN" /\ WithinRequest(r, apr, duration)
  /\ value = requests[r].amount
  /\ CanTransfer(balance, lender, "MARKETPLACE", value)
  /\ balance' = Transfer(balance, lender, "MARKETPLACE", value)
  /\ offers' = Append(offers,
       [requestId |-> r, lender |-> lender, aprBps |-> apr, duration |-> duration,
        requiredCollateral |-> collateral, status |-> "PENDING"])
  /\ offerDeposits' = Append(offerDeposits, value)
  /\ UNCHANGED requests

\* An id that names no request reads as an open one with a longest duration
\* of zero, which no offer's duration meets: r ranges over the requests.
CreateLenderOffer(lender, r, apr, duration, collateral, value) ==
  /\ requests[r].borrower # lender
  /\ requests[r].status = "OPEN"
  /\ WithinRequest(r, apr, duration)
  /\ value = requests[r].amount
  /\ CanTransfer(balance, lender, "MARKETPLACE", value)
  /\ balance' = Transfer(balance, lender, "MARKETPLACE", value)
  /\ offers' = Append(offers,
       [requestId |-> r, lender |-> lender, aprBps |-> apr, duration |-> duration,
        requiredCollateral |-> collateral, status |-> "PENDING"])
  /\ offerDeposits' = Append(offerDeposits, value)
  /\ UNCHANGED requests

WithdrawOffer(lender, o) ==
  /\ offers[o].lender = lender
  /\ offers[o].status = "PENDING"
  /\ offers' = [offers EXCEPT ![o].status = "WITHDRAWN"]
  /\ offerDeposits' = [offerDeposits EXCEPT ![o] = 0]
  /\ CanTransfer(balance, "MARKETPLACE", lender, offerDeposits[o])
  /\ balance' = Transfer(balance, "MARKETPLACE", lender, offerDeposits[o])
  /\ UNCHANGED requests

\* What the borrower's terms at the time of acceptance ask for a principal,
\* rounded down. Terms that state no loan-to-value ratio ask for nothing.
MinCollateral(b, principal) ==
  LET ltv   == eligibilities[b].maxLtvBps
      ratio == IF BPS_DENOMINATOR > ltv THEN BPS_DENOMINATOR - ltv
                                        ELSE MIN_COLLATERAL_BPS
  IN  IF ltv > 0 THEN (principal * ratio) \div BPS_DENOMINATOR ELSE 0

\* Faulty variant: the request may have been funded or cancelled meanwhile.
AcceptableAnyRequest(b, o, value) ==
  /\ requests[offers[o].requestId].borrower = b
  /\ offers[o].status = "PENDING"
  /\ value = offers[o].requiredCollateral

Acceptable(b, o, value) ==
  /\ requests[offers[o].requestId].borrower = b
  /\ requests[offers[o].requestId].status = "OPEN"
  /\ offers[o].status = "PENDING"
  /\ value = offers[o].requiredCollateral

\* The vault's originateLoan runs inside: if it refuses, nothing happened.
AcceptOffer(b, o, value) ==
  LET offer     == offers[o]
      r         == offer.requestId
      principal == offerDeposits[o]
      paid      == Transfer(balance, b, "MARKETPLACE", value)
  IN  /\ Acceptable(b, o, value)
      /\ CanTransfer(balance, b, "MARKETPLACE", value)
      /\ value >= MinCollateral(b, principal)
      /\ requests' = [requests EXCEPT ![r].status = "FUNDED"]
      /\ offers' = [offers EXCEPT ![o].status = "ACCEPTED"]
      /\ offerDeposits' = [offerDeposits EXCEPT ![o] = 0]
      /\ CanTransfer(paid, "MARKETPLACE", "VAULT", principal + value)
      /\ OriginateLoan(Transfer(paid, "MARKETPLACE", "VAULT", principal + value),
                       principal + value, b, offer.lender, principal,
                       offer.aprBps, offer.duration, value)
=============================================================================
